---------------------- MODULE WebhookDeliveriesProofs ------------------------
(***************************************************************************)
(* Theorems about WebhookDeliveries, for every set of workers and          *)
(* deliveries and every bound.                                             *)
(***************************************************************************)
EXTENDS WebhookDeliveries, TLAPS

\* What a row says of the past: each counted attempt was a post, a failed delivery
\* used them up and a succeeded one was accepted.
RowInv(d) ==
  /\ row[d].attempts <= tries[d]
  /\ row[d].status = "failed" => row[d].attempts >= MaxAttempts
  /\ row[d].status = "succeeded" => d \in accepted

\* The count a worker read is as old as its read; after the post it is one behind.
WorkerInv(w) ==
  At(w, "idle") \/
    LET d == call[w].delivery
    IN  /\ d \in Deliveries
        /\ call[w].seen <= tries[d]
        /\ At(w, "write") => call[w].seen + 1 <= tries[d]
        /\ At(w, "write") /\ call[w].ok => d \in accepted

IInv == TypeOK /\ (\A d \in Deliveries : RowInv(d)) /\ (\A w \in Workers : WorkerInv(w))

\* What no step undoes.
Grows == accepted \subseteq accepted' /\ \A d \in Deliveries : tries[d] <= tries'[d]

LEMMA IdleTyped == Idle \in Calls
BY DEF Idle, Calls

LEMMA RowsTyped == Fresh \in Rows /\ NoRow \in Rows
                   /\ \A r \in Rows : r.attempts \in Nat /\ (r.status = "pending" => r.attempts < MaxAttempts)
BY WebhookAssumption DEF Rows, Fresh, NoRow

\* The row after an attempt is a row.
LEMMA SettledTyped ==
  ASSUME NEW ok \in BOOLEAN, NEW n \in Nat
  PROVE  /\ Settled(ok, n) \in Rows
         /\ Settled(ok, n).attempts = n
         /\ Settled(ok, n).status = "failed" => n >= MaxAttempts
         /\ Settled(ok, n).status = "succeeded" => ok
<1> USE WebhookAssumption
<1>1. CASE ok
  BY <1>1 DEF Settled, Rows
<1>2. CASE ~ok /\ n >= MaxAttempts
  BY <1>2 DEF Settled, Rows
<1>3. CASE ~ok /\ ~(n >= MaxAttempts)
  <2>1. Settled(ok, n) = [status |-> "pending", attempts |-> n, next |-> "later"]
    BY <1>3 DEF Settled
  <2>2. n \in 0..(MaxAttempts - 1)
    BY <1>3
  <2> QED  BY <2>1, <2>2 DEF Rows
<1> QED  BY <1>1, <1>2, <1>3

\* A worker that does not move keeps its invariant, a row that is not written too.
LEMMA StableWorker ==
  ASSUME TypeOK, TypeOK', NEW w \in Workers, WorkerInv(w), call'[w] = call[w], Grows
  PROVE  WorkerInv(w)'
<1>1. CASE At(w, "idle")
  BY <1>1 DEF WorkerInv, At
<1>2. CASE ~At(w, "idle")
  <2> DEFINE d == call[w].delivery
  <2>1. d \in Deliveries /\ tries[d] \in Nat /\ tries'[d] \in Nat /\ call[w].seen \in Nat
        /\ tries[d] <= tries'[d]
    BY <1>2 DEF WorkerInv, TypeOK, Calls, Grows
  <2> QED  BY <1>2, <2>1 DEF WorkerInv, At, Grows
<1> QED  BY <1>1, <1>2

LEMMA StableRow ==
  ASSUME TypeOK, TypeOK', NEW d \in Deliveries, RowInv(d), row'[d] = row[d], Grows
  PROVE  RowInv(d)'
<1>1. tries[d] \in Nat /\ tries'[d] \in Nat /\ row[d].attempts \in Nat /\ tries[d] <= tries'[d]
  BY RowsTyped DEF TypeOK, Grows
<1> QED  BY <1>1 DEF RowInv, Grows

\* A fresh row is sound.
LEMMA FreshRow ==
  ASSUME TypeOK', NEW d \in Deliveries, row'[d] = Fresh
  PROVE  RowInv(d)'
<1>1. tries'[d] \in Nat
  BY DEF TypeOK
<1> QED  BY <1>1 DEF RowInv, Fresh

LEMMA InitIInv == Init => IInv
<1> SUFFICES ASSUME Init PROVE IInv
  OBVIOUS
<1>1. TypeOK
  BY WebhookAssumption, IdleTyped, RowsTyped DEF Init, TypeOK
<1>2. ASSUME NEW d \in Deliveries PROVE RowInv(d)
  BY DEF Init, RowInv, NoRow
<1>3. ASSUME NEW w \in Workers PROVE WorkerInv(w)
  BY DEF Init, WorkerInv, At, Idle
<1> QED  BY <1>1, <1>2, <1>3 DEF IInv

\* The steps that leave workers and merchants alone.
LEMMA RowSteps ==
  ASSUME IInv, NEW d \in Deliveries,
         \/ CreateDelivery(d) \/ TimePasses(d) \/ ScanDueDeliveries(d)
         \/ RetryDelivery(d) \/ LoseMessage(d)
  PROVE  IInv'
<1> USE WebhookAssumption DEF merchant, budget
<1>0. TypeOK /\ \A e \in Deliveries : RowInv(e) /\ row[e] \in Rows
  BY DEF IInv, TypeOK
<1>1. UNCHANGED <<call, tries, accepted>>
  BY DEF CreateDelivery, TimePasses, ScanDueDeliveries, RetryDelivery, LoseMessage
<1>2. /\ \A e \in Deliveries \ {d} : row'[e] = row[e]
      /\ row' \in [Deliveries -> Rows]
      /\ \/ row'[d] = Fresh
         \/ row'[d] = row[d]
         \/ row[d].next = "later" /\ row'[d] = [row[d] EXCEPT !.next = "due"]
  <2>1. CASE CreateDelivery(d) \/ RetryDelivery(d)
    BY <1>0, <2>1, RowsTyped DEF CreateDelivery, RetryDelivery, TypeOK
  <2>2. CASE ScanDueDeliveries(d) \/ LoseMessage(d)
    BY <1>0, <2>2 DEF ScanDueDeliveries, LoseMessage, TypeOK
  <2>3. CASE TimePasses(d)
    <3>1. row[d].next = "later" => [row[d] EXCEPT !.next = "due"] \in Rows
      BY <1>0 DEF Rows, NoRow
    <3> QED  BY <1>0, <2>3, <3>1 DEF TimePasses, TypeOK
  <2> QED  BY <2>1, <2>2, <2>3
<1>3. queue' \in [Deliveries -> 0..MaxQueue]
  <2>1. queue \in [Deliveries -> 0..MaxQueue] /\ queue[d] \in 0..MaxQueue
    BY <1>0 DEF TypeOK
  <2>2. CASE Enqueue(d)
    BY <2>1, <2>2 DEF Enqueue
  <2>3. CASE UNCHANGED queue
    BY <2>1, <2>3
  <2>4. CASE LoseMessage(d)
    BY <2>1, <2>4 DEF LoseMessage
  <2> QED  BY <2>2, <2>3, <2>4 DEF CreateDelivery, TimePasses, ScanDueDeliveries, RetryDelivery
<1>4. faults' \in 0..MaxFaults /\ retries' \in 0..MaxRetries
  <2>1. faults \in 0..MaxFaults /\ retries \in 0..MaxRetries
    BY <1>0 DEF TypeOK
  <2> QED  BY <2>1 DEF CreateDelivery, TimePasses, ScanDueDeliveries, RetryDelivery, LoseMessage
<1>5. TypeOK' /\ Grows
  BY <1>0, <1>1, <1>2, <1>3, <1>4 DEF TypeOK, Grows
<1>6. ASSUME NEW e \in Deliveries PROVE RowInv(e)'
  <2>1. CASE row'[e] = row[e]
    BY <1>0, <1>5, <2>1, StableRow
  <2>2. CASE e = d /\ row'[d] = Fresh
    BY <1>5, <2>2, FreshRow
  <2>3. CASE e = d /\ row[d].next = "later" /\ row'[d] = [row[d] EXCEPT !.next = "due"]
    <3>1. row[d].status = row'[d].status /\ row[d].attempts = row'[d].attempts
      BY <1>0, <2>3 DEF Rows, NoRow
    <3> QED  BY <1>0, <1>1, <2>3, <3>1 DEF RowInv
  <2> QED  BY <1>2, <2>1, <2>2, <2>3
<1>7. \A w \in Workers : WorkerInv(w)'
  BY <1>0, <1>1, <1>5, StableWorker DEF IInv
<1> QED  BY <1>5, <1>6, <1>7 DEF IInv

\* The steps of a worker.
LEMMA WorkerSteps ==
  ASSUME IInv, NEW w \in Workers,
         (\E d \in Deliveries : Deliver(w, d)) \/ Step(w) \/ Crash(w)
  PROVE  IInv'
<1> USE WebhookAssumption DEF merchant, budget
<1>0. /\ TypeOK /\ WorkerInv(w) /\ call[w] \in Calls /\ call \in [Workers -> Calls]
      /\ \A e \in Deliveries : RowInv(e) /\ row[e] \in Rows
  BY DEF IInv, TypeOK
<1>q. ASSUME TypeOK', Grows, WorkerInv(w)', \A e \in Deliveries : RowInv(e)',
             \A v \in Workers \ {w} : call'[v] = call[v]
      PROVE  IInv'
  BY <1>q, <1>0, StableWorker DEF IInv
<1>1. ASSUME NEW d \in Deliveries, Deliver(w, d) PROVE IInv'
  <2>1. UNCHANGED <<row, tries, accepted, faults, retries>>
    BY <1>1 DEF Deliver
  <2>2. queue' \in [Deliveries -> 0..MaxQueue]
    BY <1>0, <1>1 DEF Deliver, TypeOK
  <2>3. CASE call' = call
    <3>1. TypeOK' /\ Grows
      BY <1>0, <2>1, <2>2, <2>3 DEF TypeOK, Grows
    <3> QED  BY <1>0, <1>q, <2>1, <2>3, <3>1, StableRow, StableWorker
  <2>4. CASE call' = [call EXCEPT ![w] = [pc |-> "post", delivery |-> d,
                                         seen |-> row[d].attempts, ok |-> FALSE]]
    <3>1. call' \in [Workers -> Calls]
      BY <1>0, <2>4, RowsTyped DEF Calls
    <3>2. TypeOK' /\ Grows
      BY <1>0, <2>1, <2>2, <3>1 DEF TypeOK, Grows
    <3>3. WorkerInv(w)'
      BY <1>0, <2>1, <2>4 DEF WorkerInv, RowInv, At
    <3> QED  BY <1>0, <1>q, <2>1, <2>4, <3>2, <3>3, StableRow
  <2> QED  BY <1>1, <2>3, <2>4 DEF Deliver
<1>2. CASE Post(w)
  <2> DEFINE d == call[w].delivery
  <2>1. d \in Deliveries /\ At(w, "post") /\ call[w].seen \in Nat /\ tries[d] \in Nat
        /\ call[w].seen <= tries[d]
    BY <1>0, <1>2 DEF Post, WorkerInv, At, TypeOK, Calls
  <2>2. UNCHANGED <<row, queue, faults, retries>> /\ tries' = [tries EXCEPT ![d] = @ + 1]
    BY <1>2 DEF Post
  <2>3. PICK took, heard \in BOOLEAN :
          /\ accepted' = IF took THEN accepted \cup {d} ELSE accepted
          /\ call' = [call EXCEPT ![w].pc = "write", ![w].ok = took /\ heard]
    BY <1>2 DEF Post
  <2>4. tries' \in [Deliveries -> Nat] /\ accepted' \subseteq Deliveries /\ Grows
        /\ tries'[d] = tries[d] + 1
    BY <1>0, <2>1, <2>2, <2>3 DEF TypeOK, Grows
  <2>5. /\ call'[w].pc = "write" /\ call'[w].delivery = d /\ call'[w].seen = call[w].seen
        /\ call'[w].ok = (took /\ heard) /\ call' \in [Workers -> Calls]
        /\ \A v \in Workers \ {w} : call'[v] = call[v]
    BY <1>0, <2>3 DEF Calls
  <2>6. TypeOK'
    BY <1>0, <2>2, <2>4, <2>5 DEF TypeOK
  <2>7. WorkerInv(w)'
    BY <2>1, <2>3, <2>4, <2>5 DEF WorkerInv, At
  <2> QED  BY <1>0, <1>q, <2>2, <2>4, <2>5, <2>6, <2>7, StableRow
<1>3. CASE UpdateDeliveryAttempt(w)
  <2> DEFINE d == call[w].delivery
             r == Settled(call[w].ok, call[w].seen + 1)
  <2>1. /\ d \in Deliveries /\ call[w].seen \in Nat /\ call[w].ok \in BOOLEAN
        /\ call[w].seen + 1 <= tries[d] /\ (call[w].ok => d \in accepted)
    BY <1>0, <1>3 DEF UpdateDeliveryAttempt, WorkerInv, At, Calls
  <2>2. /\ r \in Rows /\ r.attempts = call[w].seen + 1
        /\ r.status = "failed" => call[w].seen + 1 >= MaxAttempts
        /\ r.status = "succeeded" => call[w].ok
    BY <2>1, SettledTyped
  <2> HIDE DEF r
  <2>3. /\ row' = [row EXCEPT ![d] = r] /\ call' = [call EXCEPT ![w] = Idle]
        /\ UNCHANGED <<queue, tries, accepted, faults, retries>>
    BY <1>3 DEF UpdateDeliveryAttempt, Finish, r
  <2>4. TypeOK' /\ Grows
    BY <1>0, <2>1, <2>2, <2>3, IdleTyped DEF TypeOK, Grows
  <2>5. WorkerInv(w)' /\ \A v \in Workers \ {w} : call'[v] = call[v]
    BY <1>0, <2>3 DEF WorkerInv, At, Idle
  <2>6. ASSUME NEW e \in Deliveries PROVE RowInv(e)'
    <3>1. CASE e = d
      <4>1. row'[e] = r
        BY <1>0, <2>3, <3>1 DEF TypeOK
      <4> QED  BY <2>1, <2>2, <2>3, <3>1, <4>1 DEF RowInv
    <3>2. CASE e # d
      <4>1. row'[e] = row[e]
        BY <1>0, <2>3, <3>2 DEF TypeOK
      <4> QED  BY <1>0, <2>4, <4>1, StableRow
    <3> QED  BY <3>1, <3>2
  <2> QED  BY <1>q, <2>4, <2>5, <2>6
<1>4. CASE Crash(w)
  <2>1. /\ call' = [call EXCEPT ![w] = Idle] /\ faults < MaxFaults /\ faults' = faults + 1
        /\ UNCHANGED <<row, queue, tries, accepted, retries>>
    BY <1>4 DEF Crash, Finish
  <2>2. TypeOK' /\ Grows
    BY <1>0, <2>1, IdleTyped DEF TypeOK, Grows
  <2>3. WorkerInv(w)' /\ \A v \in Workers \ {w} : call'[v] = call[v]
    BY <1>0, <2>1 DEF WorkerInv, At, Idle
  <2> QED  BY <1>0, <1>q, <2>1, <2>2, <2>3, StableRow
<1> QED  BY <1>1, <1>2, <1>3, <1>4 DEF Step

LEMMA NextIInv == IInv /\ [Next]_vars => IInv'
<1> SUFFICES ASSUME IInv, [Next]_vars PROVE IInv'
  OBVIOUS
<1>1. CASE UNCHANGED vars
  <2>1. TypeOK' /\ Grows /\ UNCHANGED <<row, call>>
    BY <1>1 DEF IInv, TypeOK, vars, Grows
  <2> QED  BY <2>1, StableRow, StableWorker DEF IInv
<1> QED  BY <1>1, RowSteps, WorkerSteps DEF Next

LEMMA Invariant == Spec => []IInv
BY InitIInv, NextIInv, PTL DEF Spec

\* Type correctness; in particular every pending delivery has attempts left and a
\* next attempt, so no failed attempt is forgotten by the scanner.
THEOREM TypeCorrect == Spec => []TypeOK
<1>1. IInv => TypeOK
  BY DEF IInv
<1> QED  BY Invariant, <1>1, PTL

\* A delivery is marked succeeded only if the merchant accepted it.
THEOREM SucceededAccepted == Spec => []SucceededIsAccepted
<1>1. IInv => SucceededIsAccepted
  BY DEF IInv, RowInv, SucceededIsAccepted
<1> QED  BY Invariant, <1>1, PTL

\* A delivery is given up only after MaxAttempts posts, with any number of workers
\* that overwrite each other and any number of retries.
THEOREM FailedTried == Spec => []FailedWasTried
<1>1. ASSUME IInv, NEW d \in Deliveries, row[d].status = "failed"
      PROVE  tries[d] >= MaxAttempts
  <2>1. row[d].attempts \in Nat /\ tries[d] \in Nat
    BY <1>1, RowsTyped DEF IInv, TypeOK
  <2> QED  BY <1>1, <2>1, WebhookAssumption DEF IInv, RowInv
<1>2. IInv => FailedWasTried
  BY <1>1 DEF FailedWasTried
<1> QED  BY Invariant, <1>2, PTL

\* What a step that is not a retry of the administrator does to a delivery that is
\* over: nothing.
Kept == retries' = retries =>
          \A d \in Deliveries : Over(d) => Over(d)' /\ tries'[d] = tries[d]

LEMMA KeptOver ==
  ASSUME IInv, [Next]_vars
  PROVE  Kept
<1> USE DEF merchant, budget
<1>0. /\ row \in [Deliveries -> Rows] /\ call \in [Workers -> Calls]
      /\ tries \in [Deliveries -> Nat]
  BY DEF IInv, TypeOK
<1> SUFFICES ASSUME retries' = retries, NEW e \in Deliveries, Over(e)
             PROVE  Over(e)' /\ tries'[e] = tries[e]
  BY DEF Kept
<1>1. CASE UNCHANGED vars
  BY <1>1 DEF vars, Over
<1>2. ASSUME NEW d \in Deliveries,
             CreateDelivery(d) \/ TimePasses(d) \/ ScanDueDeliveries(d) \/ LoseMessage(d)
      PROVE  Over(e)' /\ tries'[e] = tries[e]
  <2>1. UNCHANGED <<call, tries>>
    BY <1>2 DEF CreateDelivery, TimePasses, ScanDueDeliveries, LoseMessage
  <2>2. row'[e].status = "succeeded"
    <3>1. CASE CreateDelivery(d)
      BY <1>0, <3>1 DEF CreateDelivery, Exists, Over
    <3>2. CASE TimePasses(d)
      BY <1>0, <3>2 DEF TimePasses, Rows, NoRow, Over
    <3>3. CASE ScanDueDeliveries(d) \/ LoseMessage(d)
      BY <3>3 DEF ScanDueDeliveries, LoseMessage, Over
    <3> QED  BY <1>2, <3>1, <3>2, <3>3
  <2> QED  BY <2>1, <2>2 DEF Over
<1>3. ASSUME NEW d \in Deliveries, RetryDelivery(d) PROVE FALSE
  BY <1>3 DEF RetryDelivery, IInv, TypeOK
<1>4. ASSUME NEW w \in Workers, NEW d \in Deliveries, Deliver(w, d)
      PROVE  Over(e)' /\ tries'[e] = tries[e]
  <2>1. UNCHANGED <<row, tries>>
    BY <1>4 DEF Deliver
  <2>2. \/ call' = call
        \/ /\ row[d].status # "succeeded" /\ call'[w].delivery = d
           /\ \A v \in Workers \ {w} : call'[v] = call[v]
    BY <1>0, <1>4 DEF Deliver
  <2> QED  BY <2>1, <2>2 DEF Over
<1>5. ASSUME NEW w \in Workers, Post(w) PROVE Over(e)' /\ tries'[e] = tries[e]
  <2> DEFINE d == call[w].delivery
  <2>1. d # e
    BY DEF Over
  <2>2. UNCHANGED row /\ tries' = [tries EXCEPT ![d] = @ + 1]
    BY <1>5 DEF Post
  <2>3. /\ call'[w].delivery = d
        /\ \A v \in Workers \ {w} : call'[v] = call[v]
    BY <1>0, <1>5 DEF Post, Calls
  <2> QED  BY <1>0, <2>1, <2>2, <2>3 DEF Over
<1>6. ASSUME NEW w \in Workers, UpdateDeliveryAttempt(w)
      PROVE  Over(e)' /\ tries'[e] = tries[e]
  <2>1. call[w].delivery # e
    BY DEF Over
  <2>2. /\ row'[e] = row[e] /\ UNCHANGED tries
        /\ \A v \in Workers : call'[v] = call[v] \/ call'[v] = Idle
    BY <1>0, <1>6, <2>1 DEF UpdateDeliveryAttempt, Finish
  <2> QED  BY <2>2, WebhookAssumption DEF Over, Idle
<1>7. ASSUME NEW w \in Workers, Crash(w) PROVE Over(e)' /\ tries'[e] = tries[e]
  BY <1>0, <1>7, WebhookAssumption DEF Crash, Finish, Over, Idle
<1> QED  BY <1>1, <1>2, <1>3, <1>4, <1>5, <1>6, <1>7 DEF Next, Step

\* A delivery that succeeded and that no worker has in hand stays so and is never
\* posted again unless the administrator asks, whatever messages are left in the
\* stream and however many workers read them.
THEOREM SucceededOver == Spec => SucceededIsOver
<1>1. IInv /\ [Next]_vars => [Kept]_vars
  BY KeptOver
<1>2. SucceededIsOver <=> [][Kept]_vars
  BY DEF SucceededIsOver, Kept
<1> QED  BY Invariant, <1>1, <1>2, PTL DEF Spec

-----------------------------------------------------------------------------
(* What holds in place of AtMostMaxAttempts. *)

\* One goroutine of the server delivers (Worker.Run).
SingleWorker == \A v, w \in Workers : v = w
Calm         == faults = 0 /\ retries = 0

InHand(d, p) == \E w \in Workers : call[w].delivery = d /\ At(w, p)

\* The row counts every post but the one about to be written, and after the last
\* attempt each post takes one of the messages that are left.
Counts(d) ==
  /\ row[d].status = "none" => queue[d] = 0
  /\ ~InHand(d, "write") => row[d].attempts = tries[d]
  /\ row[d].status # "pending" => tries[d] + queue[d] <= MaxAttempts + MaxQueue
  /\ row[d].status = "failed" /\ InHand(d, "post") =>
       tries[d] + 1 + queue[d] <= MaxAttempts + MaxQueue

\* What the worker read is still in the row.
ReadsTrue(w) ==
  ~At(w, "idle") =>
    LET d == call[w].delivery
    IN  /\ row[d].status \in {"pending", "failed"} /\ call[w].seen = row[d].attempts
        /\ At(w, "write") => tries[d] = row[d].attempts + 1

AllCounted == (\A d \in Deliveries : Counts(d)) /\ (\A w \in Workers : ReadsTrue(w))
Accounted  == Calm => AllCounted

\* Without faults and retries a delivery is posted MaxAttempts times, and once more
\* for each message of it that the stream can hold.
TriedForMessagesOnly ==
  Calm => \A d \in Deliveries : tries[d] <= MaxAttempts + MaxQueue

LEMMA CountsTyped ==
  ASSUME TypeOK, NEW d \in Deliveries
  PROVE  /\ row[d] \in Rows /\ row[d].attempts \in Nat /\ tries[d] \in Nat /\ queue[d] \in 0..MaxQueue
         /\ row[d].status = "pending" => row[d].attempts < MaxAttempts
         /\ row[d].status = "none" => row[d].attempts = 0
<1>1. row[d] \in Rows /\ tries[d] \in Nat /\ queue[d] \in 0..MaxQueue
  BY DEF TypeOK
<1>2. row[d].status = "none" => row[d].attempts = 0
  BY <1>1 DEF Rows, NoRow
<1> QED  BY <1>1, <1>2, RowsTyped

\* The steps that leave the worker alone.
LEMMA RowStepsCounted ==
  ASSUME IInv, AllCounted, NEW d \in Deliveries,
         CreateDelivery(d) \/ TimePasses(d) \/ ScanDueDeliveries(d)
  PROVE  AllCounted'
<1> USE DEF merchant, budget
<1>0. /\ row \in [Deliveries -> Rows] /\ queue \in [Deliveries -> 0..MaxQueue]
      /\ \A e \in Deliveries : /\ row[e].attempts \in Nat /\ tries[e] \in Nat /\ Counts(e)
                               /\ row[e].status = "none" => row[e].attempts = 0
      /\ \A w \in Workers : ReadsTrue(w) /\ WorkerInv(w)
  BY CountsTyped DEF IInv, TypeOK, AllCounted
<1>1. /\ UNCHANGED <<call, tries>>
      /\ \A e \in Deliveries \ {d} : row'[e] = row[e] /\ queue'[e] = queue[e]
  BY <1>0 DEF CreateDelivery, TimePasses, ScanDueDeliveries, Enqueue
<1>2. \A e \in Deliveries, p \in {"post", "write"} : InHand(e, p)' = InHand(e, p)
  BY <1>1 DEF InHand, At
<1>3. \/ row'[d] = Fresh /\ row[d].status = "none"
      \/ row'[d].status = row[d].status /\ row'[d].attempts = row[d].attempts
         /\ (queue'[d] = queue[d] \/ row[d].status = "pending")
  <2>1. CASE CreateDelivery(d)
    BY <1>0, <2>1 DEF CreateDelivery, Exists
  <2>2. CASE TimePasses(d)
    BY <1>0, <2>2 DEF TimePasses, Rows, NoRow
  <2>3. CASE ScanDueDeliveries(d)
    BY <1>0, <2>3 DEF ScanDueDeliveries
  <2> QED  BY <2>1, <2>2, <2>3
<1>4. row[d].status = "none" => tries[d] = 0 /\ \A w \in Workers : call[w].delivery # d \/ At(w, "idle")
  <2> SUFFICES ASSUME row[d].status = "none"
               PROVE  tries[d] = 0 /\ \A w \in Workers : call[w].delivery # d \/ At(w, "idle")
    OBVIOUS
  <2>1. \A w \in Workers : call[w].delivery # d \/ At(w, "idle")
    BY <1>0 DEF ReadsTrue
  <2>2. ~InHand(d, "write")
    BY <2>1 DEF InHand, At
  <2> QED  BY <1>0, <2>1, <2>2 DEF Counts
<1>5. ASSUME NEW e \in Deliveries PROVE Counts(e)'
  <2>1. CASE e # d
    BY <1>0, <1>1, <1>2, <2>1 DEF Counts
  <2>2. CASE e = d
    BY <1>0, <1>1, <1>2, <1>3, <1>4, <2>2 DEF Counts, Fresh
  <2> QED  BY <2>1, <2>2
<1>6. ASSUME NEW w \in Workers PROVE ReadsTrue(w)'
  <2>1. At(w, "idle")' = At(w, "idle") /\ At(w, "write")' = At(w, "write")
    BY <1>1 DEF At
  <2>2. CASE At(w, "idle")
    BY <2>1, <2>2 DEF ReadsTrue
  <2>3. CASE ~At(w, "idle")
    <3>1. call[w].delivery \in Deliveries
      BY <1>0, <2>3 DEF WorkerInv
    <3> QED  BY <1>0, <1>1, <1>3, <1>4, <2>1, <2>3, <3>1 DEF ReadsTrue
  <2> QED  BY <2>2, <2>3
<1> QED  BY <1>5, <1>6 DEF AllCounted

\* The steps of the worker.
LEMMA WorkerStepsCounted ==
  ASSUME SingleWorker, IInv, AllCounted, NEW w \in Workers,
         (\E d \in Deliveries : Deliver(w, d)) \/ Step(w)
  PROVE  AllCounted'
<1> USE DEF merchant, budget
<1>0. /\ row \in [Deliveries -> Rows] /\ queue \in [Deliveries -> 0..MaxQueue]
      /\ tries \in [Deliveries -> Nat] /\ call \in [Workers -> Calls]
      /\ \A e \in Deliveries : /\ row[e].attempts \in Nat /\ tries[e] \in Nat
                               /\ queue[e] \in 0..MaxQueue /\ Counts(e)
                               /\ row[e].status = "pending" => row[e].attempts < MaxAttempts
      /\ ReadsTrue(w) /\ WorkerInv(w) /\ MaxAttempts \in Nat /\ MaxQueue \in Nat
  BY CountsTyped, WebhookAssumption DEF IInv, TypeOK, AllCounted
<1>1. /\ \A e, p : InHand(e, p) <=> call[w].delivery = e /\ At(w, p)
      /\ \A e, p : InHand(e, p)' <=> call'[w].delivery = e /\ call'[w].pc = p
  BY DEF SingleWorker, InHand, At
<1>2. (\A e \in Deliveries : Counts(e)') /\ ReadsTrue(w)' => AllCounted'
  BY DEF SingleWorker, AllCounted
<1>3. ASSUME NEW d \in Deliveries, Deliver(w, d) PROVE AllCounted'
  <2>1. /\ UNCHANGED <<row, tries>> /\ call[w].pc = "idle" /\ queue[d] > 0
        /\ queue' = [queue EXCEPT ![d] = @ - 1]
    BY <1>3 DEF Deliver, At
  <2>2. \/ row[d].status = "succeeded" /\ call'[w].pc = "idle"
        \/ row[d].status # "succeeded" /\ call'[w] = [pc |-> "post", delivery |-> d,
                                                      seen |-> row[d].attempts, ok |-> FALSE]
    BY <1>0, <1>3, <2>1 DEF Deliver
  <2>3. row[d].status # "none" /\ row[d].status \in {"pending", "succeeded", "failed"}
    BY <1>0, <2>1 DEF Counts, Rows, NoRow
  <2>4. ASSUME NEW e \in Deliveries PROVE Counts(e)'
    <3>1. /\ e = d  => queue'[e] = queue[e] - 1
          /\ e # d => queue'[e] = queue[e]
      BY <1>0, <2>1
    <3>2. ~InHand(e, "write") /\ ~InHand(e, "write")' /\ (InHand(e, "post")' => e = d)
      BY <1>1, <2>1, <2>2 DEF At
    <3> QED  BY <1>0, <2>1, <2>3, <3>1, <3>2 DEF Counts
  <2>5. ReadsTrue(w)'
    BY <2>1, <2>2, <2>3 DEF ReadsTrue, At
  <2> QED  BY <1>2, <2>4, <2>5
<1>4. CASE Post(w)
  <2> DEFINE d == call[w].delivery
  <2>1. d \in Deliveries /\ row[d].status \in {"pending", "failed"} /\ call[w].pc = "post"
        /\ call[w].seen = row[d].attempts
    BY <1>0, <1>4 DEF Post, WorkerInv, ReadsTrue, At
  <2>2. UNCHANGED <<row, queue>> /\ tries' = [tries EXCEPT ![d] = @ + 1]
    BY <1>4 DEF Post
  <2>3. call'[w].pc = "write" /\ call'[w].delivery = d /\ call'[w].seen = call[w].seen
    BY <1>0, <1>4 DEF Post, Calls
  <2>4. tries[d] = row[d].attempts /\ tries'[d] = tries[d] + 1
    BY <1>0, <1>1, <2>1, <2>2 DEF Counts, At
  <2>5. ASSUME NEW e \in Deliveries PROVE Counts(e)'
    <3>1. CASE e = d
      BY <1>0, <1>1, <2>1, <2>2, <2>3, <2>4, <3>1 DEF Counts, At
    <3>2. CASE e # d
      <4>1. tries'[e] = tries[e] /\ ~InHand(e, "write") /\ ~InHand(e, "post")'
        BY <1>0, <1>1, <2>2, <2>3, <3>2
      <4> QED  BY <1>0, <2>2, <4>1 DEF Counts
    <3> QED  BY <3>1, <3>2
  <2>6. ReadsTrue(w)'
    BY <2>1, <2>2, <2>3, <2>4 DEF ReadsTrue, At
  <2> QED  BY <1>2, <2>5, <2>6
<1>5. CASE UpdateDeliveryAttempt(w)
  <2> DEFINE d == call[w].delivery
             r == Settled(call[w].ok, call[w].seen + 1)
  <2>1. /\ d \in Deliveries /\ row[d].status \in {"pending", "failed"}
        /\ call[w].seen + 1 = tries[d] /\ call[w].seen = row[d].attempts
        /\ call[w].ok \in BOOLEAN /\ call[w].seen + 1 \in Nat
    BY <1>0, <1>5 DEF UpdateDeliveryAttempt, WorkerInv, ReadsTrue, At, Calls
  <2>2. r.attempts = tries[d] /\ r.status # "none"
    BY <2>1, SettledTyped DEF Settled
  <2> HIDE DEF r
  <2>3. row' = [row EXCEPT ![d] = r] /\ call'[w] = Idle /\ UNCHANGED <<queue, tries>>
    BY <1>0, <1>5 DEF UpdateDeliveryAttempt, Finish, r
  <2>4. tries[d] + queue[d] <= MaxAttempts + MaxQueue
    BY <1>0, <2>1 DEF Counts
  <2>5. ASSUME NEW e \in Deliveries PROVE Counts(e)'
    <3>1. ~InHand(e, "write")' /\ ~InHand(e, "post")'
      BY <1>1, <2>3 DEF Idle
    <3>2. CASE e = d
      BY <1>0, <2>2, <2>3, <2>4, <3>1, <3>2 DEF Counts
    <3>3. CASE e # d
      <4>1. row'[e] = row[e] /\ ~InHand(e, "write")
        BY <1>0, <1>1, <2>3, <3>3
      <4> QED  BY <1>0, <2>3, <3>1, <4>1 DEF Counts
    <3> QED  BY <3>2, <3>3
  <2>6. ReadsTrue(w)'
    BY <2>3 DEF ReadsTrue, At, Idle
  <2> QED  BY <1>2, <2>5, <2>6
<1> QED  BY <1>3, <1>4, <1>5 DEF Step

LEMMA NextAccounted ==
  ASSUME SingleWorker, IInv, Accounted, [Next]_vars
  PROVE  Accounted'
<1> USE DEF merchant, budget
<1> SUFFICES ASSUME Calm' PROVE AllCounted'
  BY DEF Accounted
<1>0. faults \in Nat /\ retries \in Nat
  BY WebhookAssumption DEF IInv, TypeOK
<1>1. ASSUME NEW d \in Deliveries, RetryDelivery(d) \/ LoseMessage(d) PROVE FALSE
  BY <1>0, <1>1 DEF RetryDelivery, LoseMessage, Calm
<1>2. ASSUME NEW w \in Workers, Crash(w) PROVE FALSE
  BY <1>0, <1>2 DEF Crash, Calm
<1>3. ASSUME NEW d \in Deliveries, CreateDelivery(d) \/ TimePasses(d) \/ ScanDueDeliveries(d)
      PROVE  AllCounted'
  <2>1. Calm
    BY <1>0, <1>3 DEF CreateDelivery, TimePasses, ScanDueDeliveries, Calm
  <2> QED  BY <1>3, <2>1, RowStepsCounted DEF Accounted
<1>4. ASSUME NEW w \in Workers, (\E d \in Deliveries : Deliver(w, d)) \/ Step(w) PROVE AllCounted'
  <2>1. Calm
    BY <1>4 DEF Deliver, Step, Post, UpdateDeliveryAttempt, Calm
  <2> QED  BY <1>4, <2>1, WorkerStepsCounted DEF Accounted
<1>5. CASE UNCHANGED vars
  BY <1>5 DEF vars, Calm, Accounted, AllCounted, Counts, ReadsTrue, InHand, At
<1> QED  BY <1>1, <1>2, <1>3, <1>4, <1>5 DEF Next

\* How far a delivery is tried beyond its attempts: the one worker takes the messages
\* the scanner repeated, each is one more post, and none is added once the delivery
\* is given up (DeliverWebhook, ScanDueDeliveries).
THEOREM TriesBounded == SingleWorker => (Spec => []TriedForMessagesOnly)
<1> SUFFICES ASSUME SingleWorker PROVE Spec => []TriedForMessagesOnly
  OBVIOUS
<1>1. Init => Accounted
  BY WebhookAssumption DEF Init, Accounted, AllCounted, Counts, ReadsTrue, NoRow, Idle, At, InHand
<1>2. IInv /\ Accounted /\ [Next]_vars => Accounted'
  BY NextAccounted
<1>3. IInv /\ Accounted => TriedForMessagesOnly
  <2> SUFFICES ASSUME IInv, AllCounted, NEW d \in Deliveries
               PROVE  tries[d] <= MaxAttempts + MaxQueue
    BY DEF Accounted, TriedForMessagesOnly
  <2>1. /\ row[d].attempts \in Nat /\ tries[d] \in Nat /\ queue[d] \in Nat
        /\ row[d].status = "pending" => row[d].attempts < MaxAttempts
        /\ Counts(d) /\ MaxAttempts \in Nat /\ MaxQueue \in Nat \ {0}
    BY CountsTyped, WebhookAssumption DEF IInv, AllCounted
  <2>2. InHand(d, "write") => tries[d] = row[d].attempts + 1
    BY DEF AllCounted, InHand, ReadsTrue, At
  <2> QED  BY <2>1, <2>2 DEF Counts
<1> QED  BY <1>1, <1>2, <1>3, Invariant, PTL DEF Spec

=============================================================================
