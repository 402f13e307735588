--------------------------- MODULE Reconciliation ----------------------------
(***************************************************************************)
(* The reconciliation of one order that is bound to a provider: the record *)
(* in payment_reconciliations, the scanner, the stream and the workers     *)
(* that ask the provider what became of the payment and decide the order.  *)
(*                                                                         *)
(* Everything else that happens to the order (notices, closes, a PayPal    *)
(* return) is a step of OrderLifecycle, which PaymentOrders implements.    *)
(***************************************************************************)
EXTENDS Integers, FiniteSets

CONSTANTS
  Workers,      \* workers reading the stream payment:reconciliations
  MaxAttempts,  \* 8 in the code
  MaxQueue,     \* bound: messages waiting
  MaxFaults,    \* bound: failed calls, crashes, lost messages, slow workers
  MaxRetries    \* bound: retries of the administrator

ASSUME ReconciliationAssumption ==
  /\ MaxAttempts \in Nat \ {0}
  /\ MaxQueue \in Nat /\ MaxFaults \in Nat /\ MaxRetries \in Nat

VARIABLES
  status, everFailed, announced,  \* the order, as in OrderLifecycle
  channel,   \* the channel it is bound to
  expired,   \* expires_at has passed
  scanned,   \* the expiration scanner saw the order before it was bound
  trade,     \* the payment at the provider
  recon,     \* the reconciliation record
  queue,     \* messages in the stream
  call,      \* per worker, the attempt it makes and how far it is
  faults, retries

order == <<status, everFailed, announced>>
world == <<channel, expired, scanned, trade>>
budget == <<faults, retries>>
vars == <<order, world, recon, queue, call, budget>>

Order == INSTANCE OrderLifecycle

-----------------------------------------------------------------------------
Channels == {"alipay", "wechat", "paypal"}
\* unstarted: the Alipay page was opened, the trade does not exist at Alipay yet.
Trades   == {"unstarted", "open", "failed", "paid", "closed"}
Records  == [status : {"none", "pending", "processing", "resolved", "manual_required"},
             attempts : 0..MaxAttempts, next : {"none", "later", "due"}, active : BOOLEAN]
NoRecord == [status |-> "none", attempts |-> 0, next |-> "none", active |-> FALSE]

Calls == [pc : {"idle", "order", "query", "apply", "record", "close", "expire",
                "resolve", "reschedule"},
          attempts : 0..MaxAttempts, late : BOOLEAN, result : Trades]
Idle  == [pc |-> "idle", attempts |-> 0, late |-> FALSE, result |-> "open"]

At(w, p)      == call[w].pc = p
Goto(w, p)    == call' = [call EXCEPT ![w].pc = p]
Finish(w)     == call' = [call EXCEPT ![w] = Idle]
Enqueue       == queue' = IF queue < MaxQueue THEN queue + 1 ELSE queue
NotOrder      == UNCHANGED <<recon, queue, budget>>

Init ==
  /\ Order!Init
  /\ channel \in Channels
  /\ expired \in BOOLEAN /\ scanned \in BOOLEAN /\ (scanned => expired)
  /\ trade = IF channel = "alipay" THEN "unstarted" ELSE "open"
  /\ recon = NoRecord /\ queue = 0
  /\ call = [w \in Workers |-> Idle]
  /\ faults = 0 /\ retries = 0

-----------------------------------------------------------------------------
(* The payer, the provider, the clock and the other requests for the order. *)

\* The payer pays, fails to, or scans the Alipay page; a failed attempt may be
\* repeated.  PayPal takes the money only when the gateway captures it.
PayerActs ==
  /\ \/ trade = "unstarted" /\ trade' = "open"
     \/ trade \in {"open", "failed"} /\ channel # "paypal" /\ trade' = "paid"
     \/ trade = "open" /\ trade' = "failed"
  /\ UNCHANGED <<order, channel, expired, scanned, recon, queue, call, budget>>

\* CompletePaypalPayment captures first; the result is applied by OtherRequests.
CapturePaypal ==
  /\ channel = "paypal" /\ trade \in {"open", "failed"}
  /\ trade' = "paid"
  /\ UNCHANGED <<order, channel, expired, scanned, recon, queue, call, budget>>

DeadlinePasses ==
  /\ ~expired /\ expired' = TRUE
  /\ UNCHANGED <<order, channel, scanned, trade, recon, queue, call, budget>>

\* Notices of what the provider decided, closes by merchant or administrator, and the
\* expiration worker, when its message was written before a slow start bound the order.
OtherRequests ==
  /\ \/ trade = "paid"   /\ Order!Pay
     \/ trade = "failed" /\ Order!FailPayment
     \/ trade = "closed" /\ Order!CloseQuietly
     \/ Order!Close
     \/ scanned /\ Order!Expire
     \/ Order!AnnouncePaid
     \/ Order!AnnounceFailed
  /\ UNCHANGED <<world, call>> /\ NotOrder

-----------------------------------------------------------------------------
(* Records and messages. *)

\* Mutant: the scanner leaves out orders whose deadline has passed.
EnsureForOrderInTime ==
  /\ recon.status = "none" /\ status = "pending" /\ ~expired
  /\ recon' = [NoRecord EXCEPT !.status = "pending", !.next = "later"]
  /\ UNCHANGED <<order, world, queue, call, budget>>

\* EnsureForOrder, after the payment was started or in a round of the scanner.
EnsureForOrder ==
  /\ recon.status = "none" /\ status = "pending"
  /\ recon' = [NoRecord EXCEPT !.status = "pending", !.next = "later"]
  /\ UNCHANGED <<order, world, queue, call, budget>>

\* RequestForOrder: the checkout page asks once for a query at once.
RequestActiveQuery ==
  /\ status = "pending" /\ recon.status = "pending" /\ ~recon.active
  /\ recon' = [recon EXCEPT !.active = TRUE, !.next = "due"]
  /\ Enqueue
  /\ UNCHANGED <<order, world, call, budget>>

\* The message is not written: the request is released, unless the process died.
RequestFails ==
  /\ status = "pending" /\ recon.status = "pending" /\ ~recon.active
  /\ faults < MaxFaults /\ faults' = faults + 1
  /\ \E active \in BOOLEAN : recon' = [recon EXCEPT !.active = active, !.next = "due"]
  /\ UNCHANGED <<order, world, queue, call, retries>>

TimePasses ==
  /\ recon.next = "later" /\ recon' = [recon EXCEPT !.next = "due"]
  /\ UNCHANGED <<order, world, queue, call, budget>>

ScanDue ==
  /\ recon.status = "pending" /\ recon.next = "due"
  /\ queue < MaxQueue /\ queue' = queue + 1
  /\ UNCHANGED <<order, world, recon, call, budget>>

\* Mutant: the schedule of an abandoned record is lost.
RecoverStaleUnscheduled ==
  /\ recon.status = "processing"
  /\ IF \E w \in Workers : ~At(w, "idle")
       THEN faults < MaxFaults /\ faults' = faults + 1
       ELSE UNCHANGED faults
  /\ recon' = [recon EXCEPT !.status = "pending", !.next = "none"]
  /\ UNCHANGED <<order, world, queue, call, retries>>

\* A record processed for five minutes is taken for abandoned.  A worker that is
\* merely slow goes on (one of the faults).
RecoverStale ==
  /\ recon.status = "processing"
  /\ IF \E w \in Workers : ~At(w, "idle")
       THEN faults < MaxFaults /\ faults' = faults + 1
       ELSE UNCHANGED faults
  /\ recon' = [recon EXCEPT !.status = "pending", !.next = "due"]
  /\ UNCHANGED <<order, world, queue, call, retries>>

\* Retry of the administrator: ResetForRetry in any status, then the message.
Retry ==
  /\ recon.status # "none"
  /\ retries < MaxRetries /\ retries' = retries + 1
  /\ recon' = [recon EXCEPT !.status = "pending", !.attempts = 0, !.next = "due"]
  /\ Enqueue
  /\ UNCHANGED <<order, world, call, faults>>

-----------------------------------------------------------------------------
(* Process: one attempt of a worker. *)

\* Mutant: a record that is being processed is claimed again.
ClaimAny(w) ==
  /\ At(w, "idle") /\ queue > 0 /\ queue' = queue - 1
  /\ IF recon.status \in {"pending", "processing"}
       THEN /\ recon' = [recon EXCEPT !.status = "processing"]
            /\ call' = [call EXCEPT ![w] = [pc |-> "order", attempts |-> recon.attempts,
                                            late |-> expired, result |-> "open"]]
       ELSE UNCHANGED <<recon, call>>
  /\ UNCHANGED <<order, world, budget>>

\* Claim: UPDATE ... WHERE status = pending; a message that finds no such record
\* is done.  The time of the claim decides whether the order counts as expired.
Claim(w) ==
  /\ At(w, "idle") /\ queue > 0 /\ queue' = queue - 1
  /\ IF recon.status = "pending"
       THEN /\ recon' = [recon EXCEPT !.status = "processing"]
            /\ call' = [call EXCEPT ![w] = [pc |-> "order", attempts |-> recon.attempts,
                                            late |-> expired, result |-> "open"]]
       ELSE UNCHANGED <<recon, call>>
  /\ UNCHANGED <<order, world, budget>>

\* An order that is decided is not asked about.
FindOrder(w) ==
  /\ At(w, "order")
  /\ Goto(w, IF status # "pending" THEN "resolve" ELSE "query")
  /\ UNCHANGED <<order, world>> /\ NotOrder

\* QueryPayment.  A trade that is not decided is closed when the order is late.
Query(w) ==
  /\ At(w, "query")
  /\ call' = [call EXCEPT ![w].result = trade,
                          ![w].pc = IF trade \in {"paid", "failed", "closed"} THEN "apply"
                                    ELSE IF call[w].late THEN "close" ELSE "reschedule"]
  /\ UNCHANGED <<order, world>> /\ NotOrder

\* A call to the provider or the database fails: the attempt is recorded as failed.
AttemptFails(w) ==
  /\ call[w].pc \in {"order", "query", "apply", "record", "close", "expire"}
  /\ faults < MaxFaults /\ faults' = faults + 1
  /\ Goto(w, "reschedule")
  /\ UNCHANGED <<order, world, recon, queue, retries>>

\* ApplyPaymentResult of what the provider said then, on the order as it is now.
Apply(w) ==
  /\ At(w, "apply")
  /\ LET result == call[w].result
     IN  \/ /\ result = "paid" /\ Order!Pay /\ Goto(w, "record")
         \/ /\ result = "failed" /\ Order!FailPayment /\ Goto(w, "record")
         \/ /\ result = "closed" /\ Order!CloseQuietly /\ Goto(w, "resolve")
         \/ /\ status = result /\ UNCHANGED order
            /\ Goto(w, IF result = "closed" THEN "resolve" ELSE "record")
         \/ /\ \/ result = "paid" /\ status = "closed"
               \/ result \in {"failed", "closed"} /\ status = "paid"
               \/ result = "failed" /\ status = "closed"
            /\ UNCHANGED order /\ Goto(w, "reschedule")
  /\ UNCHANGED world /\ NotOrder

\* RecordPaymentSucceeded or RecordPaymentFailed.
Record(w) ==
  /\ At(w, "record")
  /\ announced' = announced \cup
       {IF call[w].result = "paid" THEN "payment.succeeded" ELSE "payment.failed"}
  /\ Goto(w, "resolve")
  /\ UNCHANGED <<status, everFailed, world>> /\ NotOrder

\* Mutant: a provider that refuses to close is not asked why.
CloseTradeRegardless(w) ==
  /\ At(w, "close")
  /\ trade' = IF channel # "paypal" /\ trade \in {"open", "failed"} THEN "closed" ELSE trade
  /\ Goto(w, "expire")
  /\ UNCHANGED <<order, channel, expired, scanned>> /\ NotOrder

\* Mutant: the order is left to the notice of the closed trade.
CloseTradeResolves(w) ==
  /\ At(w, "close")
  /\ trade' = IF channel # "paypal" /\ trade \in {"open", "failed"} THEN "closed" ELSE trade
  /\ Goto(w, "resolve")
  /\ UNCHANGED <<order, channel, expired, scanned>> /\ NotOrder

\* ClosePayment: PayPal cannot, which is tolerated; a paid trade refuses; a trade
\* that does not exist at Alipay counts as closed; a closed one may refuse.
CloseTrade(w) ==
  /\ At(w, "close")
  /\ \/ /\ channel = "paypal" \/ trade \in {"unstarted", "closed"}
        /\ UNCHANGED trade /\ Goto(w, "expire")
     \/ /\ channel # "paypal" /\ trade \in {"open", "failed"}
        /\ trade' = "closed" /\ Goto(w, "expire")
     \/ /\ channel # "paypal" /\ trade \in {"paid", "closed"}
        /\ UNCHANGED trade /\ Goto(w, "reschedule")
  /\ UNCHANGED <<order, channel, expired, scanned>> /\ NotOrder

\* CloseExpiredPendingOrder: status, event and delivery in one transaction.
Expire(w) ==
  /\ At(w, "expire")
  /\ IF status = "pending" THEN Order!Expire /\ Goto(w, "resolve")
                           ELSE UNCHANGED order /\ Goto(w, "reschedule")
  /\ UNCHANGED world /\ NotOrder

\* CompleteAttempt writes whatever the record holds by then.
Resolve(w) ==
  /\ At(w, "resolve")
  /\ recon' = [recon EXCEPT !.status = "resolved", !.attempts = call[w].attempts + 1, !.next = "none"]
  /\ Finish(w)
  /\ UNCHANGED <<order, world, queue, budget>>

\* Mutant: one attempt too many.
RescheduleOnceMore(w) ==
  /\ At(w, "reschedule")
  /\ LET last == call[w].attempts + 1 > MaxAttempts
     IN  recon' = [recon EXCEPT !.status = IF last THEN "manual_required" ELSE "pending",
                                !.attempts = call[w].attempts + 1,
                                !.next = IF last THEN "none" ELSE "later"]
  /\ Finish(w)
  /\ UNCHANGED <<order, world, queue, budget>>

Reschedule(w) ==
  /\ At(w, "reschedule")
  /\ LET last == call[w].attempts + 1 >= MaxAttempts
     IN  recon' = [recon EXCEPT !.status = IF last THEN "manual_required" ELSE "pending",
                                !.attempts = call[w].attempts + 1,
                                !.next = IF last THEN "none" ELSE "later"]
  /\ Finish(w)
  /\ UNCHANGED <<order, world, queue, budget>>

-----------------------------------------------------------------------------
(* Failures. *)

\* The process dies, or the attempt cannot be written.
Crash(w) ==
  /\ ~At(w, "idle")
  /\ faults < MaxFaults /\ faults' = faults + 1
  /\ Finish(w)
  /\ UNCHANGED <<order, world, recon, queue, retries>>

LoseMessage ==
  /\ queue > 0 /\ queue' = queue - 1
  /\ faults < MaxFaults /\ faults' = faults + 1
  /\ UNCHANGED <<order, world, recon, call, retries>>

-----------------------------------------------------------------------------
Step(w) == \/ FindOrder(w) \/ Query(w) \/ AttemptFails(w) \/ Apply(w) \/ Record(w)
           \/ CloseTrade(w) \/ Expire(w) \/ Resolve(w) \/ Reschedule(w)

Next ==
  \/ PayerActs \/ CapturePaypal \/ DeadlinePasses \/ OtherRequests
  \/ EnsureForOrder \/ RequestActiveQuery \/ RequestFails \/ TimePasses \/ ScanDue
  \/ RecoverStale \/ Retry \/ LoseMessage
  \/ \E w \in Workers : Claim(w) \/ Step(w) \/ Crash(w)

Spec == Init /\ [][Next]_vars

\* The clock, the scanner and the workers do not stop.  Payers, providers and
\* other requests owe nothing.
Fairness ==
  /\ WF_vars(EnsureForOrder) /\ WF_vars(TimePasses) /\ WF_vars(ScanDue)
  /\ WF_vars(RecoverStale) /\ WF_vars(DeadlinePasses)
  /\ WF_vars(\E w \in Workers : Claim(w))
  /\ \A w \in Workers : WF_vars(Step(w))

FairSpec == Spec /\ Fairness

-----------------------------------------------------------------------------
(* Properties. *)

\* Every variable holds what its column, stream or worker may hold.
TypeOK ==
  /\ Order!TypeOK
  /\ channel \in Channels /\ expired \in BOOLEAN /\ scanned \in BOOLEAN /\ trade \in Trades
  /\ recon \in Records /\ queue \in 0..MaxQueue
  /\ call \in [Workers -> Calls]
  /\ faults \in 0..MaxFaults /\ retries \in 0..MaxRetries

\* A resolved record stands for an order that is decided: reconciliation never
\* loses interest in a pending order, even when slow workers, recovered records
\* and retries overlap.
ResolvedIsDecided == recon.status = "resolved" => status # "pending"

\* Reconciliation decides as the provider did, however stale its answer is: an
\* order it pays was paid at the provider, one it expires on WeChat (where a trade
\* can be closed for good) can no longer be paid, unless the expiration worker was
\* there first.
DecidedLikeProvider ==
  /\ status = "paid" => trade = "paid"
  /\ channel = "wechat" /\ ~scanned /\ "order.expired" \in announced => trade = "closed"

\* One worker at a time asks about an order, unless a slow one was given up or the
\* administrator interfered: the claim is a conditional update.
ClaimIsExclusive ==
  faults = 0 /\ retries = 0 => Cardinality({w \in Workers : ~At(w, "idle")}) <= 1

\* Every record ends: resolved, or handed to the administrator after MaxAttempts
\* attempts, whatever crashed or got lost.
RecordEnds ==
  recon.status \in {"pending", "processing"} ~>
    recon.status \in {"resolved", "manual_required"}

\* A bound order does not stay pending after its deadline, unless its record was
\* handed to the administrator.
BoundOrderIsDecided ==
  expired /\ status = "pending" ~> status # "pending" \/ recon.status = "manual_required"

\* Documented: the capture of an order that expired is rejected.
ExpiredIsNotCaptured ==
  [][channel = "paypal" /\ trade # "paid" /\ trade' = "paid"
       => "order.expired" \notin announced]_vars

=============================================================================
