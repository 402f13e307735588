--------------------------- MODULE PaymentOrders ----------------------------
(***************************************************************************)
(* One payment order and everything that races on its database row: the    *)
(* checkout that starts a payment and binds it to a channel account, the   *)
(* provider results applied by ApplyPaymentResult (called for a notice of  *)
(* the provider, a PayPal return or a reconciliation query), the closes by *)
(* the administrator and the merchant, the edits of the administrator, and *)
(* the expiration scanner, stream and workers.                             *)
(*                                                                         *)
(* A request is served by a handler.  A handler reads the row, decides,    *)
(* and writes in database calls of their own, so one action is one         *)
(* database call (or one transaction) and handlers interleave between      *)
(* them.  Conditional updates (UPDATE ... WHERE status IN ...) are one     *)
(* action with the condition as its guard.                                 *)
(***************************************************************************)
EXTENDS Naturals, FiniteSets

CONSTANTS
  Handlers,          \* the requests the server serves at the same time
  Accounts,          \* the enabled channel accounts
  Channels,          \* alipay, wechat, paypal
  ChannelOf,         \* the channel each account belongs to
  None,              \* an empty column, or no request
  Presets,           \* the channels and pay methods an order is created with
  NotifyConfigured,  \* whether the app of the order has a notify_url
  MaxNotices,        \* bound: results a provider reports before some are acknowledged
  MaxQueue,          \* bound: messages waiting in the expiration stream
  MaxFaults,         \* bound: failed database calls, crashes, lost messages
  MaxEdits           \* bound: edits of the administrator

ASSUME ConstantsAssumption ==
  /\ ChannelOf \in [Accounts -> Channels]
  /\ None \notin Accounts
  /\ None \notin Channels
  /\ Presets \subseteq Channels \cup {None}
  /\ NotifyConfigured \in BOOLEAN
  /\ MaxNotices \in Nat /\ MaxQueue \in Nat /\ MaxFaults \in Nat /\ MaxEdits \in Nat

VARIABLES
  order,       \* the row of payment_orders
  deadline,    \* expires_at against the clock: none, future or passed
  events,      \* webhook_events of the order, unique by type
  deliveries,  \* the events that have their webhook_deliveries row
  trade,       \* per account, the payment the provider opened for the order
  notices,     \* results the provider reports until they are acknowledged
  call,        \* per handler, the request it serves and how far it is
  queue,       \* messages for the order in the stream order:expirations
  faults, edits

vars == <<order, deadline, events, deliveries, trade, notices, call, queue,
          faults, edits>>
world == <<trade, notices>>
store == <<order, events, deliveries>>
budget == <<faults, edits>>

-----------------------------------------------------------------------------
Statuses   == {"pending", "paid", "failed", "closed"}
EventTypes == {"payment.succeeded", "payment.failed", "order.closed", "order.expired"}
Deadlines  == {"none", "future", "passed"}
\* mispaid: paid, but the amount or the currency is not the order's.
Results    == {"pending", "failed", "paid", "mispaid", "closed"}
Trades     == {"none", "open", "failed", "paid", "mispaid", "closed"}
Notices    == [account : Accounts, status : Results]
Starts     == [account : Accounts, status : {"start"}]
Pcs        == {"idle", "apply", "select", "markPaid", "casPaid", "markFailed",
               "casFailed", "close", "record", "deliver", "insert", "reply",
               "provider", "bind", "bindNo"}

Orders == [status : Statuses,
           channel : Channels \cup {None}, method : Channels \cup {None},
           account : Accounts \cup {None}, providerNo : Accounts \cup {None},
           trade : Accounts \cup {None}, failedAt : BOOLEAN]

Calls == [pc : Pcs, req : Notices \cup Starts \cup {None}, seen : Orders \cup {None}]
Idle  == [pc |-> "idle", req |-> None, seen |-> None]

\* No channel, no pay method or no account: a result or a start may still bind.
Unbound(o) == o.channel = None \/ o.method = None \/ o.account = None

\* The expiration scanner leaves orders with a provider binding to reconciliation.
ProviderBound(o) == o.account # None /\ o.providerNo # None

\* Mutant: the columns swapped.
SelectSwapped(o, a, m) == [o EXCEPT !.channel = a, !.method = ChannelOf[a], !.account = m]

\* SetPaymentSelection writes its three columns whatever the row holds by then.
Select(o, a, m) == [o EXCEPT !.channel = ChannelOf[a], !.method = m, !.account = a]

\* Mutant: amount and currency are not compared.
AcceptsAnyAmount(o, n) == /\ o.channel # None => o.channel = ChannelOf[n.account]
                          /\ o.account # None => o.account = n.account

\* The checks of ApplyPaymentResult against the row as it was read.
Accepts(o, n) == /\ o.channel # None => o.channel = ChannelOf[n.account]
                 /\ o.account # None => o.account = n.account
                 /\ n.status # "mispaid"

\* A payment may be started at account a: the locks of the checkout page.
MayStart(o, a) ==
  LET locked == IF o.channel # None THEN o.channel ELSE o.method
  IN  /\ o.status = "pending"
      /\ deadline # "passed"
      /\ locked # None => ChannelOf[a] = locked
      /\ o.account # None => o.account = a

MethodFor(o, a) == IF o.method # None THEN o.method ELSE ChannelOf[a]

EventOf(n) == IF n.status = "failed" THEN "payment.failed" ELSE "payment.succeeded"

\* Where ApplyPaymentResult continues once the row o is bound.
Dispatch(o, n) ==
  CASE n.status \in {"paid", "mispaid"} -> "markPaid"
    [] n.status = "failed"  -> "markFailed"
    [] n.status = "closed"  -> IF o.status = "closed" THEN "reply" ELSE "close"
    [] n.status = "pending" -> "reply"

At(h, p)      == call[h].pc = p
Goto(h, p)    == call' = [call EXCEPT ![h].pc = p, ![h].seen = None]
Finish(h)     == call' = [call EXCEPT ![h] = Idle]
Req(h)        == call[h].req

-----------------------------------------------------------------------------
\* A merchant or an administrator created the order, with or without a channel.
Init ==
  /\ \E c, m \in Presets :
       order = [status |-> "pending", channel |-> c, method |-> m, account |-> None,
                providerNo |-> None, trade |-> None, failedAt |-> FALSE]
  /\ deadline \in {"none", "future"}
  /\ events = {} /\ deliveries = {}
  /\ trade = [a \in Accounts |-> "none"]
  /\ notices = {}
  /\ call = [h \in Handlers |-> Idle]
  /\ queue = 0 /\ faults = 0 /\ edits = 0

-----------------------------------------------------------------------------
(* The provider, as the code of the gateway relies on it. *)

\* The provider decides the fate of a trade it opened and reports it.
ProviderReports(a, s) ==
  /\ \/ trade[a] = "open"   /\ s \in Results
     \/ trade[a] = "failed" /\ s \in {"paid", "mispaid", "closed"}
     \/ trade[a] = "paid"   /\ s = "closed"
  /\ trade' = [trade EXCEPT ![a] = IF s = "pending" THEN @ ELSE s]
  /\ [account |-> a, status |-> s] \notin notices
  /\ Cardinality(notices) < MaxNotices
  /\ notices' = notices \cup {[account |-> a, status |-> s]}
  /\ UNCHANGED <<store, deadline, call, queue, budget>>

-----------------------------------------------------------------------------
(* ApplyPaymentResult, one database call at a time. *)

\* A notice arrives; the provider repeats it until it is acknowledged, so the
\* same notice may be served by several handlers at once.
Receive(h, n) ==
  /\ At(h, "idle") /\ n \in notices
  /\ call' = [call EXCEPT ![h] = [pc |-> "apply", req |-> n, seen |-> None]]
  /\ UNCHANGED <<store, deadline, world, queue, budget>>

\* The row is read and does not match the result: an error, no acknowledgement.
ApplyRejected(h) ==
  /\ At(h, "apply") /\ ~Accepts(order, Req(h))
  /\ Finish(h)
  /\ UNCHANGED <<store, deadline, world, queue, budget>>

ApplyAccepted(h) ==
  /\ At(h, "apply") /\ Accepts(order, Req(h))
  /\ IF Unbound(order)
       THEN call' = [call EXCEPT ![h].pc = "select", ![h].seen = order]
       ELSE Goto(h, Dispatch(order, Req(h)))
  /\ UNCHANGED <<store, deadline, world, queue, budget>>

\* SetPaymentSelection of a result, with the pay method of the row read before.
ApplySelect(h) ==
  /\ At(h, "select")
  /\ order' = Select(order, Req(h).account, MethodFor(call[h].seen, Req(h).account))
  /\ Goto(h, Dispatch(order, Req(h)))
  /\ UNCHANGED <<events, deliveries, deadline, world, queue, budget>>

\* Mutant: a paid order is taken for done, its event is not restored.
MarkPaidReadDone(h) ==
  /\ At(h, "markPaid")
  /\ \/ order.status = "paid"                /\ Goto(h, "reply")
     \/ order.status \in {"pending", "failed"} /\ Goto(h, "casPaid")
     \/ order.status = "closed"              /\ Finish(h)
  /\ UNCHANGED <<store, deadline, world, queue, budget>>

\* MarkPaid reads the row again: a paid order only restores its event, a closed
\* one is refused.
MarkPaidRead(h) ==
  /\ At(h, "markPaid")
  /\ \/ order.status = "paid"                /\ Goto(h, "record")
     \/ order.status \in {"pending", "failed"} /\ Goto(h, "casPaid")
     \/ order.status = "closed"              /\ Finish(h)
  /\ UNCHANGED <<store, deadline, world, queue, budget>>

\* Mutant: the update trusts the status read before.
MarkPaidUpdateBlindly(h) ==
  /\ At(h, "casPaid")
  /\ order' = [order EXCEPT !.status = "paid", !.trade = Req(h).account]
  /\ Goto(h, "record")
  /\ UNCHANGED <<events, deliveries, deadline, world, queue, budget>>

\* UPDATE ... SET status = paid WHERE status IN (pending, failed).
MarkPaidUpdate(h) ==
  /\ At(h, "casPaid") /\ order.status \in {"pending", "failed"}
  /\ order' = [order EXCEPT !.status = "paid", !.trade = Req(h).account]
  /\ Goto(h, "record")
  /\ UNCHANGED <<events, deliveries, deadline, world, queue, budget>>

\* The update found no such row: fine if another call paid it, else refused.
MarkPaidLost(h) ==
  /\ At(h, "casPaid") /\ order.status \in {"paid", "closed"}
  /\ IF order.status = "paid" THEN Goto(h, "record") ELSE Finish(h)
  /\ UNCHANGED <<store, deadline, world, queue, budget>>

MarkFailedRead(h) ==
  /\ At(h, "markFailed")
  /\ \/ order.status = "failed"             /\ Goto(h, "record")
     \/ order.status = "pending"            /\ Goto(h, "casFailed")
     \/ order.status \in {"paid", "closed"} /\ Finish(h)
  /\ UNCHANGED <<store, deadline, world, queue, budget>>

\* UPDATE ... SET status = failed WHERE status = pending.
MarkFailedUpdate(h) ==
  /\ At(h, "casFailed") /\ order.status = "pending"
  /\ order' = [order EXCEPT !.status = "failed", !.failedAt = TRUE]
  /\ Goto(h, "record")
  /\ UNCHANGED <<events, deliveries, deadline, world, queue, budget>>

MarkFailedLost(h) ==
  /\ At(h, "casFailed") /\ order.status # "pending"
  /\ IF order.status = "failed" THEN Goto(h, "record") ELSE Finish(h)
  /\ UNCHANGED <<store, deadline, world, queue, budget>>

\* The provider reported the payment closed: the order closes without an event.
CloseWithoutEvent(h) ==
  /\ At(h, "close")
  /\ IF order.status \in {"pending", "failed"}
       THEN order' = [order EXCEPT !.status = "closed"] /\ Goto(h, "reply")
       ELSE Finish(h) /\ UNCHANGED order
  /\ UNCHANGED <<events, deliveries, deadline, world, queue, budget>>

\* RecordResourceEvent: find the event or create it; the unique index on
\* (event_type, resource_type, resource_id) makes two creators agree on one.
RecordEvent(h) ==
  /\ At(h, "record")
  /\ events' = events \cup {EventOf(Req(h))}
  /\ Goto(h, "deliver")
  /\ UNCHANGED <<order, deliveries, deadline, world, queue, budget>>

\* ensureDelivery looks for the delivery; an app without notify_url gets none.
EnsureDelivery(h) ==
  /\ At(h, "deliver")
  /\ Goto(h, IF NotifyConfigured /\ EventOf(Req(h)) \notin deliveries THEN "insert" ELSE "reply")
  /\ UNCHANGED <<store, deadline, world, queue, budget>>

\* CreateDelivery: event_id is unique, so of two creators the second gets an error.
InsertDelivery(h) ==
  /\ At(h, "insert")
  /\ deliveries' = deliveries \cup {EventOf(Req(h))}
  /\ IF EventOf(Req(h)) \in deliveries THEN Finish(h) ELSE Goto(h, "reply")
  /\ UNCHANGED <<order, events, deadline, world, queue, budget>>

\* The caller is told of success: the provider stops repeating the notice.
Reply(h) ==
  /\ At(h, "reply")
  /\ notices' = notices \ {Req(h)}
  /\ Finish(h)
  /\ UNCHANGED <<store, deadline, trade, queue, budget>>

-----------------------------------------------------------------------------
(* The checkout page starts a payment. *)

\* The row is read once, for the locks, the status and the deadline.
StartPayment(h, a) ==
  /\ At(h, "idle") /\ MayStart(order, a)
  /\ call' = [call EXCEPT ![h] = [pc |-> "provider",
                                  req |-> [account |-> a, status |-> "start"],
                                  seen |-> order]]
  /\ UNCHANGED <<store, deadline, world, queue, budget>>

\* The provider opens the payment; what follows depends on the row read before.
ProviderOpens(h) ==
  /\ At(h, "provider")
  /\ trade' = [trade EXCEPT ![Req(h).account] = IF @ = "none" THEN "open" ELSE @]
  /\ call' = [call EXCEPT ![h].pc = IF Unbound(call[h].seen) THEN "bind" ELSE "bindNo"]
  /\ UNCHANGED <<store, deadline, notices, queue, budget>>

\* SetPaymentSelection of the checkout.
BindSelection(h) ==
  /\ At(h, "bind")
  /\ order' = Select(order, Req(h).account, MethodFor(call[h].seen, Req(h).account))
  /\ call' = [call EXCEPT ![h].pc = "bindNo"]
  /\ UNCHANGED <<events, deliveries, deadline, world, queue, budget>>

\* SetProviderOrderNo, unless the row already had a number when it was read.
BindProviderNo(h) ==
  /\ At(h, "bindNo")
  /\ order' = IF call[h].seen.providerNo = None
                THEN [order EXCEPT !.providerNo = Req(h).account] ELSE order
  /\ Finish(h)
  /\ UNCHANGED <<events, deliveries, deadline, world, queue, budget>>

-----------------------------------------------------------------------------
(* The administrator, the merchant, the clock and the expiration worker. *)

\* closeOrderWithEvent: one transaction for the status, the event and the delivery.
CloseOrder ==
  /\ order.status \in {"pending", "failed"}
  /\ order' = [order EXCEPT !.status = "closed"]
  /\ events' = events \cup {"order.closed"}
  /\ deliveries' = IF NotifyConfigured THEN deliveries \cup {"order.closed"} ELSE deliveries
  /\ UNCHANGED <<deadline, world, call, queue, budget>>

\* UpdateOrder sets or clears the channel and the pay method in any status.
UpdateOrder(c, m) ==
  /\ edits < MaxEdits /\ edits' = edits + 1
  /\ order' = [order EXCEPT !.channel = c, !.method = m]
  /\ UNCHANGED <<events, deliveries, deadline, world, call, queue, faults>>

DeadlinePasses ==
  /\ deadline = "future" /\ deadline' = "passed"
  /\ UNCHANGED <<store, world, call, queue, budget>>

\* Mutant: an order with an account but no provider number is left out.
ScanExpiredWithoutAccount ==
  /\ order.status = "pending" /\ deadline = "passed" /\ order.account = None
  /\ queue < MaxQueue /\ queue' = queue + 1
  /\ UNCHANGED <<store, deadline, world, call, budget>>

\* ScanExpiredPendingOrders puts the order into the stream, again and again.
ScanExpired ==
  /\ order.status = "pending" /\ deadline = "passed" /\ ~ProviderBound(order)
  /\ queue < MaxQueue /\ queue' = queue + 1
  /\ UNCHANGED <<store, deadline, world, call, budget>>

\* Mutant: the update asks for an expired row only.
CloseExpiredAnyStatus ==
  /\ queue > 0 /\ queue' = queue - 1
  /\ IF deadline = "passed"
       THEN /\ order' = [order EXCEPT !.status = "closed"]
            /\ events' = events \cup {"order.expired"}
            /\ deliveries' = IF NotifyConfigured THEN deliveries \cup {"order.expired"}
                             ELSE deliveries
       ELSE UNCHANGED store
  /\ UNCHANGED <<deadline, world, call, budget>>

\* A worker takes a message: CloseExpiredPendingOrder is one transaction whose
\* update asks for a pending, expired row and for nothing else.
CloseExpired ==
  /\ queue > 0 /\ queue' = queue - 1
  /\ IF order.status = "pending" /\ deadline = "passed"
       THEN /\ order' = [order EXCEPT !.status = "closed"]
            /\ events' = events \cup {"order.expired"}
            /\ deliveries' = IF NotifyConfigured THEN deliveries \cup {"order.expired"}
                             ELSE deliveries
       ELSE UNCHANGED store
  /\ UNCHANGED <<deadline, world, call, budget>>

-----------------------------------------------------------------------------
(* Failures. *)

\* A database call fails or the process dies: what was written stays written,
\* and nothing is acknowledged.
Abort(h) ==
  /\ ~At(h, "idle")
  /\ faults < MaxFaults /\ faults' = faults + 1
  /\ Finish(h)
  /\ UNCHANGED <<store, deadline, world, queue, edits>>

\* A worker dies after reading a message, or its transaction rolls back: the
\* workers only read new entries, so the message is never delivered again.
LoseMessage ==
  /\ queue > 0 /\ queue' = queue - 1
  /\ faults < MaxFaults /\ faults' = faults + 1
  /\ UNCHANGED <<store, deadline, world, call, edits>>

-----------------------------------------------------------------------------
Step(h) ==
  \/ ApplyRejected(h) \/ ApplyAccepted(h) \/ ApplySelect(h)
  \/ MarkPaidRead(h) \/ MarkPaidUpdate(h) \/ MarkPaidLost(h)
  \/ MarkFailedRead(h) \/ MarkFailedUpdate(h) \/ MarkFailedLost(h)
  \/ CloseWithoutEvent(h) \/ RecordEvent(h) \/ EnsureDelivery(h) \/ InsertDelivery(h) \/ Reply(h)
  \/ ProviderOpens(h) \/ BindSelection(h) \/ BindProviderNo(h)

Next ==
  \/ \E a \in Accounts, s \in Results : ProviderReports(a, s)
  \/ \E h \in Handlers, n \in notices : Receive(h, n)
  \/ \E h \in Handlers, a \in Accounts : StartPayment(h, a)
  \/ \E h \in Handlers : Step(h)
  \/ \E h \in Handlers : Abort(h)
  \/ \E c, m \in Channels \cup {None} : UpdateOrder(c, m)
  \/ CloseOrder \/ DeadlinePasses \/ ScanExpired \/ CloseExpired \/ LoseMessage

Spec == Init /\ [][Next]_vars

\* A handler that was started goes on; the provider repeats what is not
\* acknowledged (strong: the server takes requests without a limit, the bound on
\* handlers is the model's); the scanner's timer and the workers keep running.
Fairness ==
  /\ \A h \in Handlers : WF_vars(Step(h))
  /\ \A n \in Notices : SF_vars(\E h \in Handlers : Receive(h, n))
  /\ WF_vars(ScanExpired) /\ WF_vars(CloseExpired)

FairSpec == Spec /\ Fairness

-----------------------------------------------------------------------------
(* Properties. *)

\* Every variable holds what its column, stream or handler may hold.
TypeOK ==
  /\ order \in Orders /\ deadline \in Deadlines
  /\ events \subseteq EventTypes /\ deliveries \subseteq EventTypes
  /\ trade \in [Accounts -> Trades]
  /\ notices \subseteq Notices
  /\ call \in [Handlers -> Calls]
  /\ queue \in 0..MaxQueue /\ faults \in 0..MaxFaults /\ edits \in 0..MaxEdits

\* The merchant is never told two stories: payment.succeeded only of a paid order,
\* order.closed or order.expired only of a closed one, payment.failed only of one
\* that failed -- although MarkPaid and MarkFailed record the event in a call of
\* its own, after any number of other requests.
AnnouncementsAgree ==
  /\ "payment.succeeded" \in events => order.status = "paid"
  /\ {"order.closed", "order.expired"} \cap events # {} => order.status = "closed"
  /\ "payment.failed" \in events => order.failedAt

\* No silently closed order: a closed order has one of order.closed and
\* order.expired, never both, with its delivery if the app has a notify_url; it
\* has neither only when the provider itself reported a trade closed.
ClosedIsAnnouncedOnce ==
  LET closing == events \cap {"order.closed", "order.expired"}
  IN  /\ closing # {"order.closed", "order.expired"}
      /\ NotifyConfigured => closing \subseteq deliveries
      /\ order.status = "closed" /\ closing = {} => \E a \in Accounts : trade[a] = "closed"

\* A paid order was paid by a trade the provider took the money for, and for the
\* order's own amount and currency (ApplyPaymentResult).
PaidMeansTaken ==
  order.status = "paid" =>
    /\ order.trade # None
    /\ trade[order.trade] \in {"paid", "closed"}

\* channel_trade_no names the trade that paid the order: a second paid result,
\* or an edit, does not replace it.
PayingTradeIsFinal == [][order.status = "paid" => order'.trade = order.trade]_vars

\* A provider that is told of success (and so stops repeating its notice) may
\* rely on it: the event is stored, with its delivery if the app has a notify_url.
AcknowledgedIsAnnounced ==
  [][\A n \in notices \ notices' :
       n.status \in {"paid", "failed"} =>
         /\ EventOf(n) \in events'
         /\ NotifyConfigured => EventOf(n) \in deliveries']_vars

\* Money taken for the order reaches the merchant: once a trade of the right
\* amount is paid, payment.succeeded is recorded, unless the order was closed
\* or is bound to another channel or account by then.  Crashes between the
\* calls of MarkPaid are recovered by the repeated notice.
PaymentIsAnnounced ==
  \A a \in Accounts :
    (trade[a] = "paid") ~>
      \/ "payment.succeeded" \in events
      \/ order.status = "closed"
      \/ ~Accepts(order, [account |-> a, status |-> "paid"])

\* An expired order without a provider binding does not stay pending, whatever
\* messages the stream loses.
ExpiredIsClosed ==
  (order.status = "pending" /\ deadline = "passed" /\ ~ProviderBound(order)) ~>
    (order.status # "pending" \/ ProviderBound(order))

\* The promise of OrderLifecycle.
Lifecycle == INSTANCE OrderLifecycle
               WITH status <- order.status, everFailed <- order.failedAt,
                    announced <- events

\* Whatever calls race on the row, the order follows OrderLifecycle.
ImplementsLifecycle == Lifecycle!Spec

\* Documented: provider-bound pending orders are not blindly closed by the
\* expiration worker.
BoundIsNotExpired ==
  [][(order.status = "pending" /\ ProviderBound(order)) =>
       ~("order.expired" \in events' \ events)]_vars

=============================================================================
