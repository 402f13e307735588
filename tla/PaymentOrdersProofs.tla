------------------------ MODULE PaymentOrdersProofs -------------------------
(***************************************************************************)
(* Theorems about PaymentOrders, for every set of handlers, accounts and   *)
(* channels and every bound.                                               *)
(***************************************************************************)
EXTENDS PaymentOrders, TLAPS

\* The provider and start requests a handler may hold at each of its steps, and
\* what the row is known to hold by then whatever other handlers do: once a
\* handler is to record an event, the status that justifies it cannot be undone.
HandlerInv(h) ==
  LET pc == call[h].pc
      req == call[h].req
  IN  /\ pc \in {"apply", "select", "markPaid", "casPaid", "markFailed", "casFailed",
                 "close", "record", "deliver", "insert", "reply"} => req \in Notices
      /\ pc \in {"provider", "bind", "bindNo"} => req \in Starts /\ call[h].seen \in Orders
      /\ pc = "select" => call[h].seen \in Orders
      /\ pc \in {"markPaid", "casPaid"} => req.status \in {"paid", "mispaid"}
      /\ pc \in {"markFailed", "casFailed"} => req.status = "failed"
      /\ pc = "close" => req.status = "closed"
      /\ pc \in {"record", "deliver", "insert"} =>
           \/ req.status \in {"paid", "mispaid"} /\ order.status = "paid"
           \/ req.status = "failed" /\ order.failedAt = TRUE
      /\ pc \in {"deliver", "insert"} => EventOf(req) \in events
      /\ pc = "reply" /\ req.status \in {"paid", "failed"} =>
           /\ EventOf(req) \in events
           /\ NotifyConfigured => EventOf(req) \in deliveries

\* failed_at is written in the update that sets the status.
FailureIsStamped == order.status = "failed" => order.failedAt = TRUE

IInv == /\ TypeOK /\ AnnouncementsAgree /\ FailureIsStamped
        /\ \A h \in Handlers : HandlerInv(h)

\* What no step undoes: a paid order stays paid, a failure stays recorded, events
\* and deliveries stay.
Grows == /\ order.status = "paid" => order'.status = "paid"
         /\ order.failedAt => order'.failedAt
         /\ events \subseteq events'
         /\ deliveries \subseteq deliveries'

\* A handler that does not move keeps its invariant when nothing is undone.
LEMMA Stable ==
  ASSUME NEW h \in Handlers, HandlerInv(h), call'[h] = call[h], Grows
  PROVE  HandlerInv(h)'
BY DEF HandlerInv, Grows, EventOf

\* Every start of a new order satisfies the invariant.
LEMMA InitIInv == Init => IInv
<1> SUFFICES ASSUME Init PROVE IInv
  OBVIOUS
<1> USE ConstantsAssumption
<1>1. TypeOK
  BY DEF Init, TypeOK, Orders, Statuses, Deadlines, EventTypes, Trades, Calls, Idle, Pcs
<1>2. AnnouncementsAgree /\ FailureIsStamped
  BY DEF Init, AnnouncementsAgree, FailureIsStamped
<1>3. \A h \in Handlers : HandlerInv(h)
  BY DEF Init, HandlerInv, Idle
<1> QED  BY <1>1, <1>2, <1>3 DEF IInv

\* What a step of handler h does to the handlers: h holds c, the others stay.
Moves(h, c) == /\ call' \in [Handlers -> Calls]
               /\ call'[h] = c
               /\ \A g \in Handlers \ {h} : call'[g] = call[g]

Moved(h, p) == [pc |-> p, req |-> call[h].req, seen |-> None]

LEMMA GotoMoves ==
  ASSUME call \in [Handlers -> Calls], NEW h \in Handlers, NEW p \in Pcs, Goto(h, p)
  PROVE  Moves(h, Moved(h, p))
BY DEF Goto, Moves, Moved, Calls

LEMMA FinishMoves ==
  ASSUME call \in [Handlers -> Calls], NEW h \in Handlers, Finish(h)
  PROVE  Moves(h, Idle)
BY DEF Finish, Moves, Calls, Idle, Pcs

LEMMA IdleInv == ASSUME NEW h \in Handlers, call'[h] = Idle PROVE HandlerInv(h)'
BY DEF HandlerInv, Idle

\* One step of a handler.  Its own invariant is re-established by the step, the
\* one of every other handler by Stable.
LEMMA StepIInv ==
  ASSUME IInv, NEW h \in Handlers, Step(h)
  PROVE  IInv'
<1> USE ConstantsAssumption
<1>0. /\ TypeOK /\ AnnouncementsAgree /\ FailureIsStamped /\ HandlerInv(h)
      /\ call \in [Handlers -> Calls] /\ call[h] \in Calls /\ order \in Orders
  BY DEF IInv, TypeOK
<1>q. ASSUME TypeOK', AnnouncementsAgree', FailureIsStamped', Grows, HandlerInv(h)',
             \A g \in Handlers \ {h} : call'[g] = call[g]
      PROVE  IInv'
  <2>1. \A g \in Handlers : HandlerInv(g)'
    BY <1>q, Stable DEF IInv
  <2> QED  BY <1>q, <2>1 DEF IInv
<1>1. CASE ApplyRejected(h)
  <2>1. Moves(h, Idle)
    BY <1>0, <1>1, FinishMoves DEF ApplyRejected
  <2>2. order' \in Orders /\ Grows
    BY <1>0, <1>1 DEF ApplyRejected, Orders, Grows, store
  <2>3. TypeOK'
    BY <1>0, <1>1, <2>1, <2>2 DEF ApplyRejected, TypeOK, Moves, EventTypes, EventOf, Trades, Notices, Starts, HandlerInv, At, Req, store, world, budget
  <2>4. AnnouncementsAgree' /\ FailureIsStamped'
    BY <1>0, <1>1 DEF ApplyRejected, AnnouncementsAgree, FailureIsStamped, HandlerInv, EventOf, At, Req, store, Orders
  <2>5. HandlerInv(h)'
    BY <1>0, <1>1, <2>1, IdleInv DEF Moves
  <2> QED  BY <1>q, <2>1, <2>2, <2>3, <2>4, <2>5 DEF Moves
<1>2. CASE ApplyAccepted(h)
  <2>1. \/ Moves(h, [pc |-> "select", req |-> call[h].req, seen |-> order])
        \/ Moves(h, Moved(h, Dispatch(order, Req(h))))
    <3>1. CASE Unbound(order)
      BY <1>0, <1>2, <3>1 DEF ApplyAccepted, Moves, Calls, Pcs
    <3>2. CASE ~Unbound(order)
      <4>1. Dispatch(order, Req(h)) \in Pcs
        BY <1>0, <1>2 DEF ApplyAccepted, Dispatch, HandlerInv, At, Req, Notices, Results, Pcs
      <4> QED  BY <1>0, <1>2, <3>2, <4>1, GotoMoves DEF ApplyAccepted
    <3> QED  BY <3>1, <3>2
  <2>2. order' \in Orders /\ Grows
    BY <1>0, <1>2 DEF ApplyAccepted, Orders, Grows, store
  <2>3. TypeOK'
    BY <1>0, <1>2, <2>1, <2>2 DEF ApplyAccepted, TypeOK, Moves, EventTypes, EventOf, Trades, Notices, Starts, HandlerInv, At, Req, store, world, budget
  <2>4. AnnouncementsAgree' /\ FailureIsStamped'
    BY <1>0, <1>2 DEF ApplyAccepted, AnnouncementsAgree, FailureIsStamped, HandlerInv, EventOf, At, Req, store, Orders
  <2>5. HandlerInv(h)'
    <3>1. CASE Moves(h, [pc |-> "select", req |-> call[h].req, seen |-> order])
      BY <1>0, <1>2, <3>1 DEF ApplyAccepted, Moves, HandlerInv, At
    <3>2. CASE Moves(h, Moved(h, Dispatch(order, Req(h))))
      BY <1>0, <1>2, <3>2 DEF ApplyAccepted, Moves, Moved, HandlerInv, At, Req, Dispatch, Notices, Results
    <3> QED  BY <2>1, <3>1, <3>2
  <2> QED  BY <1>q, <2>1, <2>2, <2>3, <2>4, <2>5 DEF Moves
<1>3. CASE ApplySelect(h)
  <2>1. Moves(h, Moved(h, Dispatch(order, Req(h))))
    BY <1>0, <1>3, GotoMoves DEF ApplySelect, Dispatch, Pcs, Req, At, HandlerInv, Notices, Results
  <2>2. order' \in Orders /\ Grows
    BY <1>0, <1>3 DEF ApplySelect, Orders, Grows, store, Select, MethodFor, Req, At, HandlerInv, Notices
  <2>3. TypeOK'
    BY <1>0, <1>3, <2>1, <2>2 DEF ApplySelect, TypeOK, Moves, EventTypes, EventOf, Trades, Notices, Starts, HandlerInv, At, Req, store, world, budget
  <2>4. AnnouncementsAgree' /\ FailureIsStamped'
    BY <1>0, <1>3 DEF ApplySelect, AnnouncementsAgree, FailureIsStamped, HandlerInv, EventOf, At, Req, store, Orders, Select
  <2>5. HandlerInv(h)'
    BY <1>0, <1>3, <2>1 DEF ApplySelect, Moves, Moved, HandlerInv, At, Req, Dispatch, EventOf, Orders, Calls, Notices, Starts, Results, store
  <2> QED  BY <1>q, <2>1, <2>2, <2>3, <2>4, <2>5 DEF Moves
<1>4. CASE MarkPaidRead(h)
  <2>1. \/ order.status = "paid" /\ Moves(h, Moved(h, "record"))
        \/ Moves(h, Moved(h, "casPaid"))
        \/ Moves(h, Idle)
    BY <1>0, <1>4, GotoMoves, FinishMoves DEF MarkPaidRead, Pcs
  <2>2. order' \in Orders /\ Grows
    BY <1>0, <1>4 DEF MarkPaidRead, Orders, Grows, store
  <2>3. TypeOK'
    BY <1>0, <1>4, <2>1, <2>2 DEF MarkPaidRead, TypeOK, Moves, EventTypes, EventOf, Trades, Notices, Starts, HandlerInv, At, Req, store, world, budget
  <2>4. AnnouncementsAgree' /\ FailureIsStamped'
    BY <1>0, <1>4 DEF MarkPaidRead, AnnouncementsAgree, FailureIsStamped, HandlerInv, EventOf, At, Req, store, Orders
  <2>5. HandlerInv(h)'
    <3>1. CASE order.status = "paid" /\ Moves(h, Moved(h, "record"))
      BY <1>0, <1>4, <3>1 DEF MarkPaidRead, Moves, Moved, HandlerInv, At, Req, EventOf, Orders, Notices, Starts, Results, store
    <3>2. CASE Moves(h, Moved(h, "casPaid"))
      BY <1>0, <1>4, <3>2 DEF MarkPaidRead, Moves, Moved, HandlerInv, At, Req, EventOf, Orders, Notices, Starts, Results, store
    <3>3. CASE Moves(h, Idle)
      BY <3>3, IdleInv DEF Moves
    <3> QED  BY <2>1, <3>1, <3>2, <3>3
  <2> QED  BY <1>q, <2>1, <2>2, <2>3, <2>4, <2>5 DEF Moves
<1>5. CASE MarkPaidUpdate(h)
  <2>1. Moves(h, Moved(h, "record"))
    BY <1>0, <1>5, GotoMoves DEF MarkPaidUpdate, Pcs
  <2>2. order' \in Orders /\ Grows
    BY <1>0, <1>5 DEF MarkPaidUpdate, Orders, Grows, store, Req, At, HandlerInv, Notices, Statuses
  <2>3. TypeOK'
    BY <1>0, <1>5, <2>1, <2>2 DEF MarkPaidUpdate, TypeOK, Moves, EventTypes, EventOf, Trades, Notices, Starts, HandlerInv, At, Req, store, world, budget
  <2>4. AnnouncementsAgree' /\ FailureIsStamped'
    BY <1>0, <1>5 DEF MarkPaidUpdate, AnnouncementsAgree, FailureIsStamped, HandlerInv, EventOf, At, Req, store, Orders
  <2>5. HandlerInv(h)'
    BY <1>0, <1>5, <2>1 DEF MarkPaidUpdate, Moves, Moved, HandlerInv, At, Req, EventOf, Orders, Calls, Notices, Starts, Results, store
  <2> QED  BY <1>q, <2>1, <2>2, <2>3, <2>4, <2>5 DEF Moves
<1>6. CASE MarkPaidLost(h)
  <2>1. \/ order.status = "paid" /\ Moves(h, Moved(h, "record"))
        \/ Moves(h, Idle)
    BY <1>0, <1>6, GotoMoves, FinishMoves DEF MarkPaidLost, Pcs
  <2>2. order' \in Orders /\ Grows
    BY <1>0, <1>6 DEF MarkPaidLost, Orders, Grows, store
  <2>3. TypeOK'
    BY <1>0, <1>6, <2>1, <2>2 DEF MarkPaidLost, TypeOK, Moves, EventTypes, EventOf, Trades, Notices, Starts, HandlerInv, At, Req, store, world, budget
  <2>4. AnnouncementsAgree' /\ FailureIsStamped'
    BY <1>0, <1>6 DEF MarkPaidLost, AnnouncementsAgree, FailureIsStamped, HandlerInv, EventOf, At, Req, store, Orders
  <2>5. HandlerInv(h)'
    <3>1. CASE order.status = "paid" /\ Moves(h, Moved(h, "record"))
      BY <1>0, <1>6, <3>1 DEF MarkPaidLost, Moves, Moved, HandlerInv, At, Req, EventOf, Orders, Notices, Starts, Results, store
    <3>2. CASE Moves(h, Idle)
      BY <3>2, IdleInv DEF Moves
    <3> QED  BY <2>1, <3>1, <3>2
  <2> QED  BY <1>q, <2>1, <2>2, <2>3, <2>4, <2>5 DEF Moves
<1>7. CASE MarkFailedRead(h)
  <2>1. \/ order.status = "failed" /\ Moves(h, Moved(h, "record"))
        \/ Moves(h, Moved(h, "casFailed"))
        \/ Moves(h, Idle)
    BY <1>0, <1>7, GotoMoves, FinishMoves DEF MarkFailedRead, Pcs
  <2>2. order' \in Orders /\ Grows
    BY <1>0, <1>7 DEF MarkFailedRead, Orders, Grows, store
  <2>3. TypeOK'
    BY <1>0, <1>7, <2>1, <2>2 DEF MarkFailedRead, TypeOK, Moves, EventTypes, EventOf, Trades, Notices, Starts, HandlerInv, At, Req, store, world, budget
  <2>4. AnnouncementsAgree' /\ FailureIsStamped'
    BY <1>0, <1>7 DEF MarkFailedRead, AnnouncementsAgree, FailureIsStamped, HandlerInv, EventOf, At, Req, store, Orders
  <2>5. HandlerInv(h)'
    <3>1. CASE order.status = "failed" /\ Moves(h, Moved(h, "record"))
      BY <1>0, <1>7, <3>1 DEF MarkFailedRead, Moves, Moved, HandlerInv, FailureIsStamped, At, Req, EventOf, Orders, Notices, Starts, Results, store
    <3>2. CASE Moves(h, Moved(h, "casFailed"))
      BY <1>0, <1>7, <3>2 DEF MarkFailedRead, Moves, Moved, HandlerInv, FailureIsStamped, At, Req, EventOf, Orders, Notices, Starts, Results, store
    <3>3. CASE Moves(h, Idle)
      BY <3>3, IdleInv DEF Moves
    <3> QED  BY <2>1, <3>1, <3>2, <3>3
  <2> QED  BY <1>q, <2>1, <2>2, <2>3, <2>4, <2>5 DEF Moves
<1>8. CASE MarkFailedUpdate(h)
  <2>1. Moves(h, Moved(h, "record"))
    BY <1>0, <1>8, GotoMoves DEF MarkFailedUpdate, Pcs
  <2>2. order' \in Orders /\ Grows
    BY <1>0, <1>8 DEF MarkFailedUpdate, Orders, Grows, store, Statuses
  <2>3. TypeOK'
    BY <1>0, <1>8, <2>1, <2>2 DEF MarkFailedUpdate, TypeOK, Moves, EventTypes, EventOf, Trades, Notices, Starts, HandlerInv, At, Req, store, world, budget
  <2>4. AnnouncementsAgree' /\ FailureIsStamped'
    BY <1>0, <1>8 DEF MarkFailedUpdate, AnnouncementsAgree, FailureIsStamped, HandlerInv, EventOf, At, Req, store, Orders
  <2>5. HandlerInv(h)'
    BY <1>0, <1>8, <2>1 DEF MarkFailedUpdate, Moves, Moved, HandlerInv, At, Req, EventOf, Orders, Calls, Notices, Starts, Results, store
  <2> QED  BY <1>q, <2>1, <2>2, <2>3, <2>4, <2>5 DEF Moves
<1>9. CASE MarkFailedLost(h)
  <2>1. \/ order.status = "failed" /\ Moves(h, Moved(h, "record"))
        \/ Moves(h, Idle)
    BY <1>0, <1>9, GotoMoves, FinishMoves DEF MarkFailedLost, Pcs
  <2>2. order' \in Orders /\ Grows
    BY <1>0, <1>9 DEF MarkFailedLost, Orders, Grows, store
  <2>3. TypeOK'
    BY <1>0, <1>9, <2>1, <2>2 DEF MarkFailedLost, TypeOK, Moves, EventTypes, EventOf, Trades, Notices, Starts, HandlerInv, At, Req, store, world, budget
  <2>4. AnnouncementsAgree' /\ FailureIsStamped'
    BY <1>0, <1>9 DEF MarkFailedLost, AnnouncementsAgree, FailureIsStamped, HandlerInv, EventOf, At, Req, store, Orders
  <2>5. HandlerInv(h)'
    <3>1. CASE order.status = "failed" /\ Moves(h, Moved(h, "record"))
      BY <1>0, <1>9, <3>1 DEF MarkFailedLost, Moves, Moved, HandlerInv, FailureIsStamped, At, Req, EventOf, Orders, Notices, Starts, Results, store
    <3>2. CASE Moves(h, Idle)
      BY <3>2, IdleInv DEF Moves
    <3> QED  BY <2>1, <3>1, <3>2
  <2> QED  BY <1>q, <2>1, <2>2, <2>3, <2>4, <2>5 DEF Moves
<1>10. CASE CloseWithoutEvent(h)
  <2>1. \/ Moves(h, Moved(h, "reply"))
        \/ Moves(h, Idle)
    BY <1>0, <1>10, GotoMoves, FinishMoves DEF CloseWithoutEvent, Pcs
  <2>2. order' \in Orders /\ Grows
    BY <1>0, <1>10 DEF CloseWithoutEvent, Orders, Grows, store, Statuses
  <2>3. TypeOK'
    BY <1>0, <1>10, <2>1, <2>2 DEF CloseWithoutEvent, TypeOK, Moves, EventTypes, EventOf, Trades, Notices, Starts, HandlerInv, At, Req, store, world, budget
  <2>4. AnnouncementsAgree' /\ FailureIsStamped'
    BY <1>0, <1>10 DEF CloseWithoutEvent, AnnouncementsAgree, FailureIsStamped, HandlerInv, EventOf, At, Req, store, Orders
  <2>5. HandlerInv(h)'
    <3>1. CASE Moves(h, Moved(h, "reply"))
      BY <1>0, <1>10, <3>1 DEF CloseWithoutEvent, Moves, Moved, HandlerInv, At, Req, EventOf, Orders, Notices, Starts, Results, store
    <3>2. CASE Moves(h, Idle)
      BY <3>2, IdleInv DEF Moves
    <3> QED  BY <2>1, <3>1, <3>2
  <2> QED  BY <1>q, <2>1, <2>2, <2>3, <2>4, <2>5 DEF Moves
<1>11. CASE RecordEvent(h)
  <2>1. Moves(h, Moved(h, "deliver"))
    BY <1>0, <1>11, GotoMoves DEF RecordEvent, Pcs
  <2>2. order' \in Orders /\ Grows
    BY <1>0, <1>11 DEF RecordEvent, Orders, Grows, store
  <2>3. TypeOK'
    BY <1>0, <1>11, <2>1, <2>2 DEF RecordEvent, TypeOK, Moves, EventTypes, EventOf, Trades, Notices, Starts, HandlerInv, At, Req, store, world, budget
  <2>4. AnnouncementsAgree' /\ FailureIsStamped'
    BY <1>0, <1>11 DEF RecordEvent, AnnouncementsAgree, FailureIsStamped, HandlerInv, EventOf, At, Req, store, Orders
  <2>5. HandlerInv(h)'
    BY <1>0, <1>11, <2>1 DEF RecordEvent, Moves, Moved, HandlerInv, At, Req, EventOf, Orders, Calls, Notices, Starts, Results, store
  <2> QED  BY <1>q, <2>1, <2>2, <2>3, <2>4, <2>5 DEF Moves
<1>12. CASE EnsureDelivery(h)
  <2>1. \/ /\ NotifyConfigured => EventOf(call[h].req) \in deliveries
           /\ Moves(h, Moved(h, "reply"))
        \/ Moves(h, Moved(h, "insert"))
    BY <1>0, <1>12, GotoMoves DEF EnsureDelivery, Pcs, Req
  <2>2. order' \in Orders /\ Grows
    BY <1>0, <1>12 DEF EnsureDelivery, Orders, Grows, store
  <2>3. TypeOK'
    BY <1>0, <1>12, <2>1, <2>2 DEF EnsureDelivery, TypeOK, Moves, EventTypes, EventOf, Trades, Notices, Starts, HandlerInv, At, Req, store, world, budget
  <2>4. AnnouncementsAgree' /\ FailureIsStamped'
    BY <1>0, <1>12 DEF EnsureDelivery, AnnouncementsAgree, FailureIsStamped, HandlerInv, EventOf, At, Req, store, Orders
  <2>5. HandlerInv(h)'
    BY <1>0, <1>12, <2>1 DEF EnsureDelivery, Moves, Moved, HandlerInv, At, Req, EventOf, Orders, Calls, Notices, Starts, Results, store
  <2> QED  BY <1>q, <2>1, <2>2, <2>3, <2>4, <2>5 DEF Moves
<1>13. CASE Reply(h)
  <2>1. Moves(h, Idle)
    BY <1>0, <1>13, FinishMoves DEF Reply
  <2>2. order' \in Orders /\ Grows
    BY <1>0, <1>13 DEF Reply, Orders, Grows, store
  <2>3. TypeOK'
    BY <1>0, <1>13, <2>1, <2>2 DEF Reply, TypeOK, Moves, EventTypes, EventOf, Trades, Notices, Starts, HandlerInv, At, Req, store, world, budget
  <2>4. AnnouncementsAgree' /\ FailureIsStamped'
    BY <1>0, <1>13 DEF Reply, AnnouncementsAgree, FailureIsStamped, HandlerInv, EventOf, At, Req, store, Orders
  <2>5. HandlerInv(h)'
    BY <1>0, <1>13, <2>1, IdleInv DEF Moves
  <2> QED  BY <1>q, <2>1, <2>2, <2>3, <2>4, <2>5 DEF Moves
<1>14. CASE ProviderOpens(h)
  <2>1. Moves(h, [call[h] EXCEPT !.pc = IF Unbound(call[h].seen) THEN "bind" ELSE "bindNo"])
    BY <1>0, <1>14 DEF ProviderOpens, Moves, Calls, Pcs
  <2>2. order' \in Orders /\ Grows
    BY <1>0, <1>14 DEF ProviderOpens, Orders, Grows, store
  <2>3. TypeOK'
    BY <1>0, <1>14, <2>1, <2>2 DEF ProviderOpens, TypeOK, Moves, EventTypes, EventOf, Trades, Notices, Starts, HandlerInv, At, Req, store, world, budget
  <2>4. AnnouncementsAgree' /\ FailureIsStamped'
    BY <1>0, <1>14 DEF ProviderOpens, AnnouncementsAgree, FailureIsStamped, HandlerInv, EventOf, At, Req, store, Orders
  <2>5. HandlerInv(h)'
    BY <1>0, <1>14, <2>1 DEF ProviderOpens, Moves, Moved, HandlerInv, At, Req, EventOf, Orders, Calls, Notices, Starts, Results, store
  <2> QED  BY <1>q, <2>1, <2>2, <2>3, <2>4, <2>5 DEF Moves
<1>15. CASE BindSelection(h)
  <2>1. Moves(h, [call[h] EXCEPT !.pc = "bindNo"])
    BY <1>0, <1>15 DEF BindSelection, Moves, Calls, Pcs
  <2>2. order' \in Orders /\ Grows
    BY <1>0, <1>15 DEF BindSelection, Orders, Grows, store, Select, MethodFor, Req, At, HandlerInv, Starts
  <2>3. TypeOK'
    BY <1>0, <1>15, <2>1, <2>2 DEF BindSelection, TypeOK, Moves, EventTypes, EventOf, Trades, Notices, Starts, HandlerInv, At, Req, store, world, budget
  <2>4. AnnouncementsAgree' /\ FailureIsStamped'
    BY <1>0, <1>15 DEF BindSelection, AnnouncementsAgree, FailureIsStamped, HandlerInv, EventOf, At, Req, store, Orders, Select
  <2>5. HandlerInv(h)'
    BY <1>0, <1>15, <2>1 DEF BindSelection, Moves, Moved, HandlerInv, At, Req, EventOf, Orders, Calls, Notices, Starts, Results, store
  <2> QED  BY <1>q, <2>1, <2>2, <2>3, <2>4, <2>5 DEF Moves
<1>16. CASE BindProviderNo(h)
  <2>1. Moves(h, Idle)
    BY <1>0, <1>16, FinishMoves DEF BindProviderNo
  <2>2. order' \in Orders /\ Grows
    BY <1>0, <1>16 DEF BindProviderNo, Orders, Grows, store, Req, At, HandlerInv, Starts
  <2>3. TypeOK'
    BY <1>0, <1>16, <2>1, <2>2 DEF BindProviderNo, TypeOK, Moves, EventTypes, EventOf, Trades, Notices, Starts, HandlerInv, At, Req, store, world, budget
  <2>4. AnnouncementsAgree' /\ FailureIsStamped'
    BY <1>0, <1>16 DEF BindProviderNo, AnnouncementsAgree, FailureIsStamped, HandlerInv, EventOf, At, Req, store, Orders
  <2>5. HandlerInv(h)'
    BY <1>0, <1>16, <2>1, IdleInv DEF Moves
  <2> QED  BY <1>q, <2>1, <2>2, <2>3, <2>4, <2>5 DEF Moves
<1>17. CASE InsertDelivery(h)
  <2>1. Moves(h, Moved(h, "reply")) \/ Moves(h, Idle)
    BY <1>0, <1>17, GotoMoves, FinishMoves DEF InsertDelivery, Pcs
  <2>2. order' \in Orders /\ Grows
    BY <1>0, <1>17 DEF InsertDelivery, Orders, Grows, store
  <2>3. TypeOK'
    BY <1>0, <1>17, <2>1, <2>2 DEF InsertDelivery, TypeOK, Moves, EventTypes, EventOf, Trades, Notices, Starts, HandlerInv, At, Req, store, world, budget
  <2>4. AnnouncementsAgree' /\ FailureIsStamped'
    BY <1>0, <1>17 DEF InsertDelivery, AnnouncementsAgree, FailureIsStamped, HandlerInv, EventOf, At, Req, store, Orders
  <2>5. HandlerInv(h)'
    <3>1. CASE Moves(h, Moved(h, "reply"))
      BY <1>0, <1>17, <3>1 DEF InsertDelivery, Moves, Moved, HandlerInv, At, Req, EventOf
    <3>2. CASE Moves(h, Idle)
      BY <3>2, IdleInv DEF Moves
    <3> QED  BY <2>1, <3>1, <3>2
  <2> QED  BY <1>q, <2>1, <2>2, <2>3, <2>4, <2>5 DEF Moves
<1> QED
  BY <1>1, <1>2, <1>3, <1>4, <1>5, <1>6, <1>7, <1>8, <1>9, <1>10, <1>11, <1>12, <1>13, <1>14, <1>15, <1>16, <1>17 DEF Step

\* A step of the environment, of the administrator or of the expiration worker:
\* the handlers stay, the row may close, and nothing else is undone.
LEMMA OtherIInv ==
  ASSUME IInv, TypeOK', AnnouncementsAgree', FailureIsStamped', Grows,
         \A h \in Handlers : call'[h] = call[h]
  PROVE  IInv'
BY Stable DEF IInv

\* Every step keeps the invariant.
LEMMA NextIInv == IInv /\ [Next]_vars => IInv'
<1> SUFFICES ASSUME IInv, [Next]_vars PROVE IInv'
  OBVIOUS
<1> USE ConstantsAssumption
<1>0. TypeOK /\ AnnouncementsAgree /\ FailureIsStamped
  BY DEF IInv
<1> USE DEF store, world, budget
<1>1. ASSUME NEW a \in Accounts, NEW s \in Results, ProviderReports(a, s) PROVE IInv'
  <2>1. TypeOK'
    BY <1>0, <1>1 DEF ProviderReports, TypeOK, Notices, Results, Trades
  <2>2. AnnouncementsAgree' /\ FailureIsStamped' /\ Grows
    BY <1>0, <1>1 DEF ProviderReports, AnnouncementsAgree, FailureIsStamped, Grows
  <2> QED  BY <1>1, <2>1, <2>2, OtherIInv DEF ProviderReports
<1>2. ASSUME NEW h \in Handlers, NEW n \in notices, Receive(h, n) PROVE IInv'
  <2>1. n \in Notices
    BY <1>0 DEF TypeOK
  <2>2. Moves(h, [pc |-> "apply", req |-> n, seen |-> None])
    BY <1>0, <1>2, <2>1 DEF Receive, Moves, TypeOK, Calls, Pcs
  <2>3. TypeOK' /\ AnnouncementsAgree' /\ FailureIsStamped' /\ Grows
    BY <1>0, <1>2, <2>2 DEF Receive, Moves, TypeOK, AnnouncementsAgree, FailureIsStamped, Grows
  <2>4. HandlerInv(h)'
    BY <2>1, <2>2 DEF Moves, HandlerInv
  <2>5. \A g \in Handlers : HandlerInv(g)'
    BY <2>2, <2>3, <2>4, Stable DEF IInv, Moves
  <2> QED  BY <2>3, <2>5 DEF IInv
<1>3. ASSUME NEW h \in Handlers, NEW a \in Accounts, StartPayment(h, a) PROVE IInv'
  <2>1. Moves(h, [pc |-> "provider", req |-> [account |-> a, status |-> "start"],
                  seen |-> order])
    BY <1>0, <1>3 DEF StartPayment, Moves, TypeOK, Calls, Pcs, Starts
  <2>2. TypeOK' /\ AnnouncementsAgree' /\ FailureIsStamped' /\ Grows
    BY <1>0, <1>3, <2>1 DEF StartPayment, Moves, TypeOK, AnnouncementsAgree, FailureIsStamped, Grows
  <2>3. HandlerInv(h)'
    BY <1>0, <2>1 DEF Moves, HandlerInv, Starts, TypeOK
  <2>4. \A g \in Handlers : HandlerInv(g)'
    BY <2>1, <2>2, <2>3, Stable DEF IInv, Moves
  <2> QED  BY <2>2, <2>4 DEF IInv
<1>4. ASSUME NEW h \in Handlers, Step(h) PROVE IInv'
  BY <1>4, StepIInv
<1>5. ASSUME NEW h \in Handlers, Abort(h) PROVE IInv'
  <2>1. Moves(h, Idle)
    BY <1>0, <1>5, FinishMoves DEF Abort, TypeOK
  <2>2. TypeOK' /\ AnnouncementsAgree' /\ FailureIsStamped' /\ Grows
    BY <1>0, <1>5, <2>1 DEF Abort, Moves, TypeOK, AnnouncementsAgree, FailureIsStamped, Grows
  <2>3. \A g \in Handlers : HandlerInv(g)'
    BY <2>1, <2>2, Stable, IdleInv DEF IInv, Moves
  <2> QED  BY <2>2, <2>3 DEF IInv
<1>6. ASSUME NEW c \in Channels \cup {None}, NEW m \in Channels \cup {None}, UpdateOrder(c, m)
      PROVE  IInv'
  <2>1. TypeOK'
    <3>1. order' \in Orders
      BY <1>0, <1>6 DEF UpdateOrder, TypeOK, Orders
    <3> QED  BY <1>0, <1>6, <3>1 DEF UpdateOrder, TypeOK
  <2>2. AnnouncementsAgree' /\ FailureIsStamped' /\ Grows
    BY <1>0, <1>6 DEF UpdateOrder, TypeOK, Orders, AnnouncementsAgree, FailureIsStamped, Grows
  <2> QED  BY <1>6, <2>1, <2>2, OtherIInv DEF UpdateOrder
<1>7. CASE CloseOrder
  <2>1. TypeOK'
    BY <1>0, <1>7 DEF CloseOrder, TypeOK, Orders, Statuses, EventTypes
  <2>2. AnnouncementsAgree' /\ FailureIsStamped' /\ Grows
    BY <1>0, <1>7 DEF CloseOrder, TypeOK, Orders, AnnouncementsAgree, FailureIsStamped, Grows
  <2> QED  BY <1>7, <2>1, <2>2, OtherIInv DEF CloseOrder
<1>8. CASE DeadlinePasses \/ ScanExpired \/ LoseMessage
  <2>1. TypeOK'
    BY <1>0, <1>8 DEF DeadlinePasses, ScanExpired, LoseMessage, TypeOK, Deadlines
  <2>2. AnnouncementsAgree' /\ FailureIsStamped' /\ Grows
    BY <1>0, <1>8 DEF DeadlinePasses, ScanExpired, LoseMessage, AnnouncementsAgree,
                      FailureIsStamped, Grows
  <2> QED  BY <1>8, <2>1, <2>2, OtherIInv DEF DeadlinePasses, ScanExpired, LoseMessage
<1>9. CASE CloseExpired
  <2>1. TypeOK'
    BY <1>0, <1>9 DEF CloseExpired, TypeOK, Orders, Statuses, EventTypes
  <2>2. AnnouncementsAgree' /\ FailureIsStamped' /\ Grows
    BY <1>0, <1>9 DEF CloseExpired, TypeOK, Orders, AnnouncementsAgree, FailureIsStamped, Grows
  <2> QED  BY <1>9, <2>1, <2>2, OtherIInv DEF CloseExpired
<1>10. CASE UNCHANGED vars
  <2>1. TypeOK' /\ AnnouncementsAgree' /\ FailureIsStamped' /\ Grows
    BY <1>0, <1>10 DEF vars, TypeOK, AnnouncementsAgree, FailureIsStamped, Grows
  <2> QED  BY <1>10, <2>1, OtherIInv DEF vars
<1> QED
  BY <1>1, <1>2, <1>3, <1>4, <1>5, <1>6, <1>7, <1>8, <1>9, <1>10 DEF Next

LEMMA Invariant == Spec => []IInv
BY InitIInv, NextIInv, PTL DEF Spec

\* Type correctness of every reachable state.
THEOREM TypeCorrect == Spec => []TypeOK
<1>1. IInv => TypeOK
  BY DEF IInv
<1> QED  BY Invariant, <1>1, PTL

\* The merchant is never told two stories, whatever requests race.
THEOREM Announcements == Spec => []AnnouncementsAgree
<1>1. IInv => AnnouncementsAgree
  BY DEF IInv
<1> QED  BY Invariant, <1>1, PTL

\* An acknowledged result has its event and its delivery.
THEOREM Acknowledged == Spec => AcknowledgedIsAnnounced
<1> DEFINE Kept == \A n \in notices \ notices' :
       n.status \in {"paid", "failed"} =>
         /\ EventOf(n) \in events'
         /\ NotifyConfigured => EventOf(n) \in deliveries'
<1>1. IInv /\ [Next]_vars => [Kept]_vars
  <2> SUFFICES ASSUME IInv, [Next]_vars PROVE [Kept]_vars
    OBVIOUS
  <2>1. ASSUME NEW h \in Handlers, Reply(h) PROVE Kept
    BY <2>1 DEF Reply, IInv, HandlerInv, At, Req, store
  <2>2. ASSUME notices \subseteq notices' PROVE Kept
    BY <2>2
  <2>3. ASSUME NEW h \in Handlers, Step(h), ~Reply(h) PROVE notices \subseteq notices'
    BY <2>3 DEF Step, ApplyRejected, ApplyAccepted, ApplySelect, MarkPaidRead, MarkPaidUpdate,
       MarkPaidLost, MarkFailedRead, MarkFailedUpdate, MarkFailedLost, CloseWithoutEvent,
       RecordEvent, EnsureDelivery, InsertDelivery, ProviderOpens, BindSelection, BindProviderNo, world
  <2>4. ASSUME Next, \A h \in Handlers : ~Step(h) PROVE notices \subseteq notices'
    BY <2>4 DEF Next, ProviderReports, Receive, StartPayment, Abort, UpdateOrder, CloseOrder,
       DeadlinePasses, ScanExpired, CloseExpired, LoseMessage, world
  <2> QED  BY <2>1, <2>2, <2>3, <2>4
<1> QED  BY Invariant, <1>1, PTL DEF Spec, AcknowledgedIsAnnounced

\* The order follows OrderLifecycle: every step of every handler, worker or person
\* is one of its steps, or changes neither the status nor the events.
THEOREM Refinement == Spec => ImplementsLifecycle
<1> USE DEF store, world, budget, At, Req
<1>1. Init => Lifecycle!Init
  BY DEF Init, Lifecycle!Init
<1>2. IInv /\ [Next]_vars => [Lifecycle!Next]_(Lifecycle!vars)
  <2> SUFFICES ASSUME IInv, [Next]_vars PROVE [Lifecycle!Next]_(Lifecycle!vars)
    OBVIOUS
  <2> USE DEF Lifecycle!vars
  <2>0. order \in Orders
    BY DEF IInv, TypeOK
  <2>1. ASSUME NEW h \in Handlers, MarkPaidUpdate(h) PROVE Lifecycle!Pay
    BY <2>0, <2>1 DEF MarkPaidUpdate, Lifecycle!Pay, Orders
  <2>2. ASSUME NEW h \in Handlers, MarkFailedUpdate(h) PROVE Lifecycle!FailPayment
    BY <2>0, <2>2 DEF MarkFailedUpdate, Lifecycle!FailPayment, Orders
  <2>3. ASSUME NEW h \in Handlers, CloseWithoutEvent(h)
        PROVE  Lifecycle!CloseQuietly \/ UNCHANGED Lifecycle!vars
    BY <2>0, <2>3 DEF CloseWithoutEvent, Lifecycle!CloseQuietly, Orders
  <2>4. ASSUME NEW h \in Handlers, RecordEvent(h)
        PROVE  Lifecycle!AnnouncePaid \/ Lifecycle!AnnounceFailed
    BY <2>0, <2>4 DEF RecordEvent, Lifecycle!AnnouncePaid, Lifecycle!AnnounceFailed,
                      IInv, HandlerInv, EventOf
  <2>5. ASSUME NEW h \in Handlers, ApplySelect(h) \/ BindSelection(h) \/ BindProviderNo(h)
        PROVE  UNCHANGED Lifecycle!vars
    BY <2>0, <2>5 DEF ApplySelect, BindSelection, BindProviderNo, Select, Orders
  <2>6. ASSUME NEW h \in Handlers,
               \/ ApplyRejected(h) \/ ApplyAccepted(h) \/ MarkPaidRead(h) \/ MarkPaidLost(h)
               \/ MarkFailedRead(h) \/ MarkFailedLost(h) \/ EnsureDelivery(h) \/ InsertDelivery(h)
               \/ Reply(h) \/ ProviderOpens(h)
        PROVE  UNCHANGED Lifecycle!vars
    BY <2>6 DEF ApplyRejected, ApplyAccepted, MarkPaidRead, MarkPaidLost, MarkFailedRead,
                MarkFailedLost, EnsureDelivery, InsertDelivery, Reply, ProviderOpens
  <2>7. CASE CloseOrder
    BY <2>0, <2>7 DEF CloseOrder, Lifecycle!Close, Lifecycle!Next, Orders
  <2>8. CASE CloseExpired
    <3>1. Lifecycle!Expire \/ UNCHANGED Lifecycle!vars
      BY <2>0, <2>8 DEF CloseExpired, Lifecycle!Expire, Orders
    <3> QED  BY <3>1 DEF Lifecycle!Next
  <2>9. ASSUME NEW c \in Channels \cup {None}, NEW m \in Channels \cup {None}, UpdateOrder(c, m)
        PROVE  UNCHANGED Lifecycle!vars
    BY <2>0, <2>9 DEF UpdateOrder, Orders
  <2>10. ASSUME \/ \E a \in Accounts, s \in Results : ProviderReports(a, s)
                \/ \E h \in Handlers, n \in notices : Receive(h, n)
                \/ \E h \in Handlers, a \in Accounts : StartPayment(h, a)
                \/ \E h \in Handlers : Abort(h)
                \/ DeadlinePasses \/ ScanExpired \/ LoseMessage \/ UNCHANGED vars
         PROVE  UNCHANGED Lifecycle!vars
    BY <2>10 DEF ProviderReports, Receive, StartPayment, Abort, DeadlinePasses, ScanExpired,
                 LoseMessage, vars
  <2> QED
    BY <2>1, <2>2, <2>3, <2>4, <2>5, <2>6, <2>7, <2>8, <2>9, <2>10 DEF Next, Step, Lifecycle!Next
<1> QED  BY Invariant, <1>1, <1>2, PTL DEF Spec, ImplementsLifecycle, Lifecycle!Spec

-----------------------------------------------------------------------------
(* The money: what the provider took, and what the row says of it. *)

\* What a notice says was true of its trade when the provider gave it, and the trade
\* has only gone on since.
Backed(n) == /\ n.status = "paid"   => trade[n.account] \in {"paid", "closed"}
             /\ n.status = "closed" => trade[n.account] = "closed"

\* The results handlers hold are the provider's, and past "apply" none is mispaid.
ServesNotice(h) == call[h].pc \notin {"idle", "provider", "bind", "bindNo"}
Held(h) == ServesNotice(h) => /\ Backed(Req(h))
                              /\ call[h].pc # "apply" => Req(h).status # "mispaid"

ResultsBacked == (\A n \in notices : Backed(n)) /\ (\A h \in Handlers : Held(h))
MoneyIInv == IInv /\ ResultsBacked /\ PaidMeansTaken /\ ClosedIsAnnouncedOnce

\* Money the provider took, and a trade it closed, stay so.
TradesGoOn ==
  \A a \in Accounts : /\ trade[a] = "paid" => trade'[a] \in {"paid", "closed"}
                      /\ trade[a] = "closed" => trade'[a] = "closed"

LEMMA NextTradesGoOn == ASSUME IInv, [Next]_vars PROVE TradesGoOn
<1>0. trade \in [Accounts -> Trades]
  BY DEF IInv, TypeOK
<1>1. ASSUME NEW a \in Accounts, NEW s \in Results, ProviderReports(a, s) PROVE TradesGoOn
  BY <1>0, <1>1 DEF ProviderReports, TradesGoOn
<1>2. ASSUME NEW h \in Handlers, ProviderOpens(h) PROVE TradesGoOn
  <2>1. Req(h).account \in Accounts
    BY <1>2 DEF ProviderOpens, IInv, HandlerInv, At, Req, Starts
  <2> QED  BY <1>0, <1>2, <2>1 DEF ProviderOpens, TradesGoOn
<1>3. ASSUME NEW h \in Handlers, Step(h), ~ProviderOpens(h) PROVE UNCHANGED trade
  BY <1>3 DEF Step, ApplyRejected, ApplyAccepted, ApplySelect, MarkPaidRead, MarkPaidUpdate,
     MarkPaidLost, MarkFailedRead, MarkFailedUpdate, MarkFailedLost, CloseWithoutEvent,
     RecordEvent, EnsureDelivery, InsertDelivery, Reply, BindSelection, BindProviderNo, world
<1>4. ASSUME Next, \A h \in Handlers : ~Step(h),
             \A a \in Accounts, s \in Results : ~ProviderReports(a, s)
      PROVE  UNCHANGED trade
  BY <1>4 DEF Next, Receive, StartPayment, Abort, UpdateOrder, CloseOrder, DeadlinePasses,
     ScanExpired, CloseExpired, LoseMessage, world
<1>5. CASE UNCHANGED trade
  BY <1>5 DEF TradesGoOn
<1> QED  BY <1>1, <1>2, <1>3, <1>4, <1>5 DEF vars

LEMMA BackedStays ==
  ASSUME TradesGoOn, NEW n \in Notices, Backed(n)
  PROVE  Backed(n)'
BY DEF TradesGoOn, Backed, Notices

\* A handler that serves a result after a step served the same one before it, or
\* has just received it; what it serves past "apply" was compared with the order.
LEMMA HandlerKeepsResult ==
  ASSUME IInv, [Next]_vars, NEW h \in Handlers, ServesNotice(h)'
  PROVE  \/ Req(h)' \in notices /\ call'[h].pc = "apply"
         \/ /\ Req(h)' = Req(h) /\ ServesNotice(h)
            /\ call'[h].pc # "apply" /\ call[h].pc = "apply" => Req(h).status # "mispaid"
<1>0. call \in [Handlers -> Calls]
  BY DEF IInv, TypeOK
<1>1. CASE call'[h] = call[h]
  BY <1>1 DEF ServesNotice, Req
<1>2. ASSUME NEW g \in Handlers, NEW n \in notices, Receive(g, n), g = h
      PROVE  Req(h)' \in notices /\ call'[h].pc = "apply"
  BY <1>0, <1>2 DEF Receive, Req
<1>3. ASSUME NEW g \in Handlers, g # h,
             Step(g) \/ Abort(g) \/ (\E n \in notices : Receive(g, n))
                     \/ (\E a \in Accounts : StartPayment(g, a))
      PROVE  call'[h] = call[h]
  BY <1>0, <1>3 DEF Step, ApplyRejected, ApplyAccepted, ApplySelect, MarkPaidRead, MarkPaidUpdate,
     MarkPaidLost, MarkFailedRead, MarkFailedUpdate, MarkFailedLost, CloseWithoutEvent,
     RecordEvent, EnsureDelivery, InsertDelivery, Reply, ProviderOpens, BindSelection,
     BindProviderNo, Abort, Receive, StartPayment, Goto, Finish
<1>g. ASSUME NEW p, Goto(h, p) PROVE call'[h].pc = p /\ Req(h)' = Req(h)
  BY <1>0, <1>g DEF Goto, Req, Calls
<1>f. Finish(h) => call'[h].pc = "idle"
  BY <1>0 DEF Finish, Idle
<1>4. ASSUME \/ Abort(h) \/ ApplyRejected(h) \/ Reply(h) \/ ProviderOpens(h) \/ BindSelection(h)
             \/ BindProviderNo(h) \/ \E a \in Accounts : StartPayment(h, a)
      PROVE  call'[h].pc \in {"idle", "provider", "bind", "bindNo"}
  <2>1. CASE Abort(h) \/ ApplyRejected(h) \/ Reply(h) \/ BindProviderNo(h)
    BY <1>f, <2>1 DEF Abort, ApplyRejected, Reply, BindProviderNo
  <2>2. CASE ProviderOpens(h) \/ BindSelection(h)
    BY <1>0, <2>2 DEF ProviderOpens, BindSelection, Calls
  <2>3. ASSUME NEW a \in Accounts, StartPayment(h, a) PROVE call'[h].pc = "provider"
    BY <1>0, <2>3 DEF StartPayment
  <2> QED  BY <1>4, <2>1, <2>2, <2>3
<1>5. CASE ApplyAccepted(h)
  <2>1. call[h].pc = "apply" /\ Req(h).status # "mispaid"
    BY <1>5 DEF ApplyAccepted, Accepts, At
  <2>2. Req(h)' = Req(h) /\ call'[h].pc # "apply"
    <3>1. CASE Unbound(order)
      BY <1>0, <1>5, <3>1 DEF ApplyAccepted, Req, Calls
    <3>2. CASE ~Unbound(order)
      <4>1. Dispatch(order, Req(h)) # "apply"
        BY <2>1 DEF Dispatch, IInv, HandlerInv, Req, Notices, Results
      <4> QED  BY <1>5, <1>g, <3>2, <4>1 DEF ApplyAccepted
    <3> QED  BY <3>1, <3>2
  <2> QED  BY <2>1, <2>2 DEF ServesNotice
<1>6. CASE \/ ApplySelect(h) \/ MarkPaidRead(h) \/ MarkPaidUpdate(h) \/ MarkPaidLost(h)
           \/ MarkFailedRead(h) \/ MarkFailedUpdate(h) \/ MarkFailedLost(h)
           \/ CloseWithoutEvent(h) \/ RecordEvent(h) \/ EnsureDelivery(h) \/ InsertDelivery(h)
  <2>1. call[h].pc # "apply" /\ ServesNotice(h)
    BY <1>6 DEF ApplySelect, MarkPaidRead, MarkPaidUpdate, MarkPaidLost, MarkFailedRead,
       MarkFailedUpdate, MarkFailedLost, CloseWithoutEvent, RecordEvent, EnsureDelivery,
       InsertDelivery, At, ServesNotice
  <2>2. CASE ApplySelect(h)
    <3>1. Dispatch(order, Req(h)) # "apply"
      BY <2>2 DEF ApplySelect, At, Dispatch, IInv, HandlerInv, Req, Notices, Results
    <3> QED  BY <1>g, <2>1, <2>2, <3>1 DEF ApplySelect
  <2>3. CASE ~ApplySelect(h)
    <3>1. \/ Finish(h)
          \/ \E p \in {"record", "casPaid", "casFailed", "reply", "deliver", "insert"} : Goto(h, p)
      BY <1>6, <2>3 DEF MarkPaidRead, MarkPaidUpdate, MarkPaidLost, MarkFailedRead,
         MarkFailedUpdate, MarkFailedLost, CloseWithoutEvent, RecordEvent, EnsureDelivery,
         InsertDelivery
    <3> QED  BY <1>f, <1>g, <2>1, <3>1 DEF ServesNotice
  <2> QED  BY <2>2, <2>3
<1>7. CASE UNCHANGED call
  BY <1>1, <1>7
<1>8. ASSUME \/ \E a \in Accounts, s \in Results : ProviderReports(a, s)
             \/ \E c, m \in Channels \cup {None} : UpdateOrder(c, m)
             \/ CloseOrder \/ DeadlinePasses \/ ScanExpired \/ CloseExpired \/ LoseMessage
             \/ UNCHANGED vars
      PROVE  UNCHANGED call
  BY <1>8 DEF ProviderReports, UpdateOrder, CloseOrder, DeadlinePasses, ScanExpired,
     CloseExpired, LoseMessage, vars
<1> QED  BY <1>1, <1>2, <1>3, <1>4, <1>5, <1>6, <1>7, <1>8 DEF Next, Step, ServesNotice

LEMMA NextResultsBacked ==
  ASSUME IInv, ResultsBacked, [Next]_vars
  PROVE  ResultsBacked'
<1>1. TradesGoOn /\ notices \subseteq Notices /\ IInv'
  BY NextTradesGoOn, NextIInv DEF IInv, TypeOK
<1>2. \A n \in notices' : Backed(n)'
  <2>1. ASSUME NEW a \in Accounts, NEW s \in Results, ProviderReports(a, s)
        PROVE  \A n \in notices' : n \in notices \/ Backed(n)'
    BY <2>1 DEF ProviderReports, Backed, IInv, TypeOK
  <2>2. ASSUME [Next]_vars, \A a \in Accounts, s \in Results : ~ProviderReports(a, s)
        PROVE  notices' \subseteq notices
    BY <2>2 DEF Next, Step, ApplyRejected, ApplyAccepted, ApplySelect, MarkPaidRead, MarkPaidUpdate,
     MarkPaidLost, MarkFailedRead, MarkFailedUpdate, MarkFailedLost, CloseWithoutEvent,
     RecordEvent, EnsureDelivery, InsertDelivery, Reply, ProviderOpens, BindSelection, BindProviderNo,
     Receive, StartPayment, Abort, UpdateOrder, CloseOrder, DeadlinePasses,
     ScanExpired, CloseExpired, LoseMessage, world, vars
  <2>3. \A n \in notices : Backed(n)'
    BY <1>1, BackedStays DEF ResultsBacked
  <2> QED  BY <2>1, <2>2, <2>3
<1>3. ASSUME NEW h \in Handlers PROVE Held(h)'
  <2>1. SUFFICES ASSUME ServesNotice(h)'
                 PROVE  Backed(Req(h))' /\ (call'[h].pc # "apply" => Req(h)'.status # "mispaid")
    BY DEF Held
  <2>2. CASE Req(h)' \in notices /\ call'[h].pc = "apply"
    <3>1. \A n \in notices : Backed(n)'
      BY <1>1, BackedStays DEF ResultsBacked
    <3> QED  BY <2>2, <3>1 DEF Backed
  <2>3. CASE /\ Req(h)' = Req(h) /\ ServesNotice(h)
             /\ call'[h].pc # "apply" /\ call[h].pc = "apply" => Req(h).status # "mispaid"
    <3>1. Req(h) \in Notices
      BY <2>3 DEF IInv, TypeOK, HandlerInv, ServesNotice, Req, Calls, Pcs
    <3>2. Backed(Req(h)) /\ (call[h].pc # "apply" => Req(h).status # "mispaid")
      BY <2>3 DEF ResultsBacked, Held
    <3>3. trade' = trade' /\ \A n \in Notices : Backed(n) => Backed(n)'
      BY <1>1, BackedStays
    <3> QED  BY <2>3, <3>1, <3>2, <3>3 DEF Backed
  <2> QED  BY <2>1, <2>2, <2>3, HandlerKeepsResult
<1> QED  BY <1>2, <1>3 DEF ResultsBacked

\* What a step can do to the row: pay it with a trade that was paid, close it for a
\* trade that was closed, or leave both to be what they were.
LEMMA NextMoney ==
  ASSUME IInv, ResultsBacked, [Next]_vars
  PROVE  \/ order'.status = order.status /\ order'.trade = order.trade
         \/ /\ order.status \in {"pending", "failed"} /\ order'.status = "paid"
            /\ order'.trade \in Accounts /\ trade'[order'.trade] \in {"paid", "closed"}
         \/ order.status \in {"pending", "failed"} /\ order'.status \in {"failed", "closed"}
<1> USE ConstantsAssumption DEF store
<1>0. order \in Orders
  BY DEF IInv, TypeOK
<1>1. ASSUME NEW h \in Handlers, MarkPaidUpdate(h)
      PROVE  /\ order.status \in {"pending", "failed"} /\ order'.status = "paid"
             /\ order'.trade \in Accounts /\ trade'[order'.trade] \in {"paid", "closed"}
  <2>1. Req(h) \in Notices /\ Req(h).status = "paid" /\ Backed(Req(h))
    BY <1>1 DEF MarkPaidUpdate, At, Req, IInv, HandlerInv, ResultsBacked, Held, ServesNotice
  <2> QED  BY <1>0, <1>1, <2>1 DEF MarkPaidUpdate, Backed, Notices, Orders, world
<1>2. ASSUME NEW h \in Handlers, MarkFailedUpdate(h) \/ CloseWithoutEvent(h)
      PROVE  \/ order'.status = order.status /\ order'.trade = order.trade
             \/ order.status \in {"pending", "failed"} /\ order'.status \in {"failed", "closed"}
  BY <1>0, <1>2 DEF MarkFailedUpdate, CloseWithoutEvent, Orders
<1>3. ASSUME NEW h \in Handlers, ApplySelect(h) \/ BindSelection(h) \/ BindProviderNo(h)
      PROVE  order'.status = order.status /\ order'.trade = order.trade
  BY <1>0, <1>3 DEF ApplySelect, BindSelection, BindProviderNo, Select, Orders
<1>4. ASSUME NEW h \in Handlers,
             \/ ApplyRejected(h) \/ ApplyAccepted(h) \/ MarkPaidRead(h) \/ MarkPaidLost(h)
             \/ MarkFailedRead(h) \/ MarkFailedLost(h) \/ RecordEvent(h) \/ EnsureDelivery(h)
             \/ InsertDelivery(h) \/ Reply(h) \/ ProviderOpens(h)
      PROVE  order' = order
  BY <1>4 DEF ApplyRejected, ApplyAccepted, MarkPaidRead, MarkPaidLost, MarkFailedRead,
     MarkFailedLost, RecordEvent, EnsureDelivery, InsertDelivery, Reply, ProviderOpens
<1>5. ASSUME CloseOrder \/ CloseExpired
      PROVE  \/ order' = order
             \/ order.status \in {"pending", "failed"} /\ order'.status \in {"failed", "closed"}
  BY <1>0, <1>5 DEF CloseOrder, CloseExpired, Orders
<1>6. ASSUME NEW c \in Channels \cup {None}, NEW m \in Channels \cup {None}, UpdateOrder(c, m)
      PROVE  order'.status = order.status /\ order'.trade = order.trade
  BY <1>0, <1>6 DEF UpdateOrder, Orders
<1>7. ASSUME \/ \E a \in Accounts, s \in Results : ProviderReports(a, s)
             \/ \E h \in Handlers, n \in notices : Receive(h, n)
             \/ \E h \in Handlers, a \in Accounts : StartPayment(h, a)
             \/ \E h \in Handlers : Abort(h)
             \/ DeadlinePasses \/ ScanExpired \/ LoseMessage \/ UNCHANGED vars
      PROVE  order' = order
  BY <1>7 DEF ProviderReports, Receive, StartPayment, Abort, DeadlinePasses, ScanExpired,
     LoseMessage, vars
<1> QED  BY <1>1, <1>2, <1>3, <1>4, <1>5, <1>6, <1>7 DEF Next, Step

LEMMA NextPaidMeansTaken ==
  ASSUME IInv, ResultsBacked, PaidMeansTaken, [Next]_vars
  PROVE  PaidMeansTaken'
<1>1. TradesGoOn /\ order \in Orders
  BY NextTradesGoOn DEF IInv, TypeOK
<1> QED
  BY <1>1, NextMoney, ConstantsAssumption DEF PaidMeansTaken, TradesGoOn, Orders

\* The events that close an order.
Closing == {"order.closed", "order.expired"}

LEMMA NextClosedIsAnnouncedOnce ==
  ASSUME IInv, ResultsBacked, ClosedIsAnnouncedOnce, [Next]_vars
  PROVE  ClosedIsAnnouncedOnce'
<1> USE DEF store
<1>0. order \in Orders /\ AnnouncementsAgree /\ TradesGoOn
  BY NextTradesGoOn DEF IInv, TypeOK
<1>1. ASSUME events' \cap Closing = events \cap Closing, deliveries \subseteq deliveries',
             order'.status = "closed" => order.status = "closed"
      PROVE  ClosedIsAnnouncedOnce'
  BY <1>0, <1>1 DEF ClosedIsAnnouncedOnce, Closing, TradesGoOn
<1>2. ASSUME NEW h \in Handlers, CloseWithoutEvent(h) PROVE ClosedIsAnnouncedOnce'
  <2>1. Req(h) \in Notices /\ Backed(Req(h)) /\ Req(h).status = "closed"
    BY <1>2 DEF CloseWithoutEvent, At, Req, IInv, HandlerInv, ResultsBacked, Held, ServesNotice
  <2>2. \E a \in Accounts : trade'[a] = "closed"
    BY <1>2, <2>1 DEF CloseWithoutEvent, Backed, Notices, world
  <2> QED  BY <1>2, <2>2 DEF CloseWithoutEvent, ClosedIsAnnouncedOnce
<1>3. CASE CloseOrder
  BY <1>0, <1>3 DEF CloseOrder, ClosedIsAnnouncedOnce, AnnouncementsAgree, Orders
<1>4. CASE CloseExpired
  BY <1>0, <1>1, <1>4 DEF CloseExpired, ClosedIsAnnouncedOnce, AnnouncementsAgree, Orders
<1>5. ASSUME NEW h \in Handlers, RecordEvent(h) PROVE ClosedIsAnnouncedOnce'
  BY <1>1, <1>5 DEF RecordEvent, EventOf, Closing
<1>6. ASSUME NEW h \in Handlers, MarkPaidUpdate(h) \/ MarkFailedUpdate(h) PROVE ClosedIsAnnouncedOnce'
  BY <1>0, <1>1, <1>6 DEF MarkPaidUpdate, MarkFailedUpdate, Orders
<1>7. ASSUME NEW h \in Handlers, ApplySelect(h) \/ BindSelection(h) \/ BindProviderNo(h)
      PROVE  ClosedIsAnnouncedOnce'
  BY <1>0, <1>1, <1>7 DEF ApplySelect, BindSelection, BindProviderNo, Select, Orders
<1>8. ASSUME NEW h \in Handlers,
             \/ ApplyRejected(h) \/ ApplyAccepted(h) \/ MarkPaidRead(h) \/ MarkPaidLost(h)
             \/ MarkFailedRead(h) \/ MarkFailedLost(h) \/ EnsureDelivery(h) \/ InsertDelivery(h)
             \/ Reply(h) \/ ProviderOpens(h)
      PROVE  order' = order /\ events' = events /\ deliveries \subseteq deliveries'
  BY <1>8 DEF ApplyRejected, ApplyAccepted, MarkPaidRead, MarkPaidLost, MarkFailedRead,
     MarkFailedLost, EnsureDelivery, InsertDelivery, Reply, ProviderOpens
<1>9. ASSUME NEW c \in Channels \cup {None}, NEW m \in Channels \cup {None}, UpdateOrder(c, m)
      PROVE  ClosedIsAnnouncedOnce'
  BY <1>0, <1>1, <1>9 DEF UpdateOrder, Orders
<1>10. ASSUME \/ \E a \in Accounts, s \in Results : ProviderReports(a, s)
              \/ \E h \in Handlers, n \in notices : Receive(h, n)
              \/ \E h \in Handlers, a \in Accounts : StartPayment(h, a)
              \/ \E h \in Handlers : Abort(h)
              \/ DeadlinePasses \/ ScanExpired \/ LoseMessage \/ UNCHANGED vars
       PROVE  order' = order /\ events' = events /\ deliveries \subseteq deliveries'
  BY <1>10 DEF ProviderReports, Receive, StartPayment, Abort, DeadlinePasses, ScanExpired,
     LoseMessage, vars
<1> QED
  BY <1>1, <1>2, <1>3, <1>4, <1>5, <1>6, <1>7, <1>8, <1>9, <1>10 DEF Next, Step

LEMMA MoneyInvariant == Spec => []MoneyIInv
<1>1. Init => ResultsBacked /\ PaidMeansTaken /\ ClosedIsAnnouncedOnce
  BY DEF Init, ResultsBacked, Held, ServesNotice, Idle, PaidMeansTaken, ClosedIsAnnouncedOnce
<1>2. MoneyIInv /\ [Next]_vars => MoneyIInv'
  BY NextIInv, NextResultsBacked, NextPaidMeansTaken, NextClosedIsAnnouncedOnce DEF MoneyIInv
<1> QED  BY <1>1, <1>2, InitIInv, PTL DEF Spec, MoneyIInv

\* A paid order was paid by a trade the provider took the money for, in the amount
\* of the order (ApplyPaymentResult, MarkPaid).
THEOREM PaidWasTaken == Spec => []PaidMeansTaken
<1>1. MoneyIInv => PaidMeansTaken
  BY DEF MoneyIInv
<1> QED  BY MoneyInvariant, <1>1, PTL

\* A closed order has exactly one closing event, or the provider closed its trade.
THEOREM ClosedOnce == Spec => []ClosedIsAnnouncedOnce
<1>1. MoneyIInv => ClosedIsAnnouncedOnce
  BY DEF MoneyIInv
<1> QED  BY MoneyInvariant, <1>1, PTL

\* The trade that paid an order is never replaced by another.
THEOREM PayingTrade == Spec => PayingTradeIsFinal
<1>1. MoneyIInv /\ [Next]_vars => [order.status = "paid" => order'.trade = order.trade]_vars
  BY NextMoney DEF MoneyIInv
<1> QED  BY <1>1, MoneyInvariant, PTL DEF Spec, PayingTradeIsFinal

-----------------------------------------------------------------------------
(* What holds in place of BoundIsNotExpired. *)

\* The order was bound while no message to expire it was on its way.
BoundInTime == ProviderBound(order) /\ queue = 0

StaysBound == BoundInTime => BoundInTime' /\ ~("order.expired" \in events' \ events)

LEMMA NextStaysBound == ASSUME IInv, [Next]_vars PROVE StaysBound
<1> USE ConstantsAssumption DEF store, world, budget
<1>0. order \in Orders /\ call \in [Handlers -> Calls] /\ \A h \in Handlers : HandlerInv(h)
  BY DEF IInv, TypeOK
<1> SUFFICES ASSUME BoundInTime PROVE BoundInTime' /\ ~("order.expired" \in events' \ events)
  BY DEF StaysBound
<1>1. ASSUME order'.account # None, order'.providerNo # None, queue' = queue,
             ~("order.expired" \in events' \ events)
      PROVE  BoundInTime' /\ ~("order.expired" \in events' \ events)
  BY <1>1 DEF BoundInTime, ProviderBound
<1> DEFINE Bound == order'.account # None /\ order'.providerNo # None
           Quiet == queue' = queue /\ ~("order.expired" \in events' \ events)
<1>b. order' = order => Bound
  BY DEF BoundInTime, ProviderBound
<1>2. ASSUME NEW h \in Handlers, Step(h) PROVE Bound /\ Quiet
  <2>1. CASE ApplySelect(h)
    <3>1. Req(h).account \in Accounts
      BY <1>0, <2>1 DEF ApplySelect, HandlerInv, At, Req, Notices
    <3> QED  BY <1>0, <2>1, <3>1 DEF ApplySelect, Select, Orders, BoundInTime, ProviderBound
  <2>2. CASE BindSelection(h) \/ BindProviderNo(h)
    <3>1. Req(h).account \in Accounts
      BY <1>0, <2>2 DEF BindSelection, BindProviderNo, HandlerInv, At, Req, Starts
    <3> QED
      BY <1>0, <2>2, <3>1
         DEF BindSelection, BindProviderNo, Select, Orders, BoundInTime, ProviderBound
  <2>3. CASE MarkPaidUpdate(h) \/ MarkFailedUpdate(h) \/ CloseWithoutEvent(h)
    BY <1>0, <2>3 DEF MarkPaidUpdate, MarkFailedUpdate, CloseWithoutEvent, Orders, BoundInTime, ProviderBound
  <2>4. CASE RecordEvent(h)
    BY <1>b, <2>4 DEF RecordEvent, EventOf
  <2>5. CASE \/ ApplyRejected(h) \/ ApplyAccepted(h) \/ MarkPaidRead(h) \/ MarkPaidLost(h)
             \/ MarkFailedRead(h) \/ MarkFailedLost(h)
    BY <1>b, <2>5 DEF ApplyRejected, ApplyAccepted, MarkPaidRead, MarkPaidLost, MarkFailedRead,
       MarkFailedLost
  <2>6. CASE EnsureDelivery(h) \/ InsertDelivery(h) \/ Reply(h) \/ ProviderOpens(h)
    BY <1>b, <2>6 DEF EnsureDelivery, InsertDelivery, Reply, ProviderOpens
  <2> QED  BY <1>2, <2>1, <2>2, <2>3, <2>4, <2>5, <2>6 DEF Step
<1>3. ASSUME NEW h \in Handlers,
             \/ Abort(h) \/ (\E n \in notices : Receive(h, n)) \/ (\E a \in Accounts : StartPayment(h, a))
      PROVE  Bound /\ Quiet
  BY <1>b, <1>3 DEF Abort, Receive, StartPayment
<1>4. ASSUME NEW a \in Accounts, NEW s \in Results, ProviderReports(a, s) PROVE Bound /\ Quiet
  BY <1>b, <1>4 DEF ProviderReports
<1>5. ASSUME NEW c \in Channels \cup {None}, NEW m \in Channels \cup {None}, UpdateOrder(c, m)
      PROVE  Bound /\ Quiet
  BY <1>0, <1>5 DEF UpdateOrder, Orders, BoundInTime, ProviderBound
<1>6. CASE CloseOrder \/ DeadlinePasses
  BY <1>0, <1>b, <1>1, <1>6 DEF CloseOrder, DeadlinePasses, Orders, BoundInTime, ProviderBound
<1>7. CASE ScanExpired \/ CloseExpired \/ LoseMessage
  BY <1>7 DEF ScanExpired, CloseExpired, LoseMessage, BoundInTime
<1>8. CASE UNCHANGED vars
  BY <1>b, <1>1, <1>8 DEF vars
<1> QED  BY <1>1, <1>2, <1>3, <1>4, <1>5, <1>6, <1>7, <1>8 DEF Next

\* An order that is bound while no message to expire it is on its way is never expired,
\* and never asked for by the scanner again: a message written before the binding is all
\* that makes the worker close a bound order (ScanExpiredPendingOrders, CloseExpiredPending).
THEOREM BoundInTimeIsNotExpired == Spec => [][StaysBound]_vars
<1>1. IInv /\ [Next]_vars => [StaysBound]_vars
  BY NextStaysBound
<1> QED  BY <1>1, Invariant, PTL DEF Spec

=============================================================================
