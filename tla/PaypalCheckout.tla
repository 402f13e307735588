--------------------------- MODULE PaypalCheckout ----------------------------
(***************************************************************************)
(* A payment order that is paid with PayPal.  Every start of a payment     *)
(* creates a new order at PayPal; the row keeps the number of one of them  *)
(* and the payer who comes back with a number is checked against it before *)
(* the money is captured.  The status of the row is looked at when a       *)
(* payment starts and when a result is applied, not in between.  Notices   *)
(* and the reconciliation worker apply what PayPal captured.  What else    *)
(* races on the status is the subject of PaymentOrders.                    *)
(***************************************************************************)
EXTENDS Naturals, FiniteSets

CONSTANTS
  Visits,          \* requests of the payer's browser served at the same time
  Numbers,         \* the orders PayPal can create for this payment order
  NoNumber,        \* an empty provider_order_no
  MaxVisitFaults   \* bound: failed calls, crashes, lost answers

ASSUME PaypalAssumption == NoNumber \notin Numbers /\ MaxVisitFaults \in Nat

VARIABLES
  bill,        \* the row of payment_orders
  paypal,      \* what became of each order at PayPal
  links,       \* approval links the payer was given
  visit,       \* per request, how far it is
  everStored,  \* history: numbers the row ever held
  overlapped,  \* history: two starts were under way that both read no number
  visitFaults

paypalVars == <<bill, paypal, links, visit, everStored, overlapped, visitFaults>>
past == <<everStored, overlapped>>

-----------------------------------------------------------------------------
Optional == Numbers \cup {NoNumber}
Bills  == [status : {"pending", "paid", "closed"}, number : Optional, paidBy : Optional]
Away   == [at |-> "idle", saw |-> NoNumber, number |-> NoNumber]
\* A request learns its number from PayPal, or from the payer who comes back.
Visit  == {Away} \cup [at : {"create"}, saw : Optional, number : {NoNumber}]
            \cup [at : {"store", "link", "capture", "apply"}, saw : Optional, number : Numbers]

VisitAt(v, p)  == visit[v].at = p
Proceed(v, p)  == visit' = [visit EXCEPT ![v].at = p]
Leave(v)       == visit' = [visit EXCEPT ![v] = Away]
\* A start that read a row without a number and may still store one.
WillStore(v)   == visit[v].at \in {"create", "store"} /\ visit[v].saw = NoNumber

PaypalInit ==
  /\ bill = [status |-> "pending", number |-> NoNumber, paidBy |-> NoNumber]
  /\ paypal = [n \in Numbers |-> "none"]
  /\ links = {}
  /\ visit = [v \in Visits |-> Away]
  /\ everStored = {} /\ overlapped = FALSE /\ visitFaults = 0

-----------------------------------------------------------------------------
(* CheckoutHandler.StartPayment. *)

\* The row is read once, for the status and for the number.
StartVisit(v) ==
  /\ VisitAt(v, "idle") /\ bill.status = "pending"
  /\ visit' = [visit EXCEPT ![v] = [at |-> "create", saw |-> bill.number, number |-> NoNumber]]
  /\ overlapped' = \/ overlapped
                   \/ bill.number = NoNumber /\ \E u \in Visits : WillStore(u)
  /\ UNCHANGED <<bill, paypal, links, everStored, visitFaults>>

\* Mutant: the number in the answer is not read.
CreateUnnumbered(v) ==
  /\ VisitAt(v, "create")
  /\ \E n \in Numbers : paypal[n] = "none" /\ paypal' = [paypal EXCEPT ![n] = "created"]
  /\ Proceed(v, "store")
  /\ UNCHANGED <<bill, links, past, visitFaults>>

CreatePaypalOrder(v) ==
  /\ VisitAt(v, "create")
  /\ \E n \in Numbers :
       /\ paypal[n] = "none" /\ paypal' = [paypal EXCEPT ![n] = "created"]
       /\ visit' = [visit EXCEPT ![v].at = "store", ![v].number = n]
  /\ UNCHANGED <<bill, links, past, visitFaults>>

\* Mutant: the last number is stored.
StoreLastNumber(v) ==
  /\ VisitAt(v, "store") /\ Proceed(v, "link")
  /\ bill' = [bill EXCEPT !.number = visit[v].number]
  /\ everStored' = everStored \cup {visit[v].number}
  /\ UNCHANGED <<paypal, links, overlapped, visitFaults>>

\* SetProviderOrderNo, if the row that was read had none.
StoreNumber(v) ==
  /\ VisitAt(v, "store") /\ Proceed(v, "link")
  /\ IF visit[v].saw = NoNumber
       THEN /\ bill' = [bill EXCEPT !.number = visit[v].number]
            /\ everStored' = everStored \cup {visit[v].number}
       ELSE UNCHANGED <<bill, everStored>>
  /\ UNCHANGED <<paypal, links, overlapped, visitFaults>>

AnswerLink(v) ==
  /\ VisitAt(v, "link") /\ Leave(v)
  /\ links' = links \cup {visit[v].number}
  /\ UNCHANGED <<bill, paypal, past, visitFaults>>

-----------------------------------------------------------------------------
(* The payer at PayPal, and CheckoutHandler.CompletePaypalPayment. *)

Approve(n) ==
  /\ n \in links /\ paypal[n] = "created"
  /\ paypal' = [paypal EXCEPT ![n] = "approved"]
  /\ UNCHANGED <<bill, links, visit, past, visitFaults>>

\* Mutant: the number the payer comes back with is not compared.
ReturnWithAnyNumber(v, n) ==
  /\ VisitAt(v, "idle") /\ n \in links
  /\ visit' = [visit EXCEPT ![v] = [at |-> "capture", saw |-> bill.number, number |-> n]]
  /\ UNCHANGED <<bill, paypal, links, past, visitFaults>>

\* The payer comes back, once or more often, and is refused with another number than
\* the one of the row.
ReturnFromPaypal(v, n) ==
  /\ VisitAt(v, "idle") /\ n \in links
  /\ bill.number \in {NoNumber, n}
  /\ visit' = [visit EXCEPT ![v] = [at |-> "capture", saw |-> bill.number, number |-> n]]
  /\ UNCHANGED <<bill, paypal, links, past, visitFaults>>

\* PayPal refuses to capture what was not approved, and to capture twice.
Capture(v) ==
  /\ VisitAt(v, "capture")
  /\ IF paypal[visit[v].number] = "approved"
       THEN /\ paypal' = [paypal EXCEPT ![visit[v].number] = "captured"]
            /\ Proceed(v, "apply")
       ELSE Leave(v) /\ UNCHANGED paypal
  /\ UNCHANGED <<bill, links, past, visitFaults>>

\* ApplyPaymentResult with a result that is paid: only a pending order takes it.
Settle(n) ==
  bill' = IF bill.status = "pending" THEN [bill EXCEPT !.status = "paid", !.paidBy = n] ELSE bill

ApplyCapture(v) ==
  /\ VisitAt(v, "apply") /\ Leave(v) /\ Settle(visit[v].number)
  /\ UNCHANGED <<paypal, links, past, visitFaults>>

-----------------------------------------------------------------------------
\* Mutant: an approved order counts as paid.
NoticeOfApproval(n) ==
  /\ paypal[n] \in {"approved", "captured"} /\ Settle(n)
  /\ UNCHANGED <<paypal, links, visit, past, visitFaults>>

\* A notice of PayPal: it names the payment order (custom_id), so a capture of any
\* number counts.  What was only approved is pending.
NoticeArrives(n) ==
  /\ paypal[n] = "captured" /\ Settle(n)
  /\ UNCHANGED <<paypal, links, visit, past, visitFaults>>

\* The reconciliation worker asks for the number of the row.
QueryStored ==
  /\ bill.number # NoNumber /\ bill.status = "pending"
  /\ paypal[bill.number] = "captured" /\ Settle(bill.number)
  /\ UNCHANGED <<paypal, links, visit, past, visitFaults>>

\* The order is closed, or expires.
CloseBill ==
  /\ bill.status = "pending" /\ bill' = [bill EXCEPT !.status = "closed"]
  /\ UNCHANGED <<paypal, links, visit, past, visitFaults>>

\* A call fails, the process dies or the answer is lost; PayPal may have created
\* the order before.
VisitFails(v) ==
  /\ ~VisitAt(v, "idle") /\ Leave(v)
  /\ visitFaults < MaxVisitFaults /\ visitFaults' = visitFaults + 1
  /\ UNCHANGED <<bill, paypal, links, past>>

-----------------------------------------------------------------------------
VisitStep(v) ==
  \/ CreatePaypalOrder(v) \/ StoreNumber(v) \/ AnswerLink(v)
  \/ Capture(v) \/ ApplyCapture(v)

PaypalNext ==
  \/ \E v \in Visits : StartVisit(v) \/ VisitStep(v) \/ VisitFails(v)
  \/ \E v \in Visits, n \in Numbers : ReturnFromPaypal(v, n)
  \/ \E n \in Numbers : Approve(n) \/ NoticeArrives(n)
  \/ QueryStored \/ CloseBill

PaypalSpec == PaypalInit /\ [][PaypalNext]_paypalVars

-----------------------------------------------------------------------------
(* Properties. *)

\* Every variable holds what its column or request may hold.
PaypalTypeOK ==
  /\ bill \in Bills
  /\ paypal \in [Numbers -> {"none", "created", "approved", "captured"}]
  /\ links \subseteq Numbers
  /\ visit \in [Visits -> Visit]
  /\ everStored \subseteq Numbers
  /\ overlapped \in BOOLEAN
  /\ visitFaults \in 0..MaxVisitFaults

Captured == {n \in Numbers : paypal[n] = "captured"}

\* Money is captured only for a number the row held, however starts, returns,
\* crashes and closes interleave: the numbers of later starts stay uncaptured.
CapturedWasStored == Captured \subseteq everStored

\* As long as the first start stored its number before the next one read the row,
\* the payer is charged at most once.
ChargedOnce == ~overlapped => \A m, n \in Captured : m = n

\* The order is paid by money that was captured, and its refunds will find it: an
\* approval alone does not pay.
PaidByCapture == bill.status = "paid" => bill.paidBy \in Captured

=============================================================================
