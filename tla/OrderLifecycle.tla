--------------------------- MODULE OrderLifecycle ---------------------------
(***************************************************************************)
(* What the gateway promises a merchant about one payment order, whatever  *)
(* calls race on it: the statuses it moves through, and the webhook events *)
(* it announces.  PaymentOrders implements this module.                    *)
(***************************************************************************)

VARIABLES
  status,       \* pending, paid, failed or closed
  everFailed,   \* whether the order was ever reported as failed (failed_at)
  announced     \* the types of the webhook events that exist for the order

vars == <<status, everFailed, announced>>

Statuses     == {"pending", "paid", "failed", "closed"}
EventTypes   == {"payment.succeeded", "payment.failed", "order.closed", "order.expired"}
ClosingTypes == {"order.closed", "order.expired"}

TypeOK == /\ status \in Statuses
          /\ everFailed \in BOOLEAN
          /\ announced \subseteq EventTypes

Init == /\ status = "pending"
        /\ everFailed = FALSE
        /\ announced = {}

\* A failed attempt may be followed by a successful one; a closed order is never paid.
Pay == /\ status \in {"pending", "failed"}
       /\ status' = "paid"
       /\ UNCHANGED <<everFailed, announced>>

FailPayment == /\ status = "pending"
               /\ status' = "failed"
               /\ everFailed' = TRUE
               /\ UNCHANGED announced

\* An intentional close is announced in the transaction that closes the order.
Close == /\ status \in {"pending", "failed"}
         /\ status' = "closed"
         /\ announced' = announced \cup {"order.closed"}
         /\ UNCHANGED everFailed

\* Only a pending order expires, and it is announced in the same transaction.
Expire == /\ status = "pending"
          /\ status' = "closed"
          /\ announced' = announced \cup {"order.expired"}
          /\ UNCHANGED everFailed

\* A close the provider reported is not announced.
CloseQuietly == /\ status \in {"pending", "failed"}
                /\ status' = "closed"
                /\ UNCHANGED <<everFailed, announced>>

\* The payment events follow the status change, in a step of their own.
AnnouncePaid == /\ status = "paid"
                /\ announced' = announced \cup {"payment.succeeded"}
                /\ UNCHANGED <<status, everFailed>>

AnnounceFailed == /\ everFailed
                  /\ announced' = announced \cup {"payment.failed"}
                  /\ UNCHANGED <<status, everFailed>>

Next == \/ Pay \/ FailPayment \/ Close \/ Expire \/ CloseQuietly
        \/ AnnouncePaid \/ AnnounceFailed

Spec == Init /\ [][Next]_vars

=============================================================================
