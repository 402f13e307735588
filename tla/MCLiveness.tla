----------------------------- MODULE MCLiveness ------------------------------
(* One small instance for TLC of what Reconciliation and Refunds owe in the  *)
(* end.  They share no state: the first state chooses the component that     *)
(* takes the steps.                                                          *)
EXTENDS Reconciliation, TLC

CONSTANTS None, h1, h2, r1, w1, w2

VARIABLES
  part,  \* the component that takes the steps
  refund, provider, events, stream, handling, refundFaults, refundRetries  \* of Refunds

refundVars == <<refund, provider, events, stream, handling, refundFaults, refundRetries>>

-----------------------------------------------------------------------------
\* Two workers for one record.
TwoWorkers == {w1, w2}

\* Two handlers for one refund.
R == INSTANCE Refunds WITH
       call <- handling, faults <- refundFaults, retries <- refundRetries,
       Handlers <- {h1, h2}, Refunds <- {r1}, Amount <- r1 :> 2, Paid <- 3,
       MaxAttempts <- 4, MaxFaults <- 2, MaxRetries <- 1

-----------------------------------------------------------------------------
LivenessInit ==
  /\ part \in {"record", "refund"}
  /\ Init /\ (part = "refund" => channel = "wechat" /\ ~expired)
  /\ R!Init

\* The steps of the component that was chosen.
LivenessNext ==
  /\ UNCHANGED part
  /\ \/ part = "record" /\ Next /\ UNCHANGED refundVars
     \/ part = "refund" /\ R!Next /\ UNCHANGED vars

\* The fairness of both components, each for the case that it takes the steps.
RecordFairness ==
  /\ WF_vars(part = "record" /\ EnsureForOrder) /\ WF_vars(part = "record" /\ TimePasses)
  /\ WF_vars(part = "record" /\ ScanDue) /\ WF_vars(part = "record" /\ RecoverStale)
  /\ WF_vars(part = "record" /\ DeadlinePasses)
  /\ WF_vars(part = "record" /\ \E w \in Workers : Claim(w))
  /\ \A w \in Workers : WF_vars(part = "record" /\ Step(w))

RefundFairness ==
  /\ \A h \in {h1, h2} : WF_refundVars(part = "refund" /\ R!Step(h))
  /\ WF_refundVars(part = "refund" /\ R!TimePasses(r1))
  /\ WF_refundVars(part = "refund" /\ R!ScanDue(r1))
  /\ SF_refundVars(part = "refund" /\ \E h \in {h1, h2} : R!Process(h, r1))

LivenessSpec ==
  /\ LivenessInit /\ [][LivenessNext]_<<part, vars, refundVars>>
  /\ RecordFairness /\ RefundFairness

-----------------------------------------------------------------------------
\* RecordEnds and BoundOrderIsDecided of Reconciliation, SuccessIsLearned of Refunds.
RecordIsEnded   == part = "record" => RecordEnds
OrderIsDecided  == part = "record" => BoundOrderIsDecided
SuccessIsLearned == part = "refund" => R!SuccessIsLearned

=============================================================================
