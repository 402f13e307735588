------------------------------- MODULE Refunds -------------------------------
(***************************************************************************)
(* The refunds of one paid order: the requests of the merchant, which      *)
(* reserve an amount in a transaction and then call the provider, the      *)
(* scanner, the stream and the workers that repeat the call until the      *)
(* refund is settled, and the retries of the administrator.                *)
(*                                                                         *)
(* A handler is a request or a worker.  It reads the refund, calls the     *)
(* provider and writes the answer, each in a step of its own, so a write   *)
(* may be based on a row and an answer that are stale by then.             *)
(***************************************************************************)
EXTENDS Integers, FiniteSets, FiniteSetsExt

CONSTANTS
  Handlers,     \* requests and workers at work at the same time
  Refunds,      \* the refunds the merchant asks for, by merchant_refund_no
  Amount,       \* the amount of each
  Paid,         \* the amount of the order
  None,         \* no refund
  MaxAttempts,  \* 8 in the code
  MaxFaults,    \* bound: failed calls, crashes, lost messages
  MaxRetries    \* bound: retries of the administrator

ASSUME RefundsAssumption ==
  /\ IsFiniteSet(Refunds)
  /\ Amount \in [Refunds -> Nat \ {0}] /\ Paid \in Nat
  /\ None \notin Refunds
  /\ MaxAttempts \in Nat \ {0} /\ MaxFaults \in Nat /\ MaxRetries \in Nat

VARIABLES
  refund,    \* the rows of the table refunds
  provider,  \* what became of each refund_no at the provider
  events,    \* webhook_events of each refund
  stream,    \* refunds with a message in refund:processing
  call,      \* per handler, the refund it serves and how far it is
  faults, retries

vars == <<refund, provider, events, stream, call, faults, retries>>
budget == <<faults, retries>>

-----------------------------------------------------------------------------
Statuses   == {"none", "pending", "succeeded", "failed"}
Fates      == {"none", "processing", "succeeded", "mismatched", "failed"}
EventTypes == {"refund.succeeded", "refund.failed"}
\* next_attempt_at: empty, in the future, or due.
Rows == [status : Statuses, channelNo : BOOLEAN, attempts : Nat,
         next : {"none", "later", "due"}]
NoRow == [status |-> "none", channelNo |-> FALSE, attempts |-> 0, next |-> "none"]

Calls == [pc : {"idle", "provider", "apply", "retry", "event"},
          refund : Refunds \cup {None}, seen : Rows, worker : BOOLEAN,
          answer : Fates \cup {"error"}]
Idle  == [pc |-> "idle", refund |-> None, seen |-> NoRow, worker |-> FALSE,
          answer |-> "none"]

Amounts(S) == MapThenSumSet(LAMBDA r : Amount[r], S)

\* Mutant: a pending refund does not reserve.
ReservedIfSucceeded == {r \in Refunds : refund[r].status = "succeeded"}

\* The refunds that count against the amount of the order.
Reserved == {r \in Refunds : refund[r].status \in {"pending", "succeeded"}}

At(h, p)  == call[h].pc = p
Of(h)     == call[h].refund
Finish(h) == call' = [call EXCEPT ![h] = Idle]
Serve(h, r, w) == call' = [call EXCEPT ![h] =
  [pc |-> "provider", refund |-> r, seen |-> refund'[r], worker |-> w, answer |-> "none"]]

Init ==
  /\ refund = [r \in Refunds |-> NoRow]
  /\ provider = [r \in Refunds |-> "none"]
  /\ events = [r \in Refunds |-> {}]
  /\ stream = {}
  /\ call = [h \in Handlers |-> Idle]
  /\ faults = 0 /\ retries = 0

-----------------------------------------------------------------------------
(* The merchant asks for a refund. *)

\* Reserve: one transaction that locks the order, adds up what is reserved and
\* inserts the pending row.  A key that has a row is replayed and changes nothing.
Reserve(h, r) ==
  /\ At(h, "idle") /\ refund[r].status = "none"
  /\ Amount[r] <= Paid - Amounts(Reserved)
  /\ refund' = [refund EXCEPT ![r] = [NoRow EXCEPT !.status = "pending", !.next = "due"]]
  /\ Serve(h, r, FALSE)
  /\ UNCHANGED <<provider, events, stream, budget>>

-----------------------------------------------------------------------------
(* The provider, as the code of the gateway relies on it. *)

\* CreateRefund opens the refund under its refund_no; repeated, it answers like
\* QueryRefund with what became of the first.
CallProvider(h) ==
  /\ At(h, "provider")
  /\ \E fate \in IF provider[Of(h)] # "none" \/ call[h].seen.channelNo
                  THEN {provider[Of(h)]} ELSE Fates \ {"none"} :
       /\ provider' = [provider EXCEPT ![Of(h)] = fate]
       /\ call' = [call EXCEPT ![h].pc = "apply", ![h].answer = fate]
  /\ UNCHANGED <<refund, events, stream, budget>>

\* The call fails: the provider never saw it, or the answer is lost.
CallFails(h) ==
  /\ At(h, "provider")
  /\ faults < MaxFaults /\ faults' = faults + 1
  /\ \E fate \in IF provider[Of(h)] # "none" \/ call[h].seen.channelNo
                  THEN {provider[Of(h)]} ELSE Fates :
       provider' = [provider EXCEPT ![Of(h)] = fate]
  /\ call' = [call EXCEPT ![h].pc = "apply", ![h].answer = "error"]
  /\ UNCHANGED <<refund, events, stream, retries>>

\* A refund in process is settled; what is settled stays so.
ProviderSettles(r) ==
  /\ provider[r] = "processing"
  /\ \E fate \in {"succeeded", "mismatched", "failed"} :
       provider' = [provider EXCEPT ![r] = fate]
  /\ UNCHANGED <<refund, events, stream, call, budget>>

-----------------------------------------------------------------------------
(* The answer is written. *)

\* Mutant: an amount that is not the refund's is accepted.
OutcomeOfAnyAmount(a) ==
  CASE a \in {"succeeded", "mismatched"} -> "succeeded"
    [] a = "failed" -> "failed"
    [] OTHER -> "pending"

\* Mutant: the provider's own status is stored.
OutcomeUnmapped(a) == IF a = "error" THEN "pending" ELSE a

\* The status an answer leads to: a success of another amount or currency, and an
\* error, leave the refund pending.
Outcome(a) ==
  CASE a = "succeeded" -> "succeeded"
    [] a = "failed" -> "failed"
    [] OTHER -> "pending"

\* Mutant: an error gives the refund up, and with it the reservation.
ApplyResultOrFail(h) ==
  LET r == Of(h)
      a == call[h].answer
      outcome == IF a = "error" THEN "failed" ELSE Outcome(a)
  IN  /\ At(h, "apply")
      /\ refund' = [refund EXCEPT ![r] =
           [status |-> outcome,
            channelNo |-> @.channelNo \/ a \in {"processing", "succeeded", "failed"},
            attempts |-> 1,
            next |-> IF outcome = "pending" THEN "later" ELSE "none"]]
      /\ CASE outcome # "pending" -> call' = [call EXCEPT ![h].pc = "event"]
           [] OTHER -> Finish(h)
      /\ UNCHANGED <<provider, events, stream, budget>>

\* ApplyProviderResult writes whatever the row holds by then, and sets
\* attempt_count to 1.  A settled refund goes on to its event, the error of a
\* worker to the retry schedule.
ApplyResult(h) ==
  LET r == Of(h)
      a == call[h].answer
      outcome == Outcome(a)
  IN  /\ At(h, "apply")
      /\ refund' = [refund EXCEPT ![r] =
           [status |-> outcome,
            channelNo |-> @.channelNo \/ a \in {"processing", "succeeded", "failed"},
            attempts |-> 1,
            next |-> IF outcome = "pending" THEN "later" ELSE "none"]]
      /\ CASE outcome # "pending" -> call' = [call EXCEPT ![h].pc = "event"]
           [] a = "error" /\ call[h].worker -> call' = [call EXCEPT ![h].pc = "retry"]
           [] OTHER -> Finish(h)
      /\ UNCHANGED <<provider, events, stream, budget>>

\* SetRetry counts from the row read before the call; at the limit
\* StopAutomaticRetry leaves the refund to the administrator.
ScheduleRetry(h) ==
  LET attempts == call[h].seen.attempts + 1
  IN  /\ At(h, "retry")
      /\ refund' = [refund EXCEPT ![Of(h)].status = "pending",
                                  ![Of(h)].attempts = attempts,
                                  ![Of(h)].next = IF attempts >= MaxAttempts THEN "none"
                                                                            ELSE "later"]
      /\ Finish(h)
      /\ UNCHANGED <<provider, events, stream, budget>>

\* RecordRefundSucceeded or RecordRefundFailed, after the row was committed.
RecordEvent(h) ==
  /\ At(h, "event")
  /\ events' = [events EXCEPT ![Of(h)] = @ \cup
       {IF call[h].answer = "succeeded" THEN "refund.succeeded" ELSE "refund.failed"}]
  /\ Finish(h)
  /\ UNCHANGED <<refund, provider, stream, budget>>

-----------------------------------------------------------------------------
(* The scanner, the workers and the administrator. *)

TimePasses(r) ==
  /\ refund[r].next = "later"
  /\ refund' = [refund EXCEPT ![r].next = "due"]
  /\ UNCHANGED <<provider, events, stream, call, budget>>

\* Mutant: the scanner looks for refunds the provider has not numbered.
ScanDueUnnumbered(r) ==
  /\ refund[r].status = "pending" /\ refund[r].next = "due" /\ ~refund[r].channelNo
  /\ stream' = stream \cup {r}
  /\ UNCHANGED <<refund, provider, events, call, budget>>

\* ScanDue enqueues a due refund, again in every round until it is worked on.
ScanDue(r) ==
  /\ refund[r].status = "pending" /\ refund[r].next = "due"
  /\ stream' = stream \cup {r}
  /\ UNCHANGED <<refund, provider, events, call, budget>>

\* A worker reads a message; a refund that is not pending is left alone.
Process(h, r) ==
  /\ At(h, "idle") /\ r \in stream
  /\ stream' = stream \ {r}
  /\ UNCHANGED refund
  /\ IF refund[r].status = "pending" THEN Serve(h, r, TRUE) ELSE UNCHANGED call
  /\ UNCHANGED <<provider, events, budget>>

\* Retry of the administrator: ResetForRetry in any status, then the message.
Retry(r) ==
  /\ refund[r].status # "none"
  /\ retries < MaxRetries /\ retries' = retries + 1
  /\ refund' = [refund EXCEPT ![r].status = "pending", ![r].attempts = 0,
                              ![r].next = "due"]
  /\ stream' = stream \cup {r}
  /\ UNCHANGED <<provider, events, call, faults>>

-----------------------------------------------------------------------------
(* Failures. *)

\* A database call fails or the process dies.
Abort(h) ==
  /\ ~At(h, "idle")
  /\ faults < MaxFaults /\ faults' = faults + 1
  /\ Finish(h)
  /\ UNCHANGED <<refund, provider, events, stream, retries>>

\* The message is lost with the worker that read it: only new ones are read.
LoseMessage(r) ==
  /\ r \in stream
  /\ faults < MaxFaults /\ faults' = faults + 1
  /\ stream' = stream \ {r}
  /\ UNCHANGED <<refund, provider, events, call, retries>>

-----------------------------------------------------------------------------
Step(h) == \/ CallProvider(h) \/ CallFails(h) \/ ApplyResult(h)
           \/ ScheduleRetry(h) \/ RecordEvent(h)

Next ==
  \/ \E h \in Handlers : Step(h) \/ Abort(h)
  \/ \E h \in Handlers, r \in Refunds : Reserve(h, r) \/ Process(h, r)
  \/ \E r \in Refunds : \/ ProviderSettles(r) \/ TimePasses(r) \/ ScanDue(r)
                        \/ Retry(r) \/ LoseMessage(r)

Spec == Init /\ [][Next]_vars

\* A handler that was started goes on, the clock and the scanner's ticker do not
\* stop, and the worker takes every message in turn (strong: the bound on handlers
\* is the model's).  The provider owes nothing.
Fairness ==
  /\ \A h \in Handlers : WF_vars(Step(h))
  /\ \A r \in Refunds : /\ WF_vars(TimePasses(r)) /\ WF_vars(ScanDue(r))
                        /\ SF_vars(\E h \in Handlers : Process(h, r))

FairSpec == Spec /\ Fairness

-----------------------------------------------------------------------------
(* Properties. *)

\* Every variable holds what its column, stream or handler may hold.
TypeOK ==
  /\ refund \in [Refunds -> Rows] /\ provider \in [Refunds -> Fates]
  /\ events \in [Refunds -> SUBSET EventTypes]
  /\ stream \subseteq Refunds
  /\ call \in [Handlers -> Calls]
  /\ faults \in 0..MaxFaults /\ retries \in 0..MaxRetries

\* What the provider carries out, or may still carry out, is reserved: crashes,
\* lost answers, retries and stale writes never release the amount of a refund
\* whose money may leave (Reserve counts pending and succeeded).
ExecutedIsReserved ==
  \A r \in Refunds :
    provider[r] \in {"processing", "succeeded", "mismatched"} => r \in Reserved

\* The provider is never made to pay back more than was paid, even though retries
\* and stale writes can overcommit the reservations.
RefundedWithinPaid ==
  Amounts({r \in Refunds : provider[r] \in {"processing", "succeeded", "mismatched"}}) <= Paid

\* A refund is settled and announced as the provider settled it, for the amount
\* asked for; the merchant is never told both refund.succeeded and refund.failed.
AnnouncedAsSettled ==
  \A r \in Refunds :
    /\ refund[r].status \in {"succeeded", "failed"} => provider[r] = refund[r].status
    /\ "refund.succeeded" \in events[r] => provider[r] = "succeeded"
    /\ "refund.failed" \in events[r] => provider[r] = "failed"

\* The gateway learns that a refund succeeded, whatever crashed or got lost, and
\* whatever stale answers were written over it, unless automatic retry stopped.
SuccessIsLearned ==
  \A r \in Refunds :
    provider[r] = "succeeded" ~>
      (refund[r].status = "succeeded" \/ refund[r].next = "none")

\* Documented: a succeeded refund is announced by refund.succeeded.
SucceededIsAnnounced ==
  \A r \in Refunds :
    refund[r].status = "succeeded" ~> "refund.succeeded" \in events[r]

=============================================================================
