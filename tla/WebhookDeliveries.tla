------------------------- MODULE WebhookDeliveries ---------------------------
(***************************************************************************)
(* The deliveries of webhook events to a merchant: the row of each, the    *)
(* stream that names it, the worker that posts it and writes down what the *)
(* merchant answered, the scanner that repeats due deliveries, and the     *)
(* retries of the administrator.                                           *)
(*                                                                         *)
(* A worker reads the row, posts and writes in three steps; the write puts *)
(* down the number of attempts it read, plus one, whatever the row is then.*)
(***************************************************************************)
EXTENDS Integers, FiniteSets

CONSTANTS
  Workers,      \* workers of the stream: one in each instance of the gateway
  Deliveries,   \* one for each event
  None,         \* no delivery
  MaxAttempts,  \* 3 in the code
  MaxQueue,     \* bound: messages in the stream for one delivery
  MaxFaults,    \* bound: crashes, lost messages
  MaxRetries    \* bound: retries of the administrator

ASSUME WebhookAssumption ==
  /\ None \notin Deliveries
  /\ MaxAttempts \in Nat \ {0} /\ MaxQueue \in Nat \ {0}
  /\ MaxFaults \in Nat /\ MaxRetries \in Nat

VARIABLES
  row,       \* the table webhook_deliveries
  queue,     \* messages of each delivery in the stream
  call,      \* per worker, the delivery it handles and how far it is
  tries,     \* history: posts tried
  accepted,  \* history: deliveries the merchant answered with 2xx
  faults, retries

vars == <<row, queue, call, tries, accepted, faults, retries>>
merchant == <<tries, accepted>>
budget == <<faults, retries>>

-----------------------------------------------------------------------------
Calls == [pc : {"idle", "post", "write"}, delivery : Deliveries \cup {None},
          seen : Nat, ok : BOOLEAN]
Idle  == [pc |-> "idle", delivery |-> None, seen |-> 0, ok |-> FALSE]
NoRow == [status |-> "none", attempts |-> 0, next |-> "none"]
Fresh == [status |-> "pending", attempts |-> 0, next |-> "due"]

At(w, p)   == call[w].pc = p
Finish(w)  == call' = [call EXCEPT ![w] = Idle]
Exists(d)  == row[d].status # "none"
\* A message more, unless the bound is reached.
Enqueue(d) == queue' = [queue EXCEPT ![d] = IF @ < MaxQueue THEN @ + 1 ELSE @]

Init ==
  /\ row = [d \in Deliveries |-> NoRow]
  /\ queue = [d \in Deliveries |-> 0]
  /\ call = [w \in Workers |-> Idle]
  /\ tries = [d \in Deliveries |-> 0]
  /\ accepted = {}
  /\ faults = 0 /\ retries = 0

\* The event was recorded: the row is inserted, due at once, and then its message
\* is written, unless that fails or the process dies.
CreateDelivery(d) ==
  /\ ~Exists(d)
  /\ row' = [row EXCEPT ![d] = Fresh]
  /\ \/ Enqueue(d) /\ UNCHANGED faults
     \/ faults < MaxFaults /\ faults' = faults + 1 /\ UNCHANGED queue
  /\ UNCHANGED <<call, merchant, retries>>

TimePasses(d) ==
  /\ row[d].next = "later" /\ row' = [row EXCEPT ![d].next = "due"]
  /\ UNCHANGED <<queue, call, merchant, budget>>

\* Every round of the scanner repeats the message of a delivery that is due.
ScanDueDeliveries(d) ==
  /\ row[d].status = "pending" /\ row[d].next = "due"
  /\ queue[d] < MaxQueue /\ Enqueue(d)
  /\ UNCHANGED <<row, call, merchant, budget>>

\* ResetDeliveryForRetry in any status, then the message.
RetryDelivery(d) ==
  /\ Exists(d)
  /\ retries < MaxRetries /\ retries' = retries + 1
  /\ row' = [row EXCEPT ![d] = Fresh]
  /\ \/ Enqueue(d) /\ UNCHANGED faults
     \/ faults < MaxFaults /\ faults' = faults + 1 /\ UNCHANGED queue
  /\ UNCHANGED <<call, merchant>>

-----------------------------------------------------------------------------
(* DeliverWebhook. *)

\* Mutant: a delivery that succeeded is posted again.
DeliverAnyStatus(w, d) ==
  /\ At(w, "idle") /\ queue[d] > 0 /\ queue' = [queue EXCEPT ![d] = @ - 1]
  /\ call' = [call EXCEPT ![w] = [pc |-> "post", delivery |-> d,
                                  seen |-> row[d].attempts, ok |-> FALSE]]
  /\ UNCHANGED <<row, merchant, budget>>

\* The worker takes a message and reads the row.  One that succeeded is done; one
\* that failed, or is not due yet, is tried.
Deliver(w, d) ==
  /\ At(w, "idle") /\ queue[d] > 0 /\ queue' = [queue EXCEPT ![d] = @ - 1]
  /\ IF row[d].status = "succeeded"
       THEN UNCHANGED call
       ELSE call' = [call EXCEPT ![w] = [pc |-> "post", delivery |-> d,
                                         seen |-> row[d].attempts, ok |-> FALSE]]
  /\ UNCHANGED <<row, merchant, budget>>

\* Mutant: any answer of the merchant will do.
PostAnyAnswer(w) ==
  /\ At(w, "post")
  /\ LET d == call[w].delivery
     IN  /\ tries' = [tries EXCEPT ![d] = @ + 1]
         /\ \E took, heard \in BOOLEAN :
              /\ accepted' = IF took THEN accepted \cup {d} ELSE accepted
              /\ call' = [call EXCEPT ![w].pc = "write", ![w].ok = heard]
  /\ UNCHANGED <<row, queue, budget>>

\* postDelivery: the merchant answers 2xx or it does not, and an answer may get lost
\* on its way.  Only a 2xx that was heard counts.
Post(w) ==
  /\ At(w, "post")
  /\ LET d == call[w].delivery
     IN  /\ tries' = [tries EXCEPT ![d] = @ + 1]
         /\ \E took, heard \in BOOLEAN :
              /\ accepted' = IF took THEN accepted \cup {d} ELSE accepted
              /\ call' = [call EXCEPT ![w].pc = "write", ![w].ok = took /\ heard]
  /\ UNCHANGED <<row, queue, budget>>

\* Mutant: one attempt too many.
SettledLate(ok, attempts) ==
  IF ok THEN [status |-> "succeeded", attempts |-> attempts, next |-> "none"]
  ELSE IF attempts > MaxAttempts
       THEN [status |-> "failed", attempts |-> attempts, next |-> "none"]
       ELSE [status |-> "pending", attempts |-> attempts, next |-> "later"]

\* Mutant: the attempt under way is counted twice.
SettledEarly(ok, attempts) ==
  IF ok THEN [status |-> "succeeded", attempts |-> attempts, next |-> "none"]
  ELSE IF attempts + 1 >= MaxAttempts
       THEN [status |-> "failed", attempts |-> attempts, next |-> "none"]
       ELSE [status |-> "pending", attempts |-> attempts, next |-> "later"]

\* Mutant: the next attempt is not scheduled.
SettledForgotten(ok, attempts) ==
  IF ok THEN [status |-> "succeeded", attempts |-> attempts, next |-> "none"]
  ELSE IF attempts >= MaxAttempts
       THEN [status |-> "failed", attempts |-> attempts, next |-> "none"]
       ELSE [status |-> "pending", attempts |-> attempts, next |-> "none"]

\* The row after an attempt.
Settled(ok, attempts) ==
  IF ok THEN [status |-> "succeeded", attempts |-> attempts, next |-> "none"]
  ELSE IF attempts >= MaxAttempts
       THEN [status |-> "failed", attempts |-> attempts, next |-> "none"]
       ELSE [status |-> "pending", attempts |-> attempts, next |-> "later"]

\* UpdateDeliveryAttempt: the row is overwritten.
UpdateDeliveryAttempt(w) ==
  /\ At(w, "write")
  /\ row' = [row EXCEPT ![call[w].delivery] = Settled(call[w].ok, call[w].seen + 1)]
  /\ Finish(w)
  /\ UNCHANGED <<queue, merchant, budget>>

\* The process dies or the database fails: the message is never read again.
Crash(w) ==
  /\ ~At(w, "idle")
  /\ faults < MaxFaults /\ faults' = faults + 1
  /\ Finish(w)
  /\ UNCHANGED <<row, queue, merchant, retries>>

LoseMessage(d) ==
  /\ queue[d] > 0 /\ queue' = [queue EXCEPT ![d] = @ - 1]
  /\ faults < MaxFaults /\ faults' = faults + 1
  /\ UNCHANGED <<row, call, merchant, retries>>

-----------------------------------------------------------------------------
Step(w) == Post(w) \/ UpdateDeliveryAttempt(w)

Next ==
  \/ \E d \in Deliveries : \/ CreateDelivery(d) \/ TimePasses(d) \/ ScanDueDeliveries(d)
                           \/ RetryDelivery(d) \/ LoseMessage(d)
  \/ \E w \in Workers, d \in Deliveries : Deliver(w, d)
  \/ \E w \in Workers : Step(w) \/ Crash(w)

Spec == Init /\ [][Next]_vars

\* The clock, the scanner and the workers do not stop, and every message gets its
\* turn.  Merchants owe nothing.
Fairness ==
  /\ \A d \in Deliveries : /\ WF_vars(TimePasses(d)) /\ WF_vars(ScanDueDeliveries(d))
                           /\ SF_vars(\E w \in Workers : Deliver(w, d))
  /\ \A w \in Workers : WF_vars(Step(w))

FairSpec == Spec /\ Fairness

-----------------------------------------------------------------------------
(* Properties. *)

\* A pending delivery has attempts left and a next attempt, a settled one has none.
Rows ==
  {NoRow}
    \cup [status : {"pending"}, attempts : 0..(MaxAttempts - 1), next : {"later", "due"}]
    \cup [status : {"succeeded", "failed"}, attempts : Nat, next : {"none"}]

\* Every variable holds what its column, stream or worker may hold.
TypeOK ==
  /\ row \in [Deliveries -> Rows]
  /\ queue \in [Deliveries -> 0..MaxQueue]
  /\ call \in [Workers -> Calls]
  /\ tries \in [Deliveries -> Nat]
  /\ accepted \subseteq Deliveries
  /\ faults \in 0..MaxFaults /\ retries \in 0..MaxRetries

\* A delivery is marked succeeded only if the merchant accepted it.
SucceededIsAccepted == \A d \in Deliveries : row[d].status = "succeeded" => d \in accepted

\* A delivery is given up only after MaxAttempts posts, even when workers
\* overwrite each other's count and the administrator resets it.
FailedWasTried == \A d \in Deliveries : row[d].status = "failed" => tries[d] >= MaxAttempts

\* The delivery succeeded, and no worker that read the row before is at work on it.
Over(d) == /\ row[d].status = "succeeded"
           /\ \A w \in Workers : call[w].delivery # d

\* Such a delivery is over: the messages of it that are left in the stream, and
\* those of the scanner, do not post it again, unless the administrator asks.
SucceededIsOver ==
  [][retries' = retries =>
       \A d \in Deliveries : Over(d) => Over(d)' /\ tries'[d] = tries[d]]_vars

\* Every delivery is settled, whatever crashed or got lost.
PendingSettles ==
  \A d \in Deliveries : row[d].status = "pending" ~> row[d].status \in {"succeeded", "failed"}

\* Documented: a delivery that fails is tried automatically 3 times at most.
AtMostMaxAttempts ==
  retries = 0 => \A d \in Deliveries : tries[d] <= MaxAttempts

=============================================================================
