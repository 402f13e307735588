---------------------------- MODULE RateLimiter ------------------------------
(***************************************************************************)
(* The rate limit of one app on one route of the open API: a counter in    *)
(* Redis with a lifetime of one window.  Every request counts and renews   *)
(* the lifetime, refused ones included, before it is compared with the     *)
(* limit.  Time is a clock of ticks, Window of them in a window.  Limit    *)
(* and window are the configuration the resolver read, unchanged here.     *)
(***************************************************************************)
EXTENDS Integers, FiniteSetsExt

CONSTANTS
  Limit,      \* requests per window
  Window,     \* ticks per window
  MaxPerTick  \* bound: requests in one tick

ASSUME RateAssumption ==
  Limit \in Nat \ {0} /\ Window \in Nat \ {0} /\ MaxPerTick \in Nat

VARIABLES
  counter,   \* the key in Redis; what it counts above Limit + 1 makes no difference
  lifetime,  \* ticks until the key expires, 0 without a key
  arrived,   \* history: requests in each of the last Window ticks, 0 is now
  served,    \* history: those of them that were served
  verdict    \* of the last step

rateVars == <<counter, lifetime, arrived, served, verdict>>

-----------------------------------------------------------------------------
LastWindow == 0..(Window - 1)
Count(history) == MapThenSumSet(LAMBDA t : history[t], LastWindow)
CountNow(history) == [history EXCEPT ![0] = @ + 1]

RateInit ==
  /\ counter = 0 /\ lifetime = 0
  /\ arrived = [t \in LastWindow |-> 0] /\ served = arrived
  /\ verdict = "none"

\* Mutant: the lifetime is set only once.
IncrOnce ==
  /\ counter' = IF counter > Limit THEN counter ELSE counter + 1
  /\ lifetime' = IF counter = 0 THEN Window ELSE lifetime

\* Mutant: the key has no lifetime.
IncrForever ==
  /\ counter' = IF counter > Limit THEN counter ELSE counter + 1
  /\ UNCHANGED lifetime

\* INCR and EXPIRE in one transaction of Redis.
Incr ==
  /\ counter' = IF counter > Limit THEN counter ELSE counter + 1
  /\ lifetime' = Window

\* A request is served, or refused with a 429.
Request ==
  /\ arrived[0] < MaxPerTick /\ arrived' = CountNow(arrived)
  /\ Incr
  /\ IF counter' > Limit
       THEN verdict' = "refused" /\ UNCHANGED served
       ELSE verdict' = "served" /\ served' = CountNow(served)

\* The configuration or Redis cannot be read: a 503, counted or not.
RequestFails ==
  /\ arrived[0] < MaxPerTick /\ arrived' = CountNow(arrived)
  /\ Incr \/ UNCHANGED <<counter, lifetime>>
  /\ verdict' = "unavailable" /\ UNCHANGED served

\* Redis drops the key when its lifetime is over.
Tick ==
  LET shifted(history) == [t \in LastWindow |-> IF t = 0 THEN 0 ELSE history[t - 1]]
  IN  /\ lifetime' = IF lifetime = 0 THEN 0 ELSE lifetime - 1
      /\ counter' = IF lifetime = 1 THEN 0 ELSE counter
      /\ arrived' = shifted(arrived) /\ served' = shifted(served)
      /\ verdict' = "none"

RateNext == Request \/ RequestFails \/ Tick

RateSpec == RateInit /\ [][RateNext]_rateVars

-----------------------------------------------------------------------------
(* Properties. *)

\* No Window ticks in a row, wherever they start, see more than Limit requests
\* served: there is no burst across the border of two windows, as counters of fixed
\* windows allow it.
AtMostLimitPerWindow == Count(served) <= Limit

\* An app that kept quiet for a window is not refused, whatever it sent before.
QuietAppIsServed ==
  [][(\A t \in LastWindow : arrived[t] = 0) => verdict' # "refused"]_rateVars

=============================================================================
