--------------------------- MODULE PlatformProofs ----------------------------
(***************************************************************************)
(* Theorems about the components around a payment: RateLimiter, for every  *)
(* limit and window and any number of requests; Routing, for every set of  *)
(* rules, accounts and forms; WebhookMigration, for every number of        *)
(* servers, rows, faults and late writes, and both drivers.                *)
(***************************************************************************)
EXTENDS RateLimiter, Routing, WebhookMigration, SumLemmas

-----------------------------------------------------------------------------
(* RateLimiter. *)

RateTyped == /\ counter \in Nat /\ lifetime \in 0..Window
             /\ arrived \in [LastWindow -> Nat]

\* A count has a lifetime, and a lifetime the request that renewed it.
CountLives == counter # 0 => lifetime # 0
Renewed    == lifetime # 0 => arrived[Window - lifetime] # 0

RateIInv == RateTyped /\ CountLives /\ Renewed

-----------------------------------------------------------------------------
LEMMA RateInitIInv == RateInit => RateIInv
<1> SUFFICES ASSUME RateInit PROVE RateIInv
  OBVIOUS
<1> QED  BY RateAssumption DEF RateInit, RateIInv, RateTyped, CountLives, Renewed, LastWindow

\* Whatever becomes of a request, it is counted for the current tick.
LEMMA Counted ==
  ASSUME RateIInv, arrived' = CountNow(arrived)
  PROVE  /\ arrived' \in [LastWindow -> Nat] /\ arrived'[0] # 0
         /\ \A t \in LastWindow : arrived[t] # 0 => arrived'[t] # 0
<1>1. 0 \in LastWindow
  BY RateAssumption DEF LastWindow
<1> QED  BY <1>1 DEF RateIInv, RateTyped, CountNow

LEMMA CountingStep ==
  ASSUME RateIInv, arrived' = CountNow(arrived), Incr
  PROVE  RateIInv'
<1>1. counter' \in Nat /\ lifetime' = Window
  BY RateAssumption DEF RateIInv, RateTyped, Incr
<1>2. lifetime' \in 0..Window /\ lifetime' # 0 /\ Window - lifetime' = 0
  BY <1>1, RateAssumption
<1> QED  BY <1>1, <1>2, Counted DEF RateIInv, RateTyped, CountLives, Renewed

LEMMA TickStep == ASSUME RateIInv, Tick PROVE RateIInv'
<1> USE RateAssumption
<1>1. /\ counter' \in Nat /\ lifetime' \in 0..Window /\ (counter' # 0 => lifetime' # 0)
      /\ lifetime' # 0 => lifetime # 0 /\ lifetime' = lifetime - 1
  BY DEF RateIInv, RateTyped, CountLives, Tick
<1>2. /\ arrived' = [t \in LastWindow |-> IF t = 0 THEN 0 ELSE arrived[t - 1]]
      /\ arrived' \in [LastWindow -> Nat]
  BY DEF RateIInv, RateTyped, Tick, LastWindow
<1>3. ASSUME lifetime' # 0 PROVE arrived'[Window - lifetime'] # 0
  <2>1. /\ Window - lifetime' \in LastWindow /\ Window - lifetime' # 0
        /\ (Window - lifetime') - 1 = Window - lifetime
    BY <1>1, <1>3 DEF LastWindow, RateIInv, RateTyped
  <2> QED  BY <1>1, <1>2, <1>3, <2>1 DEF RateIInv, Renewed
<1> QED  BY <1>1, <1>2, <1>3 DEF RateIInv, RateTyped, CountLives, Renewed

LEMMA RateNextIInv == RateIInv /\ [RateNext]_rateVars => RateIInv'
<1> SUFFICES ASSUME RateIInv, [RateNext]_rateVars PROVE RateIInv'
  OBVIOUS
<1>1. CASE Request
  BY <1>1, CountingStep DEF Request
<1>2. CASE RequestFails
  <2>1. CASE Incr
    BY <1>2, <2>1, CountingStep DEF RequestFails
  <2>2. CASE UNCHANGED <<counter, lifetime>>
    <3>1. lifetime # 0 => Window - lifetime \in LastWindow
      BY RateAssumption DEF RateIInv, RateTyped, LastWindow
    <3> QED  BY <1>2, <2>2, <3>1, Counted DEF RequestFails, RateIInv, RateTyped, CountLives, Renewed
  <2> QED  BY <1>2, <2>1, <2>2 DEF RequestFails
<1>3. CASE Tick
  BY <1>3, TickStep
<1>4. CASE UNCHANGED rateVars
  BY <1>4 DEF rateVars, RateIInv, RateTyped, CountLives, Renewed
<1> QED  BY <1>1, <1>2, <1>3, <1>4 DEF RateNext

LEMMA RateInvariant == RateSpec => []RateIInv
<1> QED  BY RateInitIInv, RateNextIInv, PTL DEF RateSpec

-----------------------------------------------------------------------------
\* A request of an app that sent none for a window finds no count and is not refused
\* (RedisRateLimitStore.Incr renews the lifetime, but only with a request).
THEOREM QuietServed == RateSpec => QuietAppIsServed
<1>1. ASSUME RateIInv, [RateNext]_rateVars
      PROVE  [(\A t \in LastWindow : arrived[t] = 0) => verdict' # "refused"]_rateVars
  <2> SUFFICES ASSUME RateNext, \A t \in LastWindow : arrived[t] = 0
               PROVE  verdict' # "refused"
    BY <1>1
  <2>1. lifetime = 0 /\ counter = 0
    <3>1. lifetime # 0 => Window - lifetime \in LastWindow
      BY <1>1, RateAssumption DEF RateIInv, RateTyped, LastWindow
    <3> QED  BY <1>1, <3>1 DEF RateIInv, RateTyped, Renewed, CountLives
  <2>2. CASE Request
    <3>1. ~(counter' > Limit)
      BY <2>1, <2>2, RateAssumption DEF Request, Incr
    <3> QED  BY <2>2, <3>1 DEF Request
  <2>3. CASE RequestFails \/ Tick
    BY <2>3 DEF RequestFails, Tick
  <2> QED  BY <2>2, <2>3 DEF RateNext
<1> QED  BY <1>1, RateInvariant, PTL DEF RateSpec, QuietAppIsServed

-----------------------------------------------------------------------------
\* What was served in the last window is still counted: the key outlives it, since
\* every request renews the lifetime.
ServedIsCounted ==
  /\ served \in [LastWindow -> Nat]
  /\ \A t \in LastWindow : served[t] # 0 => lifetime + t >= Window
  /\ Count(served) <= counter
  /\ Count(served) <= Limit

LEMMA CountsAreSums ==
  /\ \A history : Count(history) = SumOf(history, LastWindow)
  /\ IsFiniteSet(LastWindow) /\ 0 \in LastWindow /\ LastWindow \subseteq Nat
<1>1. \A history : Count(history) = SumOf(history, LastWindow)
  BY DEF Count, SumOf
<1>2. 0 \in Int /\ Window - 1 \in Int /\ Window - 1 >= 0
  BY RateAssumption
<1>3. IsFiniteSet(LastWindow)
  BY <1>2, FS_Interval DEF LastWindow
<1> QED  BY <1>1, <1>2, <1>3 DEF LastWindow

LEMMA CountTyped ==
  ASSUME NEW history \in [LastWindow -> Nat]
  PROVE  Count(history) \in Nat
BY CountsAreSums, SumNat

LEMMA CountOneMore ==
  ASSUME NEW history \in [LastWindow -> Nat]
  PROVE  Count(CountNow(history)) = Count(history) + 1
<1> DEFINE now   == CountNow(history)
           older == LastWindow \ {0}
<1>1. now \in [LastWindow -> Nat] /\ now[0] = history[0] + 1 /\ \A t \in older : now[t] = history[t]
  BY CountsAreSums DEF CountNow
<1>2. SumOf(history, LastWindow) = history[0] + SumOf(history, older)
  BY CountsAreSums, SumRemove
<1>3. SumOf(now, LastWindow) = now[0] + SumOf(now, older)
  BY <1>1, CountsAreSums, SumRemove
<1>4. IsFiniteSet(older)
  BY CountsAreSums, FS_Subset
<1>5. SumOf(now, older) = SumOf(history, older) /\ SumOf(history, older) \in Nat
  BY <1>1, <1>4, SumSame, SumNat
<1>6. history[0] \in Nat
  BY CountsAreSums
<1> QED  BY <1>1, <1>2, <1>3, <1>5, <1>6, CountsAreSums

\* The oldest tick falls out of the window.
LEMMA CountShifted ==
  ASSUME NEW history \in [LastWindow -> Nat]
  PROVE  Count([t \in LastWindow |-> IF t = 0 THEN 0 ELSE history[t - 1]]) <= Count(history)
<1> DEFINE shifted == [t \in LastWindow |-> IF t = 0 THEN 0 ELSE history[t - 1]]
           Wrong   == {n \in LastWindow : SumOf(shifted, 0..n) # SumOf(history, 0..(n - 1))}
<1>1. shifted \in [LastWindow -> Nat] /\ shifted[0] = 0
  <2>1. \A t \in LastWindow : t # 0 => t - 1 \in LastWindow
    BY RateAssumption DEF LastWindow
  <2>2. \A t \in LastWindow : (IF t = 0 THEN 0 ELSE history[t - 1]) \in Nat
    BY <2>1
  <2> QED  BY <2>2, CountsAreSums
<1>2. \A n \in LastWindow : n # 0 => shifted[n] = history[n - 1]
  OBVIOUS
<1> HIDE DEF shifted
<1>3. \A n \in LastWindow : 0..n \subseteq LastWindow /\ IsFiniteSet(0..n) /\ IsFiniteSet(0..(n - 1))
  <2>1. ASSUME NEW n \in LastWindow
        PROVE  0..n \subseteq LastWindow /\ IsFiniteSet(0..n) /\ IsFiniteSet(0..(n - 1))
    <3>1. 0 \in Int /\ n \in Int /\ n - 1 \in Int /\ 0..n \subseteq LastWindow
      BY RateAssumption DEF LastWindow
    <3> QED  BY <3>1, FS_Interval
  <2> QED  BY <2>1
<1>4. Wrong = {}
  <2>1. SUFFICES ASSUME Wrong # {} PROVE FALSE
    OBVIOUS
  <2>2. PICK n \in Wrong : \A m \in Wrong : n <= m
    <3>1. Wrong \in SUBSET Nat
      BY CountsAreSums
    <3> HIDE DEF Wrong
    <3> QED  BY <2>1, <3>1, LeastNatural
  <2>3. CASE n = 0
    <3>1. 0..n = {0} /\ 0..(n - 1) = {}
      BY <2>3
    <3>2. SumOf(shifted, {0}) = 0
      BY <1>1, SumZero, FS_Singleton
    <3> QED  BY <2>2, <3>1, <3>2, SumEmpty
  <2>4. CASE n # 0
    <3>1. n - 1 \in LastWindow /\ n - 1 \notin Wrong /\ n \in LastWindow /\ n \in Nat
      BY <2>2, <2>4, RateAssumption DEF LastWindow
    <3>2. SumOf(shifted, 0..(n - 1)) = SumOf(history, 0..((n - 1) - 1))
      BY <3>1
    <3>3. 0..n = (0..(n - 1)) \cup {n} /\ n \notin 0..(n - 1)
      BY <3>1
    <3>4. SumOf(shifted, 0..n) = shifted[n] + SumOf(shifted, 0..(n - 1))
      <4>1. \A t \in (0..(n - 1)) \cup {n} : shifted[t] \in Nat
        BY <1>1, <1>3, <3>1, <3>3
      <4> QED  BY <1>3, <3>1, <3>3, <4>1, SumAdd
    <3>5. SumOf(history, 0..(n - 1)) = history[n - 1] + SumOf(history, 0..((n - 1) - 1))
      <4>1. 0..(n - 1) = (0..((n - 1) - 1)) \cup {n - 1} /\ n - 1 \notin 0..((n - 1) - 1)
        BY <2>4, <3>1
      <4>2. \A t \in (0..((n - 1) - 1)) \cup {n - 1} : history[t] \in Nat
        BY <1>3, <3>1, <4>1
      <4> QED  BY <1>3, <3>1, <4>1, <4>2, SumAdd
    <3>6. shifted[n] = history[n - 1]
      BY <1>2, <2>4, <3>1
    <3> QED  BY <2>2, <3>2, <3>4, <3>5, <3>6
  <2> QED  BY <2>3, <2>4
<1>5. Window - 1 \in LastWindow /\ LastWindow = 0..(Window - 1)
  BY RateAssumption DEF LastWindow
<1>6. SumOf(shifted, LastWindow) = SumOf(history, 0..((Window - 1) - 1))
  BY <1>4, <1>5
<1>7. SumOf(history, 0..((Window - 1) - 1)) <= SumOf(history, LastWindow)
  <2>1. 0..((Window - 1) - 1) \in SUBSET LastWindow
    BY RateAssumption DEF LastWindow
  <2> QED  BY <2>1, CountsAreSums, SumSubset
<1> QED  BY <1>6, <1>7, CountsAreSums DEF shifted

LEMMA LongerLives ==
  ASSUME NEW lives \in Int, NEW longer \in Int, NEW t \in Int, lives <= longer, lives + t >= Window
  PROVE  longer + t >= Window
BY RateAssumption

LEMMA NextServedIsCounted ==
  ASSUME RateIInv, ServedIsCounted, [RateNext]_rateVars
  PROVE  ServedIsCounted'
<1> USE RateAssumption DEF RateIInv, RateTyped
<1>0. Count(served) \in Nat
  BY CountTyped DEF ServedIsCounted
<1>1. ASSUME Incr
      PROVE  /\ counter' \in Nat /\ counter <= counter' /\ lifetime' = Window
             /\ counter' <= Limit => counter' = counter + 1
  BY <1>1 DEF Incr
<1>2. CASE Request
  <2>1. CASE counter' > Limit
    <3>1. served' = served /\ counter <= counter' /\ counter' \in Nat /\ lifetime' = Window
      BY <1>1, <1>2, <2>1 DEF Request
    <3>2. \A t \in LastWindow : lifetime' + t >= Window
      BY <3>1 DEF LastWindow
    <3> QED  BY <1>0, <3>1, <3>2 DEF ServedIsCounted
  <2>2. CASE ~(counter' > Limit)
    <3>1. served' = CountNow(served) /\ served' \in [LastWindow -> Nat]
      BY <1>2, <2>2 DEF Request, CountNow, ServedIsCounted
    <3>2. Count(served') = Count(served) + 1
      BY <3>1, CountOneMore DEF ServedIsCounted
    <3>3. \A t \in LastWindow : lifetime' + t >= Window
      BY <1>1, <1>2 DEF Request, LastWindow
    <3> QED  BY <1>0, <1>1, <1>2, <2>2, <3>1, <3>2, <3>3 DEF Request, ServedIsCounted
  <2> QED  BY <2>1, <2>2
<1>3. CASE RequestFails
  <2>1. served' = served /\ counter' \in Nat /\ counter <= counter' /\ lifetime <= lifetime' /\ lifetime' \in Nat
    BY <1>1, <1>3 DEF RequestFails
  <2>2. \A t \in LastWindow : served'[t] # 0 => lifetime' + t >= Window
    <3>1. ASSUME NEW t \in LastWindow, served[t] # 0 PROVE lifetime' + t >= Window
      <4>1. lifetime + t >= Window /\ t \in Int /\ lifetime \in Int
        BY <3>1 DEF ServedIsCounted, LastWindow
      <4>2. lifetime <= lifetime' /\ lifetime' \in Int
        BY <2>1
      <4> QED  BY <4>1, <4>2, LongerLives
    <3> QED  BY <2>1, <3>1
  <2> QED  BY <1>0, <2>1, <2>2 DEF ServedIsCounted
<1>4. CASE Tick
  <2>1. /\ served' = [t \in LastWindow |-> IF t = 0 THEN 0 ELSE served[t - 1]]
        /\ served' \in [LastWindow -> Nat]
    BY <1>4 DEF Tick, ServedIsCounted, LastWindow
  <2>2. \A t \in LastWindow : served'[t] # 0 => lifetime' + t >= Window
    BY <1>4, <2>1 DEF Tick, ServedIsCounted, LastWindow
  <2>3. Count(served') <= Count(served) /\ Count(served') \in Nat
    BY <2>1, CountShifted, CountTyped DEF ServedIsCounted
  <2>4. Count(served') <= counter'
    <3>1. CASE lifetime = 1
      <4>1. lifetime' = 0 /\ counter' = 0
        BY <1>4, <3>1 DEF Tick
      <4>2. \A t \in LastWindow : served'[t] = 0
        BY <2>2, <4>1 DEF LastWindow
      <4>3. Count(served') = 0
        BY <4>2, SumZero, CountsAreSums
      <4> QED  BY <4>1, <4>3
    <3>2. CASE lifetime # 1
      BY <1>0, <1>4, <2>3, <3>2 DEF Tick, ServedIsCounted
    <3> QED  BY <3>1, <3>2
  <2> QED  BY <1>0, <2>1, <2>2, <2>3, <2>4 DEF ServedIsCounted
<1>5. CASE UNCHANGED rateVars
  BY <1>5 DEF rateVars, ServedIsCounted
<1> QED  BY <1>2, <1>3, <1>4, <1>5 DEF RateNext

\* However requests are spread over time, no window sees more than the limit served
\* (INCR, EXPIRE and the comparison of AppRateLimitMiddleware).
THEOREM WithinLimit == RateSpec => []AtMostLimitPerWindow
<1>1. RateInit => ServedIsCounted
  <2> SUFFICES ASSUME RateInit PROVE ServedIsCounted
    OBVIOUS
  <2>1. Count(served) = 0
    BY SumZero, CountsAreSums DEF RateInit
  <2> QED  BY <2>1, RateAssumption DEF RateInit, ServedIsCounted
<1>2. RateIInv /\ ServedIsCounted /\ [RateNext]_rateVars => ServedIsCounted'
  BY NextServedIsCounted
<1>3. ServedIsCounted => AtMostLimitPerWindow
  BY DEF ServedIsCounted, AtMostLimitPerWindow
<1> QED  BY <1>1, <1>2, <1>3, RateInvariant, PTL DEF RateSpec

-----------------------------------------------------------------------------
(* Routing. *)

\* A rule as it is entered and as it is stored.
RuleForm == RuleOf(DOMAIN LowerCase)
RuleRow  == RuleOf(STRING)

\* The configuration: what is stored of a rule is what was entered, normalized.
ConfigTyped ==
  /\ rules \in [Rules -> {NoRule} \cup RuleRow]
  /\ targets \in [Rules -> SUBSET Accounts]
  /\ entered \in [Rules -> {NoRule} \cup RuleForm]
  /\ enabled \in SUBSET Accounts
  /\ \A r \in Rules : Saved(r) => entered[r] \in RuleForm /\ rules[r] = Normalized(entered[r])

PageTyped ==
  /\ page = [at |-> page.at, accounts |-> page.accounts, account |-> page.account,
             rows |-> page.rows, found |-> page.found, offered |-> page.offered,
             stable |-> page.stable]
  /\ page.at \in {"closed", "rules", "account", "targets", "done"}
  /\ page.accounts \in SUBSET Accounts

DuringTyped ==
  during = [targets |-> during.targets, entered |-> during.entered,
            enabled |-> during.enabled, empty |-> during.empty]

\* The history holds the configuration of now.
IsPartOf(a, b) == /\ a.targets \subseteq b.targets /\ a.entered \subseteq b.entered
                  /\ a.enabled \subseteq b.enabled /\ (a.empty => b.empty)
Recorded == IsPartOf(Now, during)

\* What the request holds was in the configuration at some time of the request.
TargetedThen(r, a) == <<r, a>> \in during.targets
CoveredThen(r, a) ==
  \E e \in during.entered : e[1] = r /\ CoversSpelling(e[2]) /\ Covers(e[2], a)
AccountsRead == page.at = "rules" => page.accounts \subseteq during.enabled
RowsRead ==
  page.at = "targets" =>
    \A read \in page.rows :
      /\ read[1] \in Rules /\ Saved(read[1])
      /\ \E e \in during.entered : e[1] = read[1] /\ e[2] \in RuleForm /\ read[2] = Normalized(e[2])
FoundRead ==
  page.at = "targets" =>
    \A c \in page.found : TargetedThen(c[2], c[1]) /\ CoveredThen(c[2], page.account) /\ c[2] # NoRule
OfferedRead ==
  \A offer \in page.offered :
    /\ offer[1] \in during.enabled
    /\ IF offer[2] = NoRule THEN during.empty
       ELSE TargetedThen(offer[2], offer[1]) /\ CoveredThen(offer[2], offer[1])

\* The app conditions that survive being stored.
Survives(form) == \/ form.apps = AllApps
                  \/ Purchase.app \in form.apps /\ LowerCase[Purchase.app] = Purchase.app

\* Account a is to be offered for rule r.
Routed(r, a) == /\ Saved(r) /\ a \in targets[r] /\ a \in enabled
                /\ Survives(entered[r]) /\ Covers(entered[r], a)

\* While the configuration stays, what is wanted is offered or can still be.
InReach(r, a) ==
  \/ page.at = "closed"
  \/ a \in page.accounts /\ page.at # "done"
  \/ <<a, r>> \in page.offered
  \/ /\ page.at = "targets" /\ a = page.account
     /\ <<r, rules[r]>> \in page.rows \/ <<a, r>> \in page.found
NothingLost ==
  page.stable => \A r \in Rules, a \in Accounts : Routed(r, a) => InReach(r, a)

RoutingIInv ==
  /\ ConfigTyped /\ PageTyped /\ DuringTyped /\ Recorded
  /\ AccountsRead /\ RowsRead /\ FoundRead /\ OfferedRead
  /\ NothingLost

-----------------------------------------------------------------------------
\* A rule that matches an account covers it as it was entered, up to the spelling of its
\* apps, and the other way round if its apps survive: their spelling is all that is
\* lost by saving it.
LEMMA MatchesCovers ==
  ASSUME NEW form \in RuleForm, NEW a, Matches(Normalized(form), a)
  PROVE  CoversSpelling(form) /\ Covers(form, a)
<1>1. CoversSpelling(form)
  <2>1. CASE form.apps = AllApps
    BY <2>1 DEF CoversSpelling
  <2>2. CASE form.apps # AllApps
    <3>1. /\ form.apps \subseteq DOMAIN LowerCase
          /\ Normalized(form).apps = {LowerCase[app] : app \in form.apps}
      BY <2>2 DEF RuleForm, RuleOf, Normalized
    <3>2. Normalized(form).apps # AllApps
      BY <3>1, RoutingAssumption
    <3>3. Purchase.app \in Normalized(form).apps
      BY <3>2 DEF Matches, MatchesApp
    <3> QED
      <4>1. PICK app \in form.apps : LowerCase[app] = Purchase.app
        BY <3>1, <3>3
      <4>2. LowerCase[Purchase.app] = LowerCase[app]
        BY <3>1, <4>1, RoutingAssumption
      <4> QED  BY <4>1, <4>2 DEF CoversSpelling
  <2> QED  BY <2>1, <2>2
<1>2. Covers(form, a)
  BY RoutingAssumption DEF RuleForm, RuleOf, Matches, Normalized, Covers, TakesCurrency
<1> QED  BY <1>1, <1>2

LEMMA CoversMatches ==
  ASSUME NEW form \in RuleForm, NEW a, Survives(form), Covers(form, a)
  PROVE  Matches(Normalized(form), a)
<1>1. Normalized(form).apps = AllApps \/ Purchase.app \in Normalized(form).apps
  BY DEF Survives, Normalized, RuleForm, RuleOf
<1> QED
  BY <1>1, RoutingAssumption DEF RuleForm, RuleOf, Matches, MatchesApp, Normalized, Covers,
     TakesCurrency

LEMMA NormalizedRow ==
  ASSUME NEW form \in RuleForm
  PROVE  Normalized(form) \in RuleRow /\ Normalized(form) # NoRule
<1>1. \A app \in DOMAIN LowerCase : LowerCase[app] \in STRING
  BY RoutingAssumption
<1>2. Normalized(form) \in RuleRow
  BY <1>1 DEF RuleForm, RuleRow, RuleOf, Normalized
<1> QED  BY <1>2, RoutingAssumption DEF RuleRow

LEMMA NormalizedEnabled ==
  ASSUME NEW form \in RuleForm, NEW on \in BOOLEAN
  PROVE  /\ [form EXCEPT !.enabled = on] \in RuleForm
         /\ Normalized([form EXCEPT !.enabled = on]) = [Normalized(form) EXCEPT !.enabled = on]
         /\ Normalized(form).enabled = form.enabled
BY DEF RuleForm, RuleOf, Normalized

LEMMA RoutingInitIInv == RoutingInit => RoutingIInv
<1> SUFFICES ASSUME RoutingInit PROVE RoutingIInv
  OBVIOUS
<1>1. ConfigTyped
  BY DEF RoutingInit, ConfigTyped, Saved
<1>2. PageTyped /\ AccountsRead /\ RowsRead /\ FoundRead /\ OfferedRead
  BY DEF RoutingInit, NoPage, PageTyped, AccountsRead, RowsRead, FoundRead, OfferedRead
<1>3. DuringTyped /\ Recorded
  BY DEF RoutingInit, DuringTyped, Recorded, IsPartOf, Now
<1>4. NothingLost
  BY DEF RoutingInit, NothingLost, Routed, Saved
<1> QED  BY <1>1, <1>2, <1>3, <1>4 DEF RoutingIInv

LEMMA NextConfigTyped ==
  ASSUME ConfigTyped, [RoutingNext]_routingVars
  PROVE  ConfigTyped' /\ \A r \in Rules : Saved(r) => Saved(r)'
<1>1. CASE UNCHANGED <<rules, targets, entered, enabled>>
  BY <1>1 DEF ConfigTyped, Saved
<1>2. ASSUME NEW r \in Rules, NEW form \in RuleForm, NEW ts \in SUBSET Accounts,
             rules' = [rules EXCEPT ![r] = Normalized(form)],
             entered' = [entered EXCEPT ![r] = form],
             targets' = [targets EXCEPT ![r] = ts], UNCHANGED enabled
      PROVE  ConfigTyped' /\ \A q \in Rules : Saved(q) => Saved(q)'
  <2>1. Normalized(form) \in RuleRow /\ Normalized(form) # NoRule
    BY NormalizedRow
  <2>2. \A q \in Rules : /\ rules'[q] = IF q = r THEN Normalized(form) ELSE rules[q]
                         /\ entered'[q] = IF q = r THEN form ELSE entered[q]
    BY <1>2 DEF ConfigTyped
  <2> QED  BY <1>2, <2>1, <2>2 DEF ConfigTyped, Saved
<1>3. ASSUME NEW r \in Rules, SetRuleEnabled(r)
      PROVE  ConfigTyped' /\ \A q \in Rules : Saved(q) => Saved(q)'
  <2>1. entered[r] \in RuleForm /\ rules[r] = Normalized(entered[r]) /\ entered[r].enabled \in BOOLEAN
    BY <1>3 DEF SetRuleEnabled, ConfigTyped, RuleForm, RuleOf
  <2> DEFINE form == [entered[r] EXCEPT !.enabled = ~entered[r].enabled]
  <2>2. form \in RuleForm /\ Normalized(form) = [rules[r] EXCEPT !.enabled = ~entered[r].enabled]
    BY <2>1, NormalizedEnabled
  <2>3. rules[r].enabled = entered[r].enabled
    BY <2>1, NormalizedEnabled
  <2>4. /\ rules' = [rules EXCEPT ![r] = Normalized(form)]
        /\ entered' = [entered EXCEPT ![r] = form]
        /\ targets' = [targets EXCEPT ![r] = targets[r]] /\ targets[r] \in SUBSET Accounts
        /\ UNCHANGED enabled
    BY <1>3, <2>2, <2>3 DEF SetRuleEnabled, ConfigTyped
  <2> HIDE DEF form
  <2> QED  BY <1>2, <2>2, <2>4
<1>4. ASSUME NEW a \in Accounts, SetAccountEnabled(a)
      PROVE  ConfigTyped' /\ \A q \in Rules : Saved(q) => Saved(q)'
  BY <1>4 DEF SetAccountEnabled, ConfigTyped, Saved
<1>5. ASSUME NEW r \in Rules, NEW form \in Forms, NEW ts \in SUBSET Accounts, SaveRule(r, form, ts)
      PROVE  ConfigTyped' /\ \A q \in Rules : Saved(q) => Saved(q)'
  <2>1. form \in RuleForm
    BY RoutingAssumption DEF RuleForm
  <2> QED  BY <1>2, <1>5, <2>1 DEF SaveRule
<1> QED
  BY <1>1, <1>3, <1>4, <1>5 DEF RoutingNext, routingVars, ListAccounts, ListRules, ResolveRules,
     TargetsForRule, OfferCandidate, NextAccount, AnswerPage, config

\* A change of the configuration is recorded, and what was read before it stays true.
LEMMA ChangedIsRecorded ==
  ASSUME RoutingIInv, Changed, \A r \in Rules : Saved(r) => Saved(r)'
  PROVE  /\ PageTyped' /\ DuringTyped' /\ Recorded'
         /\ AccountsRead' /\ RowsRead' /\ FoundRead' /\ OfferedRead'
         /\ NothingLost'
<1>1. /\ page'.at = page.at /\ page'.accounts = page.accounts /\ page'.account = page.account
      /\ page'.rows = page.rows /\ page'.found = page.found /\ page'.offered = page.offered
      /\ page'.stable = FALSE /\ PageTyped'
  BY DEF Changed, RoutingIInv, PageTyped
<1>2. DuringTyped' /\ Recorded' /\ IsPartOf(during, during')
  BY DEF Changed, Add, DuringTyped, Recorded, IsPartOf
<1>3. \A r, a : (TargetedThen(r, a) => TargetedThen(r, a)') /\ (CoveredThen(r, a) => CoveredThen(r, a)')
  BY <1>2 DEF TargetedThen, CoveredThen, IsPartOf, CoversSpelling, Covers, TakesCurrency
<1>4. AccountsRead' /\ RowsRead'
  BY <1>1, <1>2 DEF RoutingIInv, AccountsRead, RowsRead, IsPartOf
<1>5. FoundRead'
  BY <1>1, <1>3 DEF RoutingIInv, FoundRead
<1>6. OfferedRead'
  BY <1>1, <1>2, <1>3 DEF RoutingIInv, OfferedRead, IsPartOf
<1>7. NothingLost'
  BY <1>1 DEF NothingLost
<1> QED  BY <1>1, <1>2, <1>4, <1>5, <1>6, <1>7

\* A step of the request leaves the configuration, and the history unless it is its first.
LEMMA ConfigStays ==
  ASSUME UNCHANGED config
  PROVE  /\ UNCHANGED <<rules, targets, entered, enabled>> /\ Now' = Now
         /\ \A r, a : Routed(r, a)' = Routed(r, a)
        /\ \A r : Saved(r)' = Saved(r)
BY DEF config, Now, Saved, Routed, Covers, TakesCurrency

LEMMA HistoryStays ==
  ASSUME RoutingIInv, UNCHANGED <<config, during>>
  PROVE  /\ DuringTyped' /\ Recorded'
         /\ \A r, a : (TargetedThen(r, a)' = TargetedThen(r, a)) /\ (CoveredThen(r, a)' = CoveredThen(r, a))
<1>1. during' = during /\ Now' = Now
  BY ConfigStays
<1> QED  BY <1>1 DEF RoutingIInv, DuringTyped, Recorded, TargetedThen, CoveredThen, CoversSpelling,
     Covers, TakesCurrency

LEMMA ListAccountsKeeps ==
  ASSUME RoutingIInv, ListAccounts
  PROVE  RoutingIInv'
<1> SUFFICES ASSUME ConfigTyped' PROVE RoutingIInv'
  BY NextConfigTyped DEF RoutingIInv, RoutingNext
<1>1. /\ page'.at = "rules" /\ page'.accounts = {a \in enabled : TakesCurrency(a)}
      /\ page'.offered = {} /\ PageTyped'
  BY DEF ListAccounts, NoPage, PageTyped, RoutingIInv, ConfigTyped
<1>2. DuringTyped' /\ Recorded' /\ during'.enabled = enabled
  <2>1. Now' = Now /\ during' = Now
    BY ConfigStays DEF ListAccounts
  <2> QED  BY <2>1 DEF DuringTyped, Recorded, IsPartOf, Now
<1>3. AccountsRead' /\ RowsRead' /\ FoundRead' /\ OfferedRead'
  BY <1>1, <1>2 DEF AccountsRead, RowsRead, FoundRead, OfferedRead
<1>4. NothingLost'
  <2>1. \A r, a : Routed(r, a)' => a \in page'.accounts
    BY <1>1, ConfigStays DEF ListAccounts, Routed, Covers
  <2> QED  BY <1>1, <2>1 DEF NothingLost, InReach
<1> QED  BY <1>1, <1>2, <1>3, <1>4 DEF RoutingIInv

LEMMA ListRulesKeeps ==
  ASSUME RoutingIInv, ListRules
  PROVE  RoutingIInv'
<1> SUFFICES ASSUME ConfigTyped' PROVE RoutingIInv'
  BY NextConfigTyped DEF RoutingIInv, RoutingNext
<1>1. UNCHANGED config /\ during' = during /\ DuringTyped' /\ Recorded'
  BY HistoryStays DEF ListRules
<1>2. CASE \E r \in Rules : Saved(r)
  <2>1. /\ page'.at = "account" /\ page'.accounts = page.accounts /\ page'.offered = page.offered
        /\ page'.stable = page.stable /\ PageTyped'
    BY <1>2 DEF ListRules, PageTyped, RoutingIInv
  <2>2. AccountsRead' /\ RowsRead' /\ FoundRead'
    BY <2>1 DEF AccountsRead, RowsRead, FoundRead
  <2>3. OfferedRead'
    BY <1>1, <2>1, HistoryStays DEF RoutingIInv, OfferedRead
  <2>4. NothingLost'
    BY <1>1, <2>1, ConfigStays DEF ListRules, RoutingIInv, NothingLost, InReach
  <2> QED  BY <1>1, <2>1, <2>2, <2>3, <2>4 DEF RoutingIInv
<1>3. CASE ~\E r \in Rules : Saved(r)
  <2>1. /\ page'.at = "done" /\ page'.accounts = page.accounts
        /\ page'.offered = page.accounts \X {NoRule} /\ PageTyped'
    BY <1>3 DEF ListRules, PageTyped, RoutingIInv
  <2>2. AccountsRead' /\ RowsRead' /\ FoundRead'
    BY <2>1 DEF AccountsRead, RowsRead, FoundRead
  <2>3. OfferedRead'
    <3>1. during.empty /\ page.accounts \subseteq during.enabled
      BY <1>3 DEF ListRules, RoutingIInv, Recorded, IsPartOf, Now, AccountsRead
    <3> QED  BY <1>1, <2>1, <3>1 DEF OfferedRead
  <2>4. NothingLost'
    BY <1>1, <1>3, ConfigStays DEF NothingLost, Routed
  <2> QED  BY <1>1, <2>1, <2>2, <2>3, <2>4 DEF RoutingIInv
<1> QED  BY <1>2, <1>3

LEMMA ResolveRulesKeeps ==
  ASSUME RoutingIInv, NEW b \in Accounts, ResolveRules(b)
  PROVE  RoutingIInv'
<1> SUFFICES ASSUME ConfigTyped' PROVE RoutingIInv'
  BY NextConfigTyped DEF RoutingIInv, RoutingNext
<1>1. UNCHANGED config /\ during' = during /\ DuringTyped' /\ Recorded'
  BY HistoryStays DEF ResolveRules
<1>2. /\ page.at = "account" /\ page'.at = "targets" /\ page'.account = b
      /\ page'.accounts = page.accounts \ {b} /\ page'.stable = page.stable
      /\ page'.rows = {<<r, rules[r]>> : r \in {q \in Rules : Saved(q)}}
      /\ page'.found = {} /\ page'.offered = page.offered /\ PageTyped'
  BY DEF ResolveRules, PageTyped, RoutingIInv
<1>3. AccountsRead' /\ FoundRead'
  BY <1>2 DEF AccountsRead, FoundRead
<1>4. RowsRead'
  <2>1. ASSUME NEW r \in Rules, Saved(r)
        PROVE  \E e \in during.entered : e[1] = r /\ e[2] \in RuleForm /\ rules[r] = Normalized(e[2])
    <3>1. <<r, entered[r]>> \in during.entered
      BY <2>1 DEF RoutingIInv, Recorded, IsPartOf, Now
    <3> QED  BY <2>1, <3>1 DEF RoutingIInv, ConfigTyped
  <2> QED  BY <1>1, <1>2, <2>1, ConfigStays DEF RowsRead
<1>5. OfferedRead'
  BY <1>1, <1>2, HistoryStays DEF RoutingIInv, OfferedRead
<1>6. NothingLost'
  <2>1. SUFFICES ASSUME page.stable, NEW r \in Rules, NEW a \in Accounts, Routed(r, a)
                 PROVE  InReach(r, a)'
    BY <1>1, <1>2, ConfigStays DEF NothingLost
  <2>2. InReach(r, a)
    BY <2>1 DEF RoutingIInv, NothingLost
  <2>3. <<r, rules'[r]>> \in page'.rows
    BY <1>1, <1>2, <2>1, ConfigStays DEF Routed
  <2> QED  BY <1>2, <2>2, <2>3 DEF InReach
<1> QED  BY <1>1, <1>2, <1>3, <1>4, <1>5, <1>6 DEF RoutingIInv

LEMMA TargetsForRuleKeeps ==
  ASSUME RoutingIInv, NEW q, NEW rule, TargetsForRule(q, rule)
  PROVE  RoutingIInv'
<1>1. <<q, rule>> \in page.rows /\ page.at = "targets" /\ UNCHANGED config /\ during' = during
  BY DEF TargetsForRule
<1> DEFINE matched == Matches(rule, page.account)
           more    == {<<a, q>> : a \in targets[q]}
<1>2. /\ page'.at = "targets" /\ page'.account = page.account /\ page'.accounts = page.accounts
      /\ page'.stable = page.stable /\ page'.rows = page.rows \ {<<q, rule>>}
      /\ page'.found = IF matched THEN page.found \cup more ELSE page.found
      /\ page'.offered = page.offered /\ PageTyped'
  BY DEF TargetsForRule, PageTyped, RoutingIInv
<1>3. PICK e \in during.entered : e[1] = q /\ e[2] \in RuleForm /\ rule = Normalized(e[2])
  BY <1>1 DEF RoutingIInv, RowsRead
<1>4. q \in Rules /\ Saved(q)
  BY <1>1 DEF RoutingIInv, RowsRead
<1>5. ConfigTyped' /\ DuringTyped' /\ Recorded'
  <2>1. ConfigTyped'
    BY <1>1 DEF config, RoutingIInv, ConfigTyped, Saved
  <2> QED  BY <1>1, <2>1, HistoryStays
<1>6. AccountsRead' /\ RowsRead'
  BY <1>1, <1>2, ConfigStays DEF RoutingIInv, AccountsRead, RowsRead
<1>7. FoundRead'
  <2>1. CASE matched
    <3>1. CoveredThen(q, page.account)
      BY <1>3, <2>1, MatchesCovers DEF CoveredThen
    <3>2. \A a \in targets[q] : TargetedThen(q, a)
      <4>1. \A a \in targets[q] : <<q, a>> \in Now.targets
        BY <1>4 DEF Now, RoutingIInv, ConfigTyped
      <4> QED  BY <4>1 DEF TargetedThen, RoutingIInv, Recorded, IsPartOf
    <3>3. q # NoRule
      BY <1>4, RoutingAssumption
    <3>4. \A c \in page'.found : c \in page.found \/ (c[2] = q /\ c[1] \in targets[q])
      BY <1>2, <2>1
    <3> QED  BY <1>1, <1>2, <3>1, <3>2, <3>3, <3>4, HistoryStays DEF RoutingIInv, FoundRead
  <2>2. CASE ~matched
    BY <1>1, <1>2, <2>2, HistoryStays DEF RoutingIInv, FoundRead
  <2> QED  BY <2>1, <2>2
<1>8. OfferedRead'
  BY <1>1, <1>2, HistoryStays DEF RoutingIInv, OfferedRead
<1>9. NothingLost'
  <2>1. SUFFICES ASSUME page.stable, NEW r \in Rules, NEW a \in Accounts, Routed(r, a)
                 PROVE  InReach(r, a)'
    BY <1>1, <1>2, ConfigStays DEF NothingLost
  <2>2. InReach(r, a)
    BY <2>1 DEF RoutingIInv, NothingLost
  <2>3. CASE a = page.account /\ <<r, rules[r]>> = <<q, rule>>
    <3>1. matched
      BY <2>1, <2>3, CoversMatches DEF Routed, RoutingIInv, ConfigTyped
    <3>2. <<a, r>> \in more
      BY <2>1, <2>3 DEF Routed
    <3> QED  BY <1>2, <2>3, <3>1, <3>2 DEF InReach
  <2>4. CASE ~(a = page.account /\ <<r, rules[r]>> = <<q, rule>>)
    BY <1>1, <1>2, <2>2, <2>4, ConfigStays DEF InReach
  <2> QED  BY <2>3, <2>4
<1> QED  BY <1>2, <1>5, <1>6, <1>7, <1>8, <1>9 DEF RoutingIInv

LEMMA OfferCandidateKeeps ==
  ASSUME RoutingIInv, NEW c, OfferCandidate(c)
  PROVE  RoutingIInv'
<1>1. /\ page.at = "targets" /\ page.rows = {} /\ c \in page.found
      /\ UNCHANGED config /\ during' = during
  BY DEF OfferCandidate
<1> DEFINE wanted == c[1] = page.account /\ c[1] \in enabled
<1>2. /\ page'.at = "targets" /\ page'.account = page.account /\ page'.accounts = page.accounts
      /\ page'.stable = page.stable /\ page'.rows = {} /\ page'.found = page.found \ {c}
      /\ page'.offered = IF wanted THEN page.offered \cup {c} ELSE page.offered
      /\ PageTyped'
  BY <1>1 DEF OfferCandidate, PageTyped, RoutingIInv
<1>3. ConfigTyped' /\ DuringTyped' /\ Recorded'
  <2>1. ConfigTyped'
    BY <1>1 DEF config, RoutingIInv, ConfigTyped, Saved
  <2> QED  BY <1>1, <2>1, HistoryStays
<1>4. AccountsRead' /\ RowsRead'
  BY <1>2 DEF AccountsRead, RowsRead
<1>5. FoundRead'
  BY <1>1, <1>2, HistoryStays DEF RoutingIInv, FoundRead
<1>6. OfferedRead'
  <2>1. enabled \subseteq during.enabled
    BY DEF RoutingIInv, Recorded, IsPartOf, Now
  <2>2. c[1] = page.account =>
          TargetedThen(c[2], c[1]) /\ CoveredThen(c[2], c[1]) /\ c[2] # NoRule
    BY <1>1 DEF RoutingIInv, FoundRead
  <2> QED  BY <1>1, <1>2, <2>1, <2>2, HistoryStays DEF RoutingIInv, OfferedRead
<1>7. NothingLost'
  <2>1. SUFFICES ASSUME page.stable, NEW r \in Rules, NEW a \in Accounts, Routed(r, a)
                 PROVE  InReach(r, a)'
    BY <1>1, <1>2, ConfigStays DEF NothingLost
  <2>2. InReach(r, a) /\ a \in enabled
    BY <2>1 DEF RoutingIInv, NothingLost, Routed
  <2>3. CASE c = <<a, r>> /\ a = page.account
    BY <1>2, <2>2, <2>3 DEF InReach
  <2>4. CASE ~(c = <<a, r>> /\ a = page.account)
    BY <1>1, <1>2, <2>2, <2>4 DEF InReach
  <2> QED  BY <2>3, <2>4
<1> QED  BY <1>2, <1>3, <1>4, <1>5, <1>6, <1>7 DEF RoutingIInv

LEMMA NextAccountKeeps ==
  ASSUME RoutingIInv, NextAccount
  PROVE  RoutingIInv'
<1>1. /\ page.at = "targets" /\ page.rows = {} /\ page.found = {}
      /\ UNCHANGED config /\ during' = during
  BY DEF NextAccount
<1>2. /\ page'.at = "account" /\ page'.accounts = page.accounts /\ page'.stable = page.stable
      /\ page'.offered = page.offered /\ PageTyped'
  BY DEF NextAccount, PageTyped, RoutingIInv
<1>3. ConfigTyped' /\ DuringTyped' /\ Recorded'
  <2>1. ConfigTyped'
    BY <1>1 DEF config, RoutingIInv, ConfigTyped, Saved
  <2> QED  BY <1>1, <2>1, HistoryStays
<1>4. AccountsRead' /\ RowsRead' /\ FoundRead'
  BY <1>2 DEF AccountsRead, RowsRead, FoundRead
<1>5. OfferedRead'
  BY <1>1, <1>2, HistoryStays DEF RoutingIInv, OfferedRead
<1>6. NothingLost'
  BY <1>1, <1>2, ConfigStays DEF RoutingIInv, NothingLost, InReach
<1> QED  BY <1>2, <1>3, <1>4, <1>5, <1>6 DEF RoutingIInv

LEMMA AnswerPageKeeps ==
  ASSUME RoutingIInv, AnswerPage
  PROVE  RoutingIInv'
<1>1. page.at = "account" /\ page.accounts = {} /\ UNCHANGED config /\ during' = during
  BY DEF AnswerPage
<1>2. /\ page'.at = "done" /\ page'.accounts = page.accounts /\ page'.stable = page.stable
      /\ page'.offered = page.offered /\ PageTyped'
  BY DEF AnswerPage, PageTyped, RoutingIInv
<1>3. ConfigTyped' /\ DuringTyped' /\ Recorded'
  <2>1. ConfigTyped'
    BY <1>1 DEF config, RoutingIInv, ConfigTyped, Saved
  <2> QED  BY <1>1, <2>1, HistoryStays
<1>4. AccountsRead' /\ RowsRead' /\ FoundRead'
  BY <1>2 DEF AccountsRead, RowsRead, FoundRead
<1>5. OfferedRead'
  BY <1>1, <1>2, HistoryStays DEF RoutingIInv, OfferedRead
<1>6. NothingLost'
  BY <1>1, <1>2, ConfigStays DEF RoutingIInv, NothingLost, InReach
<1> QED  BY <1>2, <1>3, <1>4, <1>5, <1>6 DEF RoutingIInv

LEMMA RoutingNextIInv ==
  ASSUME RoutingIInv, [RoutingNext]_routingVars
  PROVE  RoutingIInv'
<1>1. ConfigTyped' /\ \A r \in Rules : Saved(r) => Saved(r)'
  BY NextConfigTyped DEF RoutingIInv
<1>2. ASSUME Changed PROVE RoutingIInv'
  BY <1>1, <1>2, ChangedIsRecorded DEF RoutingIInv
<1>3. ASSUME NEW a \in Accounts, ResolveRules(a) \/ SetAccountEnabled(a)
      PROVE  RoutingIInv'
  BY <1>2, <1>3, ResolveRulesKeeps DEF SetAccountEnabled
<1>4. ASSUME NEW read \in page.rows, TargetsForRule(read[1], read[2])
      PROVE  RoutingIInv'
  BY <1>4, TargetsForRuleKeeps
<1>5. ASSUME NEW r \in Rules, NEW form \in Forms, NEW ts \in SUBSET Accounts, SaveRule(r, form, ts)
      PROVE  RoutingIInv'
  BY <1>2, <1>5 DEF SaveRule
<1>6. ASSUME NEW r \in Rules, SetRuleEnabled(r)
      PROVE  RoutingIInv'
  BY <1>2, <1>6 DEF SetRuleEnabled
<1>7. ASSUME NEW c \in page.found, OfferCandidate(c)
      PROVE  RoutingIInv'
  BY <1>7, OfferCandidateKeeps
<1>8. CASE UNCHANGED routingVars
  <2>1. page' = page /\ UNCHANGED <<config, during>>
    BY <1>8 DEF routingVars, config
  <2>2. PageTyped' /\ AccountsRead' /\ RowsRead'
    BY <2>1, ConfigStays DEF RoutingIInv, PageTyped, AccountsRead, RowsRead
  <2>3. FoundRead' /\ OfferedRead'
    BY <2>1, HistoryStays DEF RoutingIInv, FoundRead, OfferedRead
  <2>4. NothingLost'
    BY <2>1, ConfigStays DEF RoutingIInv, NothingLost, InReach
  <2> QED  BY <1>1, <2>1, <2>2, <2>3, <2>4, HistoryStays DEF RoutingIInv
<1> QED
  BY <1>3, <1>4, <1>5, <1>6, <1>7, <1>8, ListAccountsKeeps, ListRulesKeeps, NextAccountKeeps,
     AnswerPageKeeps DEF RoutingNext

\* Whatever rules and accounts become while a page is put together, what the page holds was configured
\* at some time of its request, and what is wanted and has not changed since is still in its reach.
THEOREM RoutingInvariant == RoutingSpec => []RoutingIInv
<1>1. RoutingIInv /\ [RoutingNext]_routingVars => RoutingIInv'
  BY RoutingNextIInv
<1> QED  BY <1>1, RoutingInitIInv, PTL DEF RoutingSpec

\* However administrators change rules, targets and accounts while a page is served,
\* what it offers was configured (routedPaymentMethods, Resolve, targetsForRule).
THEOREM OffersConfigured == RoutingSpec => []OffersOnlyConfigured
<1>1. RoutingIInv => OffersOnlyConfigured
  BY DEF RoutingIInv, OfferedRead, TargetedThen, CoveredThen, OffersOnlyConfigured
<1> QED  BY <1>1, RoutingInvariant, PTL

\* And while nobody changes them, it offers all that is routed to all apps.
THEOREM OffersRouted == RoutingSpec => []OffersAllRouted
<1>1. RoutingIInv => OffersAllRouted
  BY DEF RoutingIInv, ConfigTyped, NothingLost, Routed, Survives, InReach, OffersAllRouted
<1> QED  BY <1>1, RoutingInvariant, PTL

\* A rule for named apps works for an app whose id has no capitals: storing app_ids in
\* lower case (normalizeStringList) is the only way in which such a rule is lost.
THEOREM LowerCaseAppRouted ==
  LowerCase[Purchase.app] = Purchase.app => (RoutingSpec => []IncludedAppIsRouted)
<1> SUFFICES ASSUME LowerCase[Purchase.app] = Purchase.app
             PROVE  RoutingSpec => []IncludedAppIsRouted
  OBVIOUS
<1>1. RoutingIInv => IncludedAppIsRouted
  BY DEF RoutingIInv, ConfigTyped, NothingLost, Routed, Survives, CoversApp, InReach,
         IncludedAppIsRouted
<1> QED  BY <1>1, RoutingInvariant, PTL

-----------------------------------------------------------------------------
(* WebhookMigration. *)

MigrationTyped ==
  /\ tables \in [Tables -> [column : BOOLEAN, required : BOOLEAN, rows : [RowIds -> Entries]]]
  /\ indexes \subseteq {"legacy", "resource"}
  /\ boot \in [Instances -> [next : 0..9, saw : {"nothing", "present", "absent"}]]

\* What is left behind by the statements an instance has passed, however it got there.
Passed(i) ==
  /\ boot[i].next > 1 => tables["events"].column
  /\ boot[i].next > 3 => tables["events"].required
  /\ boot[i].next > 4 => "legacy" \notin indexes
  /\ boot[i].next > 5 => tables["deliveries"].column
  /\ boot[i].next > 7 => tables["deliveries"].required
  /\ boot[i].next > 8 => "resource" \in indexes

\* A column that is required is filled; without the old index nobody writes without a
\* resource.
Schema ==
  /\ \A t \in Tables : tables[t].required => AllFilled(t)
  /\ "legacy" \notin indexes => tables["events"].required

MigrationIInv == MigrationTyped /\ Schema /\ OneEventEach /\ \A i \in Instances : Passed(i)

\* What no step undoes.
Grows ==
  /\ \A t \in Tables : /\ tables[t].column => tables'[t].column
                       /\ tables[t].required => tables'[t].required
  /\ "legacy" \notin indexes => "legacy" \notin indexes'
  /\ "resource" \in indexes => "resource" \in indexes'

-----------------------------------------------------------------------------
LEMMA StatementAt ==
  /\ Len(Statements) = 8 /\ Serving = 9
  /\ Statements[1] = S("add", "events")     /\ Statements[2] = S("fill", "events")
  /\ Statements[3] = S("require", "events") /\ Statements[4] = S("drop", "events")
  /\ Statements[5] = S("add", "deliveries") /\ Statements[6] = S("fill", "deliveries")
  /\ Statements[7] = S("require", "deliveries") /\ Statements[8] = S("create", "events")
BY DEF Statements, Serving

\* The effect of the statement an instance is at.
LEMMA EffectAt ==
  ASSUME NEW i \in Instances, Executed(i)
  PROVE  /\ \A t : Statement(i) = S("add", t) => AddColumn(t)
         /\ \A t : Statement(i) = S("fill", t) => Fill(t)
         /\ \A t : Statement(i) = S("require", t) => Require(t)
         /\ \A t : Statement(i) = S("drop", t) => DropLegacy
         /\ \A t : Statement(i) = S("create", t) => CreateIndex
<1>1. \A what, t : S(what, t).what = what /\ S(what, t).table = t
  BY DEF S
<1>2. ASSUME NEW t, Statement(i) = S("add", t) PROVE AddColumn(t)
  <2>1. Statement(i).what = "add" /\ Statement(i).table = t
    BY <1>1, <1>2
  <2> QED  BY <2>1 DEF Executed
<1>3. ASSUME NEW t, Statement(i) = S("fill", t) PROVE Fill(t)
  <2>1. Statement(i).what = "fill" /\ Statement(i).table = t
    BY <1>1, <1>3
  <2> QED  BY <2>1 DEF Executed
<1>4. ASSUME NEW t, Statement(i) = S("require", t) PROVE Require(t)
  <2>1. Statement(i).what = "require" /\ Statement(i).table = t
    BY <1>1, <1>4
  <2> QED  BY <2>1 DEF Executed
<1>5. ASSUME NEW t, Statement(i) = S("drop", t) PROVE DropLegacy
  <2>1. Statement(i).what = "drop" /\ Statement(i).table = t
    BY <1>1, <1>5
  <2> QED  BY <2>1 DEF Executed
<1>6. ASSUME NEW t, Statement(i) = S("create", t) PROVE CreateIndex
  <2>1. Statement(i).what = "create" /\ Statement(i).table = t
    BY <1>1, <1>6
  <2> QED  BY <2>1 DEF Executed
<1> QED  BY <1>2, <1>3, <1>4, <1>5, <1>6

\* An instance that has not moved, or starts from the first statement again.
LEMMA Stable ==
  ASSUME NEW i \in Instances, MigrationTyped, Passed(i), Grows,
         boot'[i].next \in {boot[i].next, 0, 1}
  PROVE  Passed(i)'
BY DEF Passed, Grows, Tables, MigrationTyped

LEMMA MigrationInitIInv == MigrationInit => MigrationIInv
<1> SUFFICES ASSUME MigrationInit PROVE MigrationIInv
  OBVIOUS
<1>1. MigrationTyped
  <2>1. tables \in [Tables -> [column : BOOLEAN, required : BOOLEAN, rows : [RowIds -> Entries]]]
    <3>1. [order : Payments, filled : {FALSE}] \subseteq [order : Payments, filled : BOOLEAN]
      OBVIOUS
    <3>2. {NoEntry} \cup [order : Payments, filled : {FALSE}] \subseteq Entries
      BY <3>1 DEF Entries
    <3>3. ASSUME NEW t \in Tables
          PROVE  tables[t] \in [column : BOOLEAN, required : BOOLEAN, rows : [RowIds -> Entries]]
      <4> DEFINE Old == {NoEntry} \cup [order : Payments, filled : {FALSE}]
      <4>1. Old \subseteq Entries
        BY <3>2
      <4>2. tables[t] \in [column : {FALSE}, required : {FALSE}, rows : [RowIds -> Old]]
        BY <3>3 DEF MigrationInit
      <4> HIDE DEF Old
      <4> QED  BY <4>1, <4>2
    <3> QED  BY <3>3 DEF MigrationInit
  <2>2. boot \in [Instances -> [next : 0..9, saw : {"nothing", "present", "absent"}]]
    BY DEF MigrationInit
  <2> QED  BY <2>1, <2>2 DEF MigrationInit, MigrationTyped
<1>2. Schema /\ OneEventEach
  BY DEF MigrationInit, Schema, OneEventEach
<1>3. \A i \in Instances : Passed(i)
  <2>1. \A i \in Instances : boot[i].next = 0
    BY DEF MigrationInit
  <2>2. ASSUME NEW i \in Instances PROVE Passed(i)
    <3>1. /\ ~(boot[i].next > 1) /\ ~(boot[i].next > 3) /\ ~(boot[i].next > 4)
          /\ ~(boot[i].next > 5) /\ ~(boot[i].next > 7) /\ ~(boot[i].next > 8)
      BY <2>1
    <3> QED  BY <3>1 DEF Passed
  <2> QED  BY <2>2
<1> QED  BY <1>1, <1>2, <1>3 DEF MigrationIInv

\* Instances that start, look or end leave the database as it is.
LEMMA BootMoves ==
  ASSUME MigrationIInv, NEW i \in Instances, Start(i) \/ Look(i) \/ BootFails(i)
  PROVE  MigrationIInv'
<1>1. UNCHANGED <<tables, indexes>>
  BY DEF Start, Look, BootFails
<1>2. /\ boot' \in [Instances -> [next : 0..9, saw : {"nothing", "present", "absent"}]]
      /\ \A j \in Instances : boot'[j].next \in {boot[j].next, 0, 1}
  BY DEF Start, Look, BootFails, MigrationIInv, MigrationTyped
<1>3. \A j \in Instances : Passed(j)'
  BY <1>1, <1>2, Stable DEF MigrationIInv, Grows
<1> QED  BY <1>1, <1>2, <1>3 DEF MigrationIInv, MigrationTyped, Schema, OneEventEach, OneRowEach, AllFilled, Stored

\* A row that is written: by the old version without a resource only as long as that
\* is allowed, and never for a stored event.
LEMMA WriteMoves ==
  ASSUME MigrationIInv, NEW t \in Tables, NEW o \in Payments, OldWrite(t, o) \/ NewWrite(t, o)
  PROVE  MigrationIInv'
<1>1. PICK id \in RowIds \ Stored(t), full \in BOOLEAN :
        /\ tables' = [tables EXCEPT ![t].rows[id] = [order |-> o, filled |-> full]]
        /\ ~full => ~tables[t].required
  BY DEF OldWrite, NewWrite, Insert
<1>2. UNCHANGED <<indexes, boot>>
  BY DEF OldWrite, NewWrite
<1>3. t = "events" => \A row \in Stored(t) : tables[t].rows[row].order # o
  <2>1. CASE OldWrite(t, o)
    BY <2>1 DEF OldWrite, MigrationIInv, Schema
  <2>2. CASE NewWrite(t, o)
    <3>1. PICK i \in Instances : boot[i].next = 9
      BY <2>2, StatementAt DEF NewWrite
    <3>2. "resource" \in indexes
      BY <3>1 DEF MigrationIInv, Passed
    <3> QED  BY <2>2, <3>2 DEF NewWrite
  <2> QED  BY <2>1, <2>2
<1>4. /\ tables' \in [Tables -> [column : BOOLEAN, required : BOOLEAN, rows : [RowIds -> Entries]]]
      /\ \A u \in Tables : /\ tables'[u].column = tables[u].column
                           /\ tables'[u].required = tables[u].required
      /\ \A u \in Tables \ {t} : tables'[u] = tables[u]
      /\ tables'[t].rows = [tables[t].rows EXCEPT ![id] = [order |-> o, filled |-> full]]
  BY <1>1 DEF MigrationIInv, MigrationTyped, Entries
<1>5. /\ \A row \in RowIds \ {id} : tables'[t].rows[row] = tables[t].rows[row]
      /\ tables'[t].rows[id] = [order |-> o, filled |-> full]
  BY <1>1, <1>4 DEF MigrationIInv, MigrationTyped
<1>6. Schema'
  <2>1. ASSUME NEW u \in Tables, tables'[u].required PROVE AllFilled(u)'
    <3>1. CASE u = t
      BY <1>1, <1>4, <1>5, <2>1, <3>1 DEF MigrationIInv, Schema, AllFilled, Stored
    <3>2. CASE u # t
      BY <1>4, <2>1, <3>2 DEF MigrationIInv, Schema, AllFilled, Stored
    <3> QED  BY <3>1, <3>2
  <2> QED  BY <1>2, <1>4, <2>1 DEF MigrationIInv, Schema, Tables
<1>7. OneEventEach'
  <2>1. CASE t = "events"
    BY <1>3, <1>5, <2>1 DEF MigrationIInv, OneEventEach, OneRowEach, Stored
  <2>2. CASE t # "events"
    BY <1>4, <2>2 DEF MigrationIInv, OneEventEach, OneRowEach, Stored, Tables
  <2> QED  BY <2>1, <2>2
<1>8. \A i \in Instances : Passed(i)'
  BY <1>2, <1>4, Stable DEF MigrationIInv, Grows
<1> QED  BY <1>2, <1>4, <1>6, <1>7, <1>8 DEF MigrationIInv, MigrationTyped

\* The tables and the indexes after a statement: what it does to the table it names,
\* and that it undoes nothing.
LEMMA ExecutedGrows ==
  ASSUME MigrationIInv, NEW i \in Instances, boot[i].next \in 1..8, Executed(i), ~Refused(i)
  PROVE  /\ tables' \in [Tables -> [column : BOOLEAN, required : BOOLEAN, rows : [RowIds -> Entries]]]
         /\ indexes' \subseteq {"legacy", "resource"}
         /\ Grows /\ Schema' /\ OneEventEach'
         /\ boot[i].next = 1 => tables'["events"].column
         /\ boot[i].next = 3 => tables'["events"].required
         /\ boot[i].next = 4 => "legacy" \notin indexes'
         /\ boot[i].next = 5 => tables'["deliveries"].column
         /\ boot[i].next = 7 => tables'["deliveries"].required
         /\ boot[i].next = 8 => "resource" \in indexes'
<1> USE DEF MigrationIInv, MigrationTyped
<1>1. CASE boot[i].next \in {1, 5}
  <2>1. PICK t \in Tables : /\ AddColumn(t)
                            /\ boot[i].next = 1 => t = "events"
                            /\ boot[i].next = 5 => t = "deliveries"
    <3>1. boot[i].next = 1 => AddColumn("events")
      BY StatementAt, EffectAt DEF Statement
    <3>2. boot[i].next = 5 => AddColumn("deliveries")
      BY StatementAt, EffectAt DEF Statement
    <3> QED  BY <1>1, <3>1, <3>2 DEF Tables
  <2>2. tables' \in [Tables -> [column : BOOLEAN, required : BOOLEAN, rows : [RowIds -> Entries]]]
    BY <2>1 DEF AddColumn
  <2>3. /\ tables'[t].column
        /\ \A u \in Tables : /\ tables'[u].rows = tables[u].rows
                             /\ tables'[u].required = tables[u].required
                             /\ tables[u].column => tables'[u].column
    BY <2>1 DEF AddColumn
  <2>4. Schema' /\ OneEventEach'
    BY <2>1, <2>3 DEF AddColumn, Schema, OneEventEach, OneRowEach, AllFilled, Stored, Tables
  <2> QED  BY <1>1, <2>1, <2>2, <2>3, <2>4 DEF AddColumn, Grows
<1>2. CASE boot[i].next \in {2, 6}
  <2>1. PICK t \in Tables : Fill(t)
    <3>1. boot[i].next = 2 => Fill("events")
      BY StatementAt, EffectAt DEF Statement
    <3>2. boot[i].next = 6 => Fill("deliveries")
      BY StatementAt, EffectAt DEF Statement
    <3> QED  BY <1>2, <3>1, <3>2 DEF Tables
  <2>2. /\ tables' \in [Tables -> [column : BOOLEAN, required : BOOLEAN, rows : [RowIds -> Entries]]]
        /\ \A u \in Tables : /\ tables'[u].required = tables[u].required
                             /\ tables'[u].column = tables[u].column
        /\ \A u \in Tables \ {t} : tables'[u] = tables[u]
        /\ tables'[t].rows = [id \in RowIds |-> IF id \in Stored(t) THEN [tables[t].rows[id] EXCEPT !.filled = TRUE] ELSE NoEntry]
    <3>1. \A id \in Stored(t) : [tables[t].rows[id] EXCEPT !.filled = TRUE] \in Entries
      <4>1. \A id \in Stored(t) : tables[t].rows[id] \in [order : Payments, filled : BOOLEAN]
        BY DEF Stored, Entries
      <4> QED  BY <4>1 DEF Entries
    <3>2. [id \in RowIds |-> IF id \in Stored(t) THEN [tables[t].rows[id] EXCEPT !.filled = TRUE] ELSE NoEntry] \in [RowIds -> Entries]
      BY <3>1 DEF Entries
    <3> QED  BY <2>1, <3>2 DEF Fill
  <2>3. /\ \A id \in Stored(t)' : id \in Stored(t) /\ tables'[t].rows[id].filled /\ tables'[t].rows[id].order = tables[t].rows[id].order
    BY <2>2 DEF Stored, Entries
  <2>4. Schema'
    <3>1. ASSUME NEW u \in Tables, tables'[u].required PROVE AllFilled(u)'
      BY <2>2, <2>3, <3>1 DEF Schema, AllFilled, Stored
    <3> QED  BY <2>1, <2>2, <3>1 DEF Fill, Schema, Tables
  <2>5. OneEventEach'
    <3>1. CASE t = "events"
      BY <2>3, <3>1 DEF OneEventEach, OneRowEach
    <3>2. CASE t # "events"
      BY <2>2, <3>2 DEF OneEventEach, OneRowEach, Stored, Tables
    <3> QED  BY <3>1, <3>2
  <2> QED  BY <1>2, <2>1, <2>2, <2>4, <2>5 DEF Fill, Grows
<1>3. CASE boot[i].next \in {3, 7}
  <2>1. PICK t \in Tables : /\ Require(t) /\ AllFilled(t)
                            /\ boot[i].next = 3 => t = "events"
                            /\ boot[i].next = 7 => t = "deliveries"
    <3>1. boot[i].next = 3 => Require("events") /\ AllFilled("events")
      BY StatementAt, EffectAt DEF Statement, Refused, S
    <3>2. boot[i].next = 7 => Require("deliveries") /\ AllFilled("deliveries")
      BY StatementAt, EffectAt DEF Statement, Refused, S
    <3> QED  BY <1>3, <3>1, <3>2 DEF Tables
  <2>2. tables' \in [Tables -> [column : BOOLEAN, required : BOOLEAN, rows : [RowIds -> Entries]]]
    BY <2>1 DEF Require
  <2>3. /\ tables'[t].required
        /\ \A u \in Tables : /\ tables'[u].rows = tables[u].rows
                             /\ (u # t) => (tables'[u].required = tables[u].required)
                             /\ tables[u].required => tables'[u].required
                             /\ tables[u].column => tables'[u].column
    BY <2>1 DEF Require
  <2>4. Schema' /\ OneEventEach'
    <3>1. ASSUME NEW u \in Tables, tables'[u].required PROVE AllFilled(u)'
      BY <2>1, <2>3, <3>1 DEF Schema, AllFilled, Stored
    <3> QED  BY <2>1, <2>3, <3>1 DEF Require, Schema, OneEventEach, OneRowEach, Stored, Tables
  <2> QED  BY <1>3, <2>1, <2>2, <2>3, <2>4 DEF Require, Grows
<1>4. CASE boot[i].next = 4
  <2>1. DropLegacy
    BY <1>4, StatementAt, EffectAt DEF Statement
  <2>2. tables["events"].required
    BY <1>4 DEF Passed
  <2>3. Schema' /\ OneEventEach'
    BY <2>1, <2>2 DEF DropLegacy, Schema, OneEventEach, OneRowEach, AllFilled, Stored
  <2> QED  BY <1>4, <2>1, <2>3 DEF DropLegacy, Grows
<1>5. CASE boot[i].next = 8
  <2>1. CreateIndex
    BY <1>5, StatementAt, EffectAt DEF Statement
  <2>2. Schema' /\ OneEventEach'
    BY <2>1 DEF CreateIndex, Schema, OneEventEach, OneRowEach, AllFilled, Stored
  <2> QED  BY <1>5, <2>1, <2>2 DEF CreateIndex, Grows
<1> QED  BY <1>1, <1>2, <1>3, <1>4, <1>5

\* A statement, which is refused or leads to the next.
LEMMA ExecuteMoves ==
  ASSUME MigrationIInv, NEW i \in Instances, Execute(i)
  PROVE  MigrationIInv'
<1>0. boot[i].next \in 1..8
  BY StatementAt DEF Execute, Booting
<1>1. CASE Refused(i)
  <2>1. UNCHANGED <<tables, indexes>> /\ boot' = [boot EXCEPT ![i].next = 0]
    BY <1>1 DEF Execute
  <2>2. /\ boot' \in [Instances -> [next : 0..9, saw : {"nothing", "present", "absent"}]]
        /\ \A j \in Instances : boot'[j].next \in {boot[j].next, 0, 1}
    BY <2>1 DEF MigrationIInv, MigrationTyped
  <2>3. \A j \in Instances : Passed(j)'
    BY <2>1, <2>2, Stable DEF MigrationIInv, Grows
  <2> QED  BY <2>1, <2>2, <2>3 DEF MigrationIInv, MigrationTyped, Schema, OneEventEach, OneRowEach, AllFilled, Stored
<1>2. CASE ~Refused(i)
  <2>1. Executed(i) /\ boot' = [boot EXCEPT ![i] = [next |-> boot[i].next + 1, saw |-> "nothing"]]
    BY <1>2 DEF Execute
  <2>2. /\ boot' \in [Instances -> [next : 0..9, saw : {"nothing", "present", "absent"}]]
        /\ boot'[i].next = boot[i].next + 1
        /\ \A j \in Instances \ {i} : boot'[j].next = boot[j].next
    BY <1>0, <2>1 DEF MigrationIInv, MigrationTyped
  <2>3. Grows
    BY <1>0, <1>2, <2>1, ExecutedGrows
  <2>4. ASSUME NEW j \in Instances \ {i} PROVE Passed(j)'
    BY <2>2, <2>3, Stable DEF MigrationIInv
  <2>5. Passed(i)'
    BY <1>0, <1>2, <2>1, <2>2, <2>3, ExecutedGrows DEF MigrationIInv, Passed, Grows, Tables
  <2>6. MigrationTyped' /\ Schema' /\ OneEventEach'
    BY <1>0, <1>2, <2>1, <2>2, ExecutedGrows DEF MigrationTyped
  <2> QED  BY <2>4, <2>5, <2>6 DEF MigrationIInv
<1> QED  BY <1>1, <1>2

LEMMA MigrationNextIInv == MigrationIInv /\ [MigrationNext]_migrationVars => MigrationIInv'
<1> SUFFICES ASSUME MigrationIInv, [MigrationNext]_migrationVars PROVE MigrationIInv'
  OBVIOUS
<1>1. ASSUME NEW i \in Instances, BootStep(i) \/ BootFails(i) PROVE MigrationIInv'
  BY <1>1, BootMoves, ExecuteMoves DEF BootStep
<1>2. ASSUME NEW t \in Tables, NEW o \in Payments, OldWrite(t, o) \/ NewWrite(t, o) PROVE MigrationIInv'
  BY <1>2, WriteMoves
<1>3. CASE UNCHANGED migrationVars
  BY <1>3 DEF migrationVars, MigrationIInv, MigrationTyped, Schema, OneEventEach, OneRowEach, AllFilled, Stored, Passed
<1> QED  BY <1>1, <1>2, <1>3 DEF MigrationNext

LEMMA MigrationInvariant == MigrationSpec => []MigrationIInv
BY MigrationInitIInv, MigrationNextIInv, PTL DEF MigrationSpec

-----------------------------------------------------------------------------
\* An instance serves only once every row of both tables has its resource, the columns
\* are required and the new index stands alone, whatever failed, died or wrote before
\* (migrateLegacyWebhookResourceSchema, database.Open).
THEOREM Served == MigrationSpec => []ServesMigrated
<1>1. MigrationIInv => ServesMigrated
  <2> SUFFICES ASSUME MigrationIInv, NEW i \in Instances, boot[i].next = Serving
               PROVE  /\ \A t \in Tables : tables[t].column /\ tables[t].required /\ AllFilled(t)
                      /\ indexes = {"resource"}
    BY DEF ServesMigrated
  <2>1. Passed(i) /\ boot[i].next = 9
    BY StatementAt DEF MigrationIInv
  <2>2. /\ \A t \in {"events", "deliveries"} : tables[t].column /\ tables[t].required
        /\ "legacy" \notin indexes /\ "resource" \in indexes
    <3>1. \A bound \in {1, 3, 4, 5, 7, 8} : boot[i].next > bound
      BY <2>1
    <3> QED  BY <2>1, <3>1 DEF Passed
  <2>3. indexes = {"resource"}
    BY <2>2 DEF MigrationIInv, MigrationTyped
  <2> QED  BY <2>2, <2>3 DEF MigrationIInv, Schema, Tables
<1> QED  BY <1>1, MigrationInvariant, PTL

\* No event is stored twice, also in the time without an index: nobody writes then
\* (the statements of both drivers, in their order).
THEOREM OneEvent == MigrationSpec => []OneEventEach
<1>1. MigrationIInv => OneEventEach
  BY DEF MigrationIInv
<1> QED  BY <1>1, MigrationInvariant, PTL

=============================================================================
