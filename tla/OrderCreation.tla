--------------------------- MODULE OrderCreation -----------------------------
(***************************************************************************)
(* The creation of the order of one merchant_order_no of one app: clients  *)
(* that send a create request of the open API, and repeat it when it was   *)
(* not answered, and administrators who create the order by hand.  The     *)
(* service looks the number up, checks the app, looks it up again and      *)
(* inserts, each in a database call of its own; the unique index on        *)
(* (app_id, merchant_order_no) has the last word.  Meanwhile the payer may *)
(* choose a channel, the administrator may edit the order or disable the   *)
(* app.  Requests are well formed and their channel takes the currency.    *)
(***************************************************************************)
EXTENDS Naturals, FiniteSets

CONSTANTS
  Clients,            \* create requests under way at the same time
  Requests,           \* what they may ask for
  Terms,              \* amount and currency: fixed once the order is created
  Texts,              \* subject and business_type
  Channels,           \* channel and pay_method in lower case
  Lower,              \* spelling in a request -> channel
  NoChannel,          \* no channel was asked for
  Nobody,             \* no order, or no call
  Disturbances,       \* bound: which of Select, Edit and Disable happen, once each
  MaxCreationFaults   \* bound: failed database calls, crashes, lost answers

ASSUME CreationAssumption ==
  /\ Nobody \notin Clients
  /\ Lower \in [DOMAIN Lower -> Channels \cup {NoChannel}]
  /\ Requests \subseteq [open : BOOLEAN, terms : Terms, text : Texts, channel : DOMAIN Lower]
  /\ Disturbances \subseteq {"select", "edit", "disable"}
  /\ MaxCreationFaults \in Nat

VARIABLES
  request,         \* what each client asks for
  orders,          \* the rows of the number in payment_orders, by the call that inserted them
  attempt,         \* per client, how far its call is, and the order it is about
  appEnabled,      \* the status of the app
  disturbed,       \* history: which disturbances happened
  creationFaults

creationVars == <<request, orders, attempt, appEnabled, disturbed, creationFaults>>
setting == <<request, appEnabled, disturbed>>

-----------------------------------------------------------------------------
NoOrder == [exists |-> FALSE]
OrderRows == [exists : {TRUE}, terms : Terms, text : Texts,
              channel : Channels \cup {NoChannel}, token : Clients \cup {Nobody}]
Progress == {"ask", "find", "app", "again", "appAgain", "insert", "rotate", "answer",
             "answered", "conflict", "refused", "unauthorized"}
Final    == {"answered", "conflict", "refused", "unauthorized"}

Created == {c \in Clients : orders[c].exists}

\* Mutant: the request is taken as it is spelled.
NormalizeNothing(q) == q

\* normalizeOpenOrderInput, normalizeManageInput.
Normalize(q) == [q EXCEPT !.channel = Lower[@]]

\* sameOpenOrder, on a normalized request.
SameOpenOrder(o, q) == o.terms = q.terms /\ o.text = q.text /\ o.channel = q.channel

Asked(c) == Normalize(request[c])

Reach(c, p)        == attempt' = [attempt EXCEPT ![c].at = p]
ReachWith(c, p, o) == attempt' = [attempt EXCEPT ![c] = [at |-> p, order |-> o]]

\* A client of the open API repeats a request that failed with a 5xx; the
\* administrator is told that the creation failed.
Failed(c) == IF request[c].open THEN ReachWith(c, "ask", Nobody) ELSE ReachWith(c, "refused", Nobody)

CreationInit ==
  /\ request \in [Clients -> Requests]
  /\ orders = [c \in Clients |-> NoOrder]
  /\ attempt = [c \in Clients |-> [at |-> "ask", order |-> Nobody]]
  /\ appEnabled = TRUE
  /\ disturbed = {} /\ creationFaults = 0

-----------------------------------------------------------------------------
\* The request arrives.  The open API refuses a disabled app at the door.
Ask(c) ==
  /\ attempt[c].at = "ask"
  /\ CASE ~request[c].open -> Reach(c, "again")
       [] request[c].open /\ appEnabled -> Reach(c, "find")
       [] OTHER -> Reach(c, "refused")
  /\ UNCHANGED <<orders, setting, creationFaults>>

\* The app cannot be read, or the request_id or the nonce not be stored: the error is
\* taken for wrong credentials or a replay, and a 401 is not repeated.
DoorFails(c) ==
  /\ attempt[c].at = "ask" /\ request[c].open
  /\ creationFaults < MaxCreationFaults /\ creationFaults' = creationFaults + 1
  /\ Reach(c, "unauthorized")
  /\ UNCHANGED <<orders, setting>>

\* Mutant: a request that differs is not noticed before the unique index.
FindDifferent(c) ==
  /\ attempt[c].at = "find"
  /\ \/ \E o \in Created : SameOpenOrder(orders[o], Asked(c)) /\ ReachWith(c, "rotate", o)
     \/ /\ ~\E o \in Created : SameOpenOrder(orders[o], Asked(c))
        /\ Reach(c, "app")
  /\ UNCHANGED <<orders, setting, creationFaults>>

\* FindByMerchantOrderNo: a repeated request goes on with the order of the first.
FindExisting(c) ==
  /\ attempt[c].at = "find"
  /\ \/ Created = {} /\ Reach(c, "app")
     \/ \E o \in Created : IF SameOpenOrder(orders[o], Asked(c))
                             THEN ReachWith(c, "rotate", o)
                             ELSE ReachWith(c, "conflict", o)
  /\ UNCHANGED <<orders, setting, creationFaults>>

\* resolveEnabledApp: once by CreateOpenOrder, once more by CreateOrder.
CheckApp(c) ==
  /\ attempt[c].at \in {"app", "appAgain"}
  /\ IF ~appEnabled THEN Reach(c, "refused")
     ELSE Reach(c, IF attempt[c].at = "app" THEN "again" ELSE "insert")
  /\ UNCHANGED <<orders, setting, creationFaults>>

\* CreateOrder looks again: ErrDuplicateOrder, which the open API answers with a 500.
FindAgain(c) ==
  /\ attempt[c].at = "again"
  /\ IF Created = {} THEN Reach(c, "appAgain") ELSE Failed(c)
  /\ UNCHANGED <<orders, setting, creationFaults>>

NewOrder(c) == [exists |-> TRUE, terms |-> Asked(c).terms, text |-> Asked(c).text,
                channel |-> Asked(c).channel, token |-> c]

\* Mutant: no unique index.
InsertAnother(c) ==
  /\ attempt[c].at = "insert"
  /\ orders' = [orders EXCEPT ![c] = NewOrder(c)] /\ ReachWith(c, "answer", c)
  /\ UNCHANGED <<setting, creationFaults>>

\* The insert, with the hash of a new checkout token, fails on the unique index if
\* the number is taken by then.
InsertOrder(c) ==
  /\ attempt[c].at = "insert"
  /\ \/ Created = {} /\ orders' = [orders EXCEPT ![c] = NewOrder(c)] /\ ReachWith(c, "answer", c)
     \/ Created # {} /\ Failed(c) /\ UNCHANGED orders
  /\ UNCHANGED <<setting, creationFaults>>

\* Mutant: the new token is answered but its hash is not stored.
RotateInAnswer(c) ==
  /\ attempt[c].at = "rotate" /\ Reach(c, "answer")
  /\ UNCHANGED <<orders, setting, creationFaults>>

\* SetCheckoutTokenHash: a repeated request gets a new token, the old link is dead.
RotateToken(c) ==
  /\ attempt[c].at = "rotate" /\ Reach(c, "answer")
  /\ orders' = [orders EXCEPT ![attempt[c].order].token = c]
  /\ UNCHANGED <<setting, creationFaults>>

AnswerClient(c) ==
  /\ attempt[c].at = "answer" /\ Reach(c, "answered")
  /\ UNCHANGED <<orders, setting, creationFaults>>

\* Behind the door a database call fails, the process dies or the answer is lost:
\* nobody learns the token of that call.  An error of the second look is taken for no
\* order.
CreationFails(c) ==
  /\ attempt[c].at \notin Final \cup {"ask"}
  /\ creationFaults < MaxCreationFaults /\ creationFaults' = creationFaults + 1
  /\ \/ Failed(c) /\ orders' = [o \in Clients |->
                       IF o \in Created /\ orders[o].token = c
                         THEN [orders[o] EXCEPT !.token = Nobody] ELSE orders[o]]
     \/ attempt[c].at = "again" /\ Reach(c, "appAgain") /\ UNCHANGED orders
  /\ UNCHANGED setting

-----------------------------------------------------------------------------
Happens(d) == d \in Disturbances \ disturbed /\ disturbed' = disturbed \cup {d}

\* The payer chooses a channel for an order without one (SetPaymentSelection).
ChooseChannel ==
  /\ Happens("select")
  /\ \E o \in Created, ch \in Channels :
       /\ orders[o].channel = NoChannel
       /\ orders' = [orders EXCEPT ![o].channel = ch]
  /\ UNCHANGED <<request, attempt, appEnabled, creationFaults>>

\* The administrator edits subject, business type, channel and pay method.
EditOrder ==
  /\ Happens("edit")
  /\ \E o \in Created, t \in Texts, ch \in Channels \cup {NoChannel} :
       orders' = [orders EXCEPT ![o].text = t, ![o].channel = ch]
  /\ UNCHANGED <<request, attempt, appEnabled, creationFaults>>

DisableApp ==
  /\ Happens("disable") /\ appEnabled' = FALSE
  /\ UNCHANGED <<request, orders, attempt, creationFaults>>

EnableApp ==
  /\ ~appEnabled /\ appEnabled' = TRUE
  /\ UNCHANGED <<request, orders, attempt, disturbed, creationFaults>>

-----------------------------------------------------------------------------
CreationStep(c) ==
  \/ Ask(c) \/ FindExisting(c) \/ CheckApp(c) \/ FindAgain(c)
  \/ InsertOrder(c) \/ RotateToken(c) \/ AnswerClient(c)

CreationNext ==
  \/ \E c \in Clients : CreationStep(c) \/ DoorFails(c) \/ CreationFails(c)
  \/ ChooseChannel \/ EditOrder \/ DisableApp \/ EnableApp

CreationSpec == CreationInit /\ [][CreationNext]_creationVars

\* A call that was accepted goes on, and a client repeats what was not answered.
CreationFairness == \A c \in Clients : WF_creationVars(CreationStep(c))

-----------------------------------------------------------------------------
(* Properties. *)

\* Every variable holds what its column or call may hold.
CreationTypeOK ==
  /\ request \in [Clients -> Requests]
  /\ orders \in [Clients -> {NoOrder} \cup OrderRows]
  /\ attempt \in [Clients -> [at : Progress, order : Clients \cup {Nobody}]]
  /\ appEnabled \in BOOLEAN
  /\ disturbed \subseteq Disturbances
  /\ creationFaults \in 0..MaxCreationFaults

\* However requests interleave, fail and repeat, all that were answered were
\* answered with one and the same order, and it is for the amount and currency each
\* of them asked for.
AnsweredAlike ==
  \A c, d \in Clients :
    attempt[c].at = "answered" =>
      /\ attempt[c].order \in Created
      /\ orders[attempt[c].order].terms = request[c].terms
      /\ attempt[d].at = "answered" => attempt[d].order = attempt[c].order

\* What c wants, however it is spelled and through whichever interface.
Wanted(c) == [terms |-> request[c].terms, text |-> request[c].text,
              channel |-> Lower[request[c].channel]]

\* A request is turned away with IDEMPOTENCY_CONFLICT only if it wants something else
\* than the request that created the order, or the order was changed.
ConflictHasReason ==
  \A c \in Clients :
    attempt[c].at = "conflict" =>
      \/ Wanted(c) # Wanted(attempt[c].order)
      \/ disturbed \cap {"select", "edit"} # {}

\* When all requests of the open API are answered, none by a failure at the door, and
\* nothing was changed, one of them holds the link that opens the checkout page:
\* crashes between the insert, the rotation and the answer do not leave an order
\* nobody can pay.
LinkIsHeld ==
  (/\ \A c \in Clients : request[c].open /\ attempt[c].at \in Final \ {"unauthorized"}
   /\ disturbed = {} /\ Created # {})
    => \E c \in Clients : /\ attempt[c].at = "answered"
                          /\ orders[attempt[c].order].token = c

\* Every request gets a final answer: the 500 of a request that lost the race, or
\* failed half way, is followed by an answer when it is repeated.
EveryRequestIsAnswered ==
  \A c \in Clients : (attempt[c].at = "ask") ~> (attempt[c].at \in Final)

=============================================================================
