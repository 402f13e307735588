------------------------- MODULE OrderCreationProofs -------------------------
(***************************************************************************)
(* Theorems about OrderCreation, for every set of clients, of requests and *)
(* of disturbances, and any number of faults.                              *)
(***************************************************************************)
EXTENDS OrderCreation, TLAPS

\* A call that has no token yet and may still get one.
Seeking == {"ask", "find", "app", "again", "appAgain", "insert", "rotate"}

\* A call that has no token and is not told so by the service itself.
Unserved == Seeking \cup {"unauthorized"}

\* A call that goes on with an order goes on with one that exists, for the terms it
\* asked for and, while nothing was changed, for all it wants.  The open API refuses
\* a request only because the app was disabled.
ClientInv(c) ==
  LET a == attempt[c]
  IN  /\ a.at \in {"rotate", "answer", "answered", "conflict"} => a.order \in Created
      /\ a.at \in {"rotate", "answer", "answered"} =>
           orders[a.order].terms = request[c].terms
      /\ a.at \in {"rotate", "answer", "answered"} =>
           disturbed \cap {"select", "edit"} # {} \/ Wanted(c) = Wanted(a.order)
      /\ a.at = "conflict" =>
           disturbed \cap {"select", "edit"} # {} \/ Wanted(c) # Wanted(a.order)
      /\ a.at = "refused" /\ request[c].open => disturbed # {}

OneOrder == \A o, p \in Created : o = p

\* An order that was not changed is what the call that created it wanted.
Untouched ==
  disturbed \cap {"select", "edit"} = {} =>
    \A o \in Created :
      [terms |-> orders[o].terms, text |-> orders[o].text, channel |-> orders[o].channel]
        = Wanted(o)

\* While nothing was changed, the call whose token the order has answers it or has
\* answered it, or a call that wants the order is still after a token or failed at the
\* door.
TokenInv ==
  (disturbed = {} /\ \A c \in Clients : request[c].open) =>
    \A o \in Created :
      \/ /\ orders[o].token \in Clients
         /\ attempt[orders[o].token].at \in {"answer", "answered"}
         /\ attempt[orders[o].token].order = o
      \/ \E c \in Clients : attempt[c].at \in Unserved /\ Wanted(c) = Wanted(o)

IInv == /\ CreationTypeOK /\ OneOrder /\ Untouched /\ TokenInv
        /\ (disturbed = {} => appEnabled)
        /\ \A c \in Clients : ClientInv(c)

-----------------------------------------------------------------------------
\* What no step undoes.
Kept == /\ request' = request /\ disturbed \subseteq disturbed'
        /\ Created \subseteq Created'
        /\ \A o \in Created : orders'[o].terms = orders[o].terms

LEMMA Stable ==
  ASSUME NEW c \in Clients, ClientInv(c), attempt'[c] = attempt[c], Kept
  PROVE  ClientInv(c)'
BY DEF ClientInv, Kept, Wanted

\* A call that moves on keeps its order.
LEMMA ReachIsReachWith ==
  ASSUME CreationTypeOK, NEW c \in Clients, NEW p, Reach(c, p)
  PROVE  ReachWith(c, p, attempt[c].order)
<1>1. /\ attempt \in [Clients -> [at : Progress, order : Clients \cup {Nobody}]]
      /\ attempt[c] \in [at : Progress, order : Clients \cup {Nobody}]
  BY DEF CreationTypeOK
<1>2. [attempt[c] EXCEPT !.at = p] = [at |-> p, order |-> attempt[c].order]
  BY <1>1
<1>3. attempt' = [attempt EXCEPT ![c] = [attempt[c] EXCEPT !.at = p]]
  BY <1>1 DEF Reach
<1> QED  BY <1>2, <1>3 DEF ReachWith

\* What a normalized request and the comparison with an order say of what is wanted.
LEMMA AskedIsWanted ==
  ASSUME CreationTypeOK, NEW c \in Clients
  PROVE  /\ Asked(c).terms = Wanted(c).terms /\ Asked(c).text = Wanted(c).text
         /\ Asked(c).channel = Wanted(c).channel
         /\ Wanted(c).terms = request[c].terms
         /\ request[c].terms \in Terms /\ request[c].text \in Texts
         /\ request[c].open \in BOOLEAN
         /\ Wanted(c).channel \in Channels \cup {NoChannel}
BY CreationAssumption DEF CreationTypeOK, Asked, Normalize, Wanted

LEMMA SameIsWanted ==
  ASSUME CreationTypeOK, Untouched, disturbed \cap {"select", "edit"} = {},
         NEW c \in Clients, NEW o \in Created
  PROVE  SameOpenOrder(orders[o], Asked(c)) <=> Wanted(c) = Wanted(o)
BY AskedIsWanted DEF SameOpenOrder, Untouched, Wanted, Created

\* A call that moves on keeps what TokenInv says, if no order changes.
Moves(c) ==
  /\ attempt[c].at # "answered"
  /\ attempt[c].at = "answer" =>
       attempt'[c].at = "answered" /\ attempt'[c].order = attempt[c].order
  /\ \A o \in Created :
       (/\ disturbed = {} /\ request[c].open
        /\ attempt[c].at \in Unserved /\ Wanted(c) = Wanted(o)) => attempt'[c].at \in Unserved

LEMMA TokenStable ==
  ASSUME TokenInv, NEW c \in Clients, Moves(c), UNCHANGED <<orders, request, disturbed>>,
         \A d \in Clients \ {c} : attempt'[d] = attempt[d]
  PROVE  TokenInv'
<1> SUFFICES ASSUME disturbed = {}, \A d \in Clients : request[d].open, NEW o \in Created
             PROVE  \/ /\ orders[o].token \in Clients
                       /\ attempt'[orders[o].token].at \in {"answer", "answered"}
                       /\ attempt'[orders[o].token].order = o
                    \/ \E d \in Clients : attempt'[d].at \in Unserved /\ Wanted(d) = Wanted(o)
  BY DEF TokenInv, Created, Wanted
<1>1. CASE /\ orders[o].token \in Clients
           /\ attempt[orders[o].token].at \in {"answer", "answered"}
           /\ attempt[orders[o].token].order = o
  BY <1>1 DEF Moves
<1>2. ASSUME NEW d \in Clients, attempt[d].at \in Unserved, Wanted(d) = Wanted(o)
      PROVE  attempt'[d].at \in Unserved
  BY <1>2 DEF Moves
<1> QED  BY <1>1, <1>2 DEF TokenInv

-----------------------------------------------------------------------------
LEMMA InitIInv == CreationInit => IInv
<1> SUFFICES ASSUME CreationInit PROVE IInv
  OBVIOUS
<1>1. Created = {}
  BY DEF CreationInit, Created, NoOrder
<1>2. CreationTypeOK
  <2>1. orders \in [Clients -> {NoOrder} \cup OrderRows]
    BY DEF CreationInit
  <2>2. attempt \in [Clients -> [at : Progress, order : Clients \cup {Nobody}]]
    BY DEF CreationInit, Progress
  <2>3. appEnabled \in BOOLEAN
    BY DEF CreationInit
  <2> QED  BY <2>1, <2>2, <2>3, CreationAssumption DEF CreationInit, CreationTypeOK
<1>3. OneOrder /\ Untouched /\ TokenInv
  BY <1>1 DEF OneOrder, Untouched, TokenInv
<1>4. disturbed = {} => appEnabled
  BY DEF CreationInit
<1>5. \A c \in Clients : ClientInv(c)
  BY DEF CreationInit, ClientInv
<1> QED  BY <1>2, <1>3, <1>4, <1>5 DEF IInv

\* The steps of a call that leave the order as it is.
LEMMA LookingSteps ==
  ASSUME IInv, NEW c \in Clients,
         \/ Ask(c) \/ FindExisting(c) \/ CheckApp(c) \/ FindAgain(c) \/ AnswerClient(c)
         \/ InsertOrder(c) /\ Created # {}
  PROVE  IInv'
<1>0. /\ CreationTypeOK /\ OneOrder /\ Untouched /\ TokenInv /\ ClientInv(c)
      /\ disturbed = {} => appEnabled
      /\ \A d \in Clients : ClientInv(d)
      /\ attempt \in [Clients -> [at : Progress, order : Clients \cup {Nobody}]]
      /\ attempt[c] \in [at : Progress, order : Clients \cup {Nobody}]
      /\ request[c].open \in BOOLEAN
  BY AskedIsWanted DEF IInv, CreationTypeOK
<1>q. ASSUME NEW p \in Progress, NEW o \in Clients \cup {Nobody}, ReachWith(c, p, o),
             UNCHANGED <<orders, setting, creationFaults>>,
             ClientInv(c)', Moves(c)
      PROVE  IInv'
  <2>1. /\ attempt' \in [Clients -> [at : Progress, order : Clients \cup {Nobody}]]
        /\ \A d \in Clients \ {c} : attempt'[d] = attempt[d]
    BY <1>0, <1>q DEF ReachWith
  <2>2. CreationTypeOK'
    BY <1>0, <1>q, <2>1 DEF CreationTypeOK, setting
  <2>3. Kept
    BY <1>q DEF Kept, setting, Created
  <2>4. \A d \in Clients : ClientInv(d)'
    BY <1>0, <1>q, <2>1, <2>3, Stable
  <2>5. TokenInv'
    BY <1>0, <1>q, <2>1, TokenStable DEF setting
  <2>6. OneOrder' /\ Untouched' /\ (disturbed = {} => appEnabled)'
    BY <1>0, <1>q DEF OneOrder, Untouched, setting, Created, Wanted
  <2> QED  BY <2>2, <2>4, <2>5, <2>6 DEF IInv
\* A call that goes on without an order.
<1>r. ASSUME NEW p \in Progress, ReachWith(c, p, attempt[c].order) \/ ReachWith(c, p, Nobody),
             UNCHANGED <<orders, setting, creationFaults>>,
             attempt[c].at \in Seeking,
             \/ p \in Seeking \ {"rotate"}
             \/ p = "refused" /\ (disturbed # {} \/ ~request[c].open)
      PROVE  IInv'
  <2>1. attempt'[c].at = p
    BY <1>0, <1>r DEF ReachWith
  <2>2. ClientInv(c)'
    BY <1>r, <2>1 DEF ClientInv, Seeking, setting
  <2>3. Moves(c)
    BY <1>r, <2>1 DEF Moves, Seeking, Unserved
  <2> QED  BY <1>0, <1>q, <1>r, <2>2, <2>3
<1>s. ASSUME NEW p, Reach(c, p) PROVE ReachWith(c, p, attempt[c].order)
  BY <1>0, <1>s, ReachIsReachWith
<1>f. ASSUME Failed(c), UNCHANGED <<orders, setting, creationFaults>>,
             attempt[c].at \in Seeking
      PROVE  IInv'
  <2>1. CASE request[c].open
    BY <1>f, <1>r, <2>1 DEF Failed, Progress, Seeking
  <2>2. CASE ~request[c].open
    BY <1>f, <1>r, <2>2 DEF Failed, Progress, Seeking
  <2> QED  BY <2>1, <2>2
<1>1. CASE Ask(c)
  <2>1. attempt[c].at \in Seeking /\ UNCHANGED <<orders, setting, creationFaults>>
    BY <1>1 DEF Ask, Seeking
  <2>2. \/ Reach(c, "again") \/ Reach(c, "find")
        \/ Reach(c, "refused") /\ request[c].open /\ ~appEnabled
    BY <1>0, <1>1 DEF Ask
  <2> QED  BY <1>0, <1>r, <1>s, <2>1, <2>2 DEF Progress, Seeking
<1>2. CASE FindExisting(c)
  <2>1. attempt[c].at = "find" /\ UNCHANGED <<orders, setting, creationFaults>>
    BY <1>2 DEF FindExisting
  <2>2. CASE Reach(c, "app")
    BY <1>r, <1>s, <2>1, <2>2 DEF Progress, Seeking
  <2>3. ASSUME NEW o \in Created, SameOpenOrder(orders[o], Asked(c)), ReachWith(c, "rotate", o)
        PROVE  IInv'
    <3>1. o \in Clients /\ attempt'[c] = [at |-> "rotate", order |-> o]
      BY <1>0, <2>3 DEF Created, ReachWith
    <3>2. orders[o].terms = request[c].terms
      BY <1>0, <2>3, AskedIsWanted DEF SameOpenOrder
    <3>3. disturbed \cap {"select", "edit"} # {} \/ Wanted(c) = Wanted(o)
      BY <1>0, <2>3, SameIsWanted
    <3>4. ClientInv(c)'
      BY <2>1, <2>3, <3>1, <3>2, <3>3 DEF ClientInv, setting, Created, Wanted
    <3>5. Moves(c)
      BY <2>1, <3>1 DEF Moves, Seeking, Unserved
    <3> QED  BY <1>q, <2>1, <2>3, <3>1, <3>4, <3>5 DEF Progress
  <2>4. ASSUME NEW o \in Created, ~SameOpenOrder(orders[o], Asked(c)), ReachWith(c, "conflict", o)
        PROVE  IInv'
    <3>1. o \in Clients /\ attempt'[c] = [at |-> "conflict", order |-> o]
      BY <1>0, <2>4 DEF Created, ReachWith
    <3>2. disturbed \cap {"select", "edit"} # {} \/ Wanted(c) # Wanted(o)
      BY <1>0, <2>4, SameIsWanted
    <3>3. ClientInv(c)'
      BY <2>1, <2>4, <3>1, <3>2 DEF ClientInv, setting, Created, Wanted
    <3>4. Moves(c)
      <4>1. \A p \in Created : p = o
        BY <1>0, <2>4 DEF OneOrder
      <4> QED  BY <2>1, <3>2, <4>1 DEF Moves
    <3> QED  BY <1>q, <2>1, <2>4, <3>1, <3>3, <3>4 DEF Progress
  <2> QED  BY <1>2, <2>2, <2>3, <2>4 DEF FindExisting
<1>3. CASE CheckApp(c)
  <2>1. attempt[c].at \in Seeking /\ UNCHANGED <<orders, setting, creationFaults>>
    BY <1>3 DEF CheckApp, Seeking
  <2>2. \/ Reach(c, "again") \/ Reach(c, "insert")
        \/ Reach(c, "refused") /\ ~appEnabled
    <3> DEFINE next == IF attempt[c].at = "app" THEN "again" ELSE "insert"
    <3>1. (~appEnabled /\ Reach(c, "refused")) \/ Reach(c, next)
      BY <1>3 DEF CheckApp
    <3>2. next = "again" \/ next = "insert"
      OBVIOUS
    <3> HIDE DEF next
    <3> QED  BY <3>1, <3>2 DEF Reach
  <2> QED  BY <1>0, <1>r, <1>s, <2>1, <2>2 DEF Progress, Seeking
<1>4. CASE FindAgain(c)
  <2>1. attempt[c].at \in Seeking /\ UNCHANGED <<orders, setting, creationFaults>>
    BY <1>4 DEF FindAgain, Seeking
  <2>2. Reach(c, "appAgain") \/ Failed(c)
    BY <1>4 DEF FindAgain
  <2> QED  BY <1>f, <1>r, <1>s, <2>1, <2>2 DEF Progress, Seeking
<1>5. CASE AnswerClient(c)
  <2>1. /\ attempt[c].at = "answer" /\ Reach(c, "answered")
        /\ UNCHANGED <<orders, setting, creationFaults>>
    BY <1>5 DEF AnswerClient
  <2>2. attempt'[c].at = "answered" /\ attempt'[c].order = attempt[c].order
    BY <1>0, <2>1 DEF Reach
  <2>3. ClientInv(c)' /\ Moves(c)
    BY <1>0, <2>1, <2>2 DEF ClientInv, Moves, setting, Created, Wanted, Seeking, Unserved
  <2> QED  BY <1>0, <1>q, <1>s, <2>1, <2>3 DEF Progress
<1>6. CASE InsertOrder(c) /\ Created # {}
  <2>1. attempt[c].at \in Seeking /\ UNCHANGED <<orders, setting, creationFaults>> /\ Failed(c)
    BY <1>6 DEF InsertOrder, Seeking
  <2> QED  BY <1>f, <2>1
<1> QED  BY <1>1, <1>2, <1>3, <1>4, <1>5, <1>6

\* The steps of a call that give the order its token.
LEMMA TokenSteps ==
  ASSUME IInv, NEW c \in Clients, (InsertOrder(c) /\ Created = {}) \/ RotateToken(c)
  PROVE  IInv'
<1>0. /\ CreationTypeOK /\ OneOrder /\ Untouched /\ TokenInv /\ ClientInv(c)
      /\ disturbed = {} => appEnabled
      /\ \A d \in Clients : ClientInv(d)
      /\ attempt \in [Clients -> [at : Progress, order : Clients \cup {Nobody}]]
      /\ orders \in [Clients -> {NoOrder} \cup OrderRows]
  BY DEF IInv, CreationTypeOK
<1>q. ASSUME NEW o \in Clients, ReachWith(c, "answer", o), UNCHANGED <<setting, creationFaults>>,
             orders' \in [Clients -> {NoOrder} \cup OrderRows],
             Created' = {o}, orders'[o].token = c, ClientInv(c)', Kept, Untouched'
      PROVE  IInv'
  <2>1. /\ attempt' \in [Clients -> [at : Progress, order : Clients \cup {Nobody}]]
        /\ attempt'[c] = [at |-> "answer", order |-> o]
        /\ \A d \in Clients \ {c} : attempt'[d] = attempt[d]
    BY <1>0, <1>q DEF ReachWith, Progress
  <2>2. CreationTypeOK'
    BY <1>0, <1>q, <2>1 DEF CreationTypeOK, setting
  <2>3. \A d \in Clients : ClientInv(d)'
    BY <1>0, <1>q, <2>1, Stable
  <2>4. TokenInv' /\ OneOrder' /\ (disturbed = {} => appEnabled)'
    BY <1>0, <1>q, <2>1 DEF TokenInv, OneOrder, setting
  <2> QED  BY <1>q, <2>2, <2>3, <2>4 DEF IInv
<1>1. CASE InsertOrder(c) /\ Created = {}
  <2>1. /\ orders' = [orders EXCEPT ![c] = NewOrder(c)] /\ ReachWith(c, "answer", c)
        /\ UNCHANGED <<setting, creationFaults>> /\ Created = {}
    BY <1>1 DEF InsertOrder
  <2>2. /\ NewOrder(c) \in OrderRows /\ NewOrder(c).exists /\ NewOrder(c).token = c
        /\ NewOrder(c).terms = request[c].terms
        /\ [terms |-> NewOrder(c).terms, text |-> NewOrder(c).text,
            channel |-> NewOrder(c).channel] = Wanted(c)
    BY <1>0, AskedIsWanted DEF NewOrder, OrderRows, Wanted
  <2>3. orders' \in [Clients -> {NoOrder} \cup OrderRows] /\ orders'[c] = NewOrder(c)
    BY <1>0, <2>1, <2>2
  <2>4. Created' = {c}
    BY <1>0, <2>1, <2>2, <2>3 DEF Created
  <2>5. Kept
    BY <2>1, <2>4 DEF Kept, setting
  <2>6. Untouched'
    BY <2>1, <2>2, <2>3, <2>4 DEF Untouched, setting, Wanted
  <2>7. attempt'[c] = [at |-> "answer", order |-> c]
    BY <1>0, <2>1 DEF ReachWith
  <2>8. ClientInv(c)'
    BY <2>1, <2>2, <2>3, <2>4, <2>7 DEF ClientInv, setting, Wanted
  <2> QED  BY <1>q, <2>1, <2>2, <2>3, <2>4, <2>5, <2>6, <2>8
<1>2. CASE RotateToken(c)
  <2> DEFINE o == attempt[c].order
  <2>1. /\ attempt[c].at = "rotate" /\ Reach(c, "answer")
        /\ orders' = [orders EXCEPT ![o].token = c]
        /\ UNCHANGED <<setting, creationFaults>>
    BY <1>2 DEF RotateToken
  <2>2. o \in Created /\ o \in Clients /\ orders[o] \in OrderRows
    BY <1>0, <2>1 DEF ClientInv, Created, NoOrder
  <2>3. /\ orders' \in [Clients -> {NoOrder} \cup OrderRows]
        /\ orders'[o] \in OrderRows /\ orders'[o].token = c
        /\ orders'[o].terms = orders[o].terms /\ orders'[o].text = orders[o].text
        /\ orders'[o].channel = orders[o].channel
        /\ \A d \in Clients \ {o} : orders'[d] = orders[d]
    BY <1>0, <2>1, <2>2 DEF OrderRows
  <2>4. Created' = Created /\ Created = {o}
    <3>1. orders'[o].exists /\ orders[o].exists
      BY <2>2, <2>3 DEF OrderRows
    <3>2. Created' = Created
      BY <2>3, <3>1 DEF Created
    <3>3. Created = {o}
      BY <1>0, <2>2 DEF OneOrder
    <3> QED  BY <3>2, <3>3
  <2>5. Kept
    BY <2>1, <2>3, <2>4 DEF Kept, setting
  <2>6. Untouched'
    BY <1>0, <2>1, <2>3, <2>4 DEF Untouched, setting, Wanted
  <2>7. ReachWith(c, "answer", o) /\ attempt'[c] = [at |-> "answer", order |-> o]
    BY <1>0, <2>1, ReachIsReachWith DEF ReachWith
  <2>8. ClientInv(c)'
    BY <1>0, <2>1, <2>3, <2>4, <2>7 DEF ClientInv, setting, Wanted
  <2> HIDE DEF o
  <2> QED  BY <1>q, <2>1, <2>2, <2>3, <2>4, <2>5, <2>6, <2>7, <2>8
<1> QED  BY <1>1, <1>2

\* A fault takes the call back to the start, or ends it, and loses its token.
LEMMA FaultStep ==
  ASSUME IInv, NEW c \in Clients, CreationFails(c)
  PROVE  IInv'
<1>0. /\ CreationTypeOK /\ OneOrder /\ Untouched /\ TokenInv /\ ClientInv(c)
      /\ disturbed = {} => appEnabled
      /\ \A d \in Clients : ClientInv(d)
      /\ attempt \in [Clients -> [at : Progress, order : Clients \cup {Nobody}]]
      /\ attempt[c] \in [at : Progress, order : Clients \cup {Nobody}]
      /\ orders \in [Clients -> {NoOrder} \cup OrderRows]
      /\ request[c].open \in BOOLEAN
  BY AskedIsWanted DEF IInv, CreationTypeOK
<1>1. /\ UNCHANGED setting /\ creationFaults' \in 0..MaxCreationFaults
      /\ attempt[c].at \notin Final
  BY <1>0, CreationAssumption DEF CreationFails, CreationTypeOK
<1>2. CASE attempt[c].at = "again" /\ Reach(c, "appAgain") /\ UNCHANGED orders
  <2>1. ReachWith(c, "appAgain", attempt[c].order)
    BY <1>0, <1>2, ReachIsReachWith
  <2>2. /\ attempt' \in [Clients -> [at : Progress, order : Clients \cup {Nobody}]]
        /\ attempt'[c].at = "appAgain"
        /\ \A d \in Clients \ {c} : attempt'[d] = attempt[d]
    BY <1>0, <2>1 DEF ReachWith, Progress
  <2>3. CreationTypeOK'
    BY <1>0, <1>1, <1>2, <2>2 DEF CreationTypeOK, setting
  <2>4. \A d \in Clients : ClientInv(d)'
    <3>1. ClientInv(c)'
      BY <2>2 DEF ClientInv
    <3>2. Kept
      BY <1>1, <1>2 DEF Kept, setting, Created
    <3> QED  BY <1>0, <2>2, <3>1, <3>2, Stable
  <2>5. TokenInv'
    <3>1. Moves(c)
      BY <1>2, <2>2 DEF Moves, Seeking, Unserved
    <3> QED  BY <1>0, <1>1, <1>2, <2>2, <3>1, TokenStable DEF setting
  <2>6. OneOrder' /\ Untouched' /\ (disturbed = {} => appEnabled)'
    BY <1>0, <1>1, <1>2 DEF OneOrder, Untouched, setting, Created, Wanted
  <2> QED  BY <2>3, <2>4, <2>5, <2>6 DEF IInv
<1>3. ASSUME Failed(c),
             orders' = [o \in Clients |->
                         IF o \in Created /\ orders[o].token = c
                           THEN [orders[o] EXCEPT !.token = Nobody] ELSE orders[o]]
      PROVE  IInv'
  <2>1. /\ attempt' \in [Clients -> [at : Progress, order : Clients \cup {Nobody}]]
        /\ attempt'[c].at = IF request[c].open THEN "ask" ELSE "refused"
        /\ \A d \in Clients \ {c} : attempt'[d] = attempt[d]
    <3>1. CASE request[c].open
      BY <1>0, <1>3, <3>1 DEF Failed, ReachWith, Progress
    <3>2. CASE ~request[c].open
      BY <1>0, <1>3, <3>2 DEF Failed, ReachWith, Progress
    <3> QED  BY <3>1, <3>2
  <2>2. ASSUME NEW o \in Clients
        PROVE  /\ orders'[o] \in {NoOrder} \cup OrderRows
               /\ orders'[o].exists = orders[o].exists
               /\ o \in Created =>
                    /\ orders'[o].terms = orders[o].terms /\ orders'[o].text = orders[o].text
                    /\ orders'[o].channel = orders[o].channel
                    /\ orders[o].token # c => orders'[o].token = orders[o].token
    <3>1. CASE o \in Created /\ orders[o].token = c
      <4>1. orders[o] \in OrderRows
        BY <1>0, <3>1 DEF Created, NoOrder
      <4>2. orders'[o] = [orders[o] EXCEPT !.token = Nobody]
        BY <1>3, <3>1
      <4> QED  BY <3>1, <4>1, <4>2 DEF OrderRows
    <3>2. CASE ~(o \in Created /\ orders[o].token = c)
      BY <1>0, <1>3, <3>2
    <3> QED  BY <3>1, <3>2
  <2>3. orders' \in [Clients -> {NoOrder} \cup OrderRows] /\ Created' = Created
    BY <1>3, <2>2 DEF Created
  <2>4. CreationTypeOK'
    BY <1>0, <1>1, <2>1, <2>3 DEF CreationTypeOK, setting
  <2>5. \A d \in Clients : ClientInv(d)'
    <3>1. ClientInv(c)'
      BY <1>0, <1>1, <2>1 DEF ClientInv, setting
    <3>2. Kept
      BY <1>1, <2>2, <2>3 DEF Kept, setting, Created
    <3> QED  BY <1>0, <2>1, <3>1, <3>2, Stable
  <2>6. OneOrder' /\ Untouched' /\ (disturbed = {} => appEnabled)'
    BY <1>0, <1>1, <2>2, <2>3 DEF OneOrder, Untouched, setting, Created, Wanted
  <2>7. TokenInv'
    <3> SUFFICES ASSUME disturbed = {}, \A d \in Clients : request[d].open, NEW o \in Created
                 PROVE  \/ /\ orders'[o].token \in Clients
                           /\ attempt'[orders'[o].token].at \in {"answer", "answered"}
                           /\ attempt'[orders'[o].token].order = o
                        \/ \E d \in Clients : attempt'[d].at \in Unserved /\ Wanted(d) = Wanted(o)
      BY <1>1, <2>3 DEF TokenInv, setting, Wanted
    <3>1. o \in Clients /\ attempt'[c].at \in Seeking
      BY <2>1 DEF Seeking, Created
    <3>2. CASE /\ orders[o].token \in Clients \ {c}
               /\ attempt[orders[o].token].at \in {"answer", "answered"}
               /\ attempt[orders[o].token].order = o
      BY <2>1, <2>2, <3>1, <3>2
    <3>3. CASE /\ orders[o].token = c /\ attempt[c].at \in {"answer", "answered"}
               /\ attempt[c].order = o
      BY <1>0, <1>1, <3>1, <3>3 DEF ClientInv, Final, Unserved
    <3>4. ASSUME NEW d \in Clients, attempt[d].at \in Unserved, Wanted(d) = Wanted(o)
          PROVE  attempt'[d].at \in Unserved
      BY <2>1, <3>1, <3>4 DEF Unserved
    <3> QED  BY <1>0, <3>1, <3>2, <3>3, <3>4 DEF TokenInv, Unserved
  <2> QED  BY <2>4, <2>5, <2>6, <2>7 DEF IInv
<1> QED  BY <1>2, <1>3 DEF CreationFails

\* A failure at the door ends the call and touches no order.
LEMMA DoorStep ==
  ASSUME IInv, NEW c \in Clients, DoorFails(c)
  PROVE  IInv'
<1>0. /\ CreationTypeOK /\ OneOrder /\ Untouched /\ TokenInv
      /\ disturbed = {} => appEnabled
      /\ \A d \in Clients : ClientInv(d)
      /\ attempt \in [Clients -> [at : Progress, order : Clients \cup {Nobody}]]
  BY DEF IInv, CreationTypeOK
<1>1. /\ UNCHANGED <<orders, setting>> /\ creationFaults' \in 0..MaxCreationFaults
      /\ attempt[c].at = "ask"
  BY <1>0, CreationAssumption DEF DoorFails, CreationTypeOK
<1>2. /\ attempt' \in [Clients -> [at : Progress, order : Clients \cup {Nobody}]]
      /\ attempt'[c].at = "unauthorized"
      /\ \A d \in Clients \ {c} : attempt'[d] = attempt[d]
  BY <1>0, ReachIsReachWith DEF DoorFails, ReachWith, Progress
<1>3. CreationTypeOK'
  BY <1>0, <1>1, <1>2 DEF CreationTypeOK, setting
<1>4. \A d \in Clients : ClientInv(d)'
  <2>1. ClientInv(c)'
    BY <1>2 DEF ClientInv
  <2>2. Kept
    BY <1>1 DEF Kept, setting, Created
  <2> QED  BY <1>0, <1>2, <2>1, <2>2, Stable
<1>5. TokenInv'
  <2>1. Moves(c)
    BY <1>1, <1>2 DEF Moves, Unserved
  <2> QED  BY <1>0, <1>1, <1>2, <2>1, TokenStable DEF setting
<1>6. OneOrder' /\ Untouched' /\ (disturbed = {} => appEnabled)'
  BY <1>0, <1>1 DEF OneOrder, Untouched, setting, Created, Wanted
<1> QED  BY <1>3, <1>4, <1>5, <1>6 DEF IInv

\* A change of the order by the payer or an administrator is remembered by disturbed,
\* and keeps the terms.
LEMMA ChangeSteps ==
  ASSUME IInv, ChooseChannel \/ EditOrder
  PROVE  IInv'
<1>0. /\ CreationTypeOK /\ OneOrder /\ \A d \in Clients : ClientInv(d)
      /\ orders \in [Clients -> {NoOrder} \cup OrderRows]
  BY DEF IInv, CreationTypeOK
<1>1. PICK o \in Created, t \in Texts, ch \in Channels \cup {NoChannel} :
        \/ orders' = [orders EXCEPT ![o].channel = ch]
        \/ orders' = [orders EXCEPT ![o].text = t, ![o].channel = ch]
  <2>1. CASE ChooseChannel
    <3>1. PICK o \in Created, ch \in Channels : orders' = [orders EXCEPT ![o].channel = ch]
      BY <2>1 DEF ChooseChannel
    <3>2. orders[o] \in OrderRows
      BY <1>0 DEF Created, NoOrder
    <3>3. orders[o].text \in Texts
      BY <3>2 DEF OrderRows
    <3> QED  BY <3>1, <3>3
  <2>2. CASE EditOrder
    BY <2>2 DEF EditOrder
  <2> QED  BY <2>1, <2>2
<1>2. /\ UNCHANGED <<request, attempt, appEnabled, creationFaults>>
      /\ disturbed \subseteq disturbed' /\ disturbed' \subseteq Disturbances
      /\ disturbed' \cap {"select", "edit"} # {}
  BY <1>0 DEF ChooseChannel, EditOrder, Happens, CreationTypeOK
<1>3. o \in Clients /\ orders[o] \in OrderRows
  BY <1>0 DEF Created, NoOrder
<1>4. /\ orders' \in [Clients -> {NoOrder} \cup OrderRows]
      /\ orders'[o] \in OrderRows /\ orders'[o].terms = orders[o].terms
      /\ \A d \in Clients \ {o} : orders'[d] = orders[d]
  <2>1. CASE orders' = [orders EXCEPT ![o].channel = ch]
    BY <1>0, <1>3, <2>1 DEF OrderRows
  <2>2. CASE orders' = [orders EXCEPT ![o].text = t, ![o].channel = ch]
    BY <1>0, <1>3, <2>2 DEF OrderRows
  <2> QED  BY <1>1, <2>1, <2>2
<1>5. Created' = Created
  BY <1>3, <1>4 DEF Created, OrderRows
<1>6. CreationTypeOK'
  BY <1>0, <1>2, <1>4 DEF CreationTypeOK
<1>7. \A d \in Clients : ClientInv(d)'
  <2>1. Kept
    BY <1>2, <1>4, <1>5 DEF Kept, Created
  <2> QED  BY <1>0, <1>2, <2>1, Stable
<1>8. OneOrder' /\ Untouched' /\ TokenInv' /\ (disturbed = {} => appEnabled)'
  BY <1>0, <1>2, <1>5 DEF OneOrder, Untouched, TokenInv
<1> QED  BY <1>6, <1>7, <1>8 DEF IInv

\* Disabling and enabling the app touches no order and no call.
LEMMA AppSteps ==
  ASSUME IInv, DisableApp \/ EnableApp
  PROVE  IInv'
<1>0. /\ CreationTypeOK /\ OneOrder /\ Untouched /\ \A d \in Clients : ClientInv(d)
      /\ disturbed = {} => appEnabled
  BY DEF IInv
<1>1. /\ UNCHANGED <<request, orders, attempt, creationFaults>>
      /\ disturbed \subseteq disturbed' /\ disturbed' \subseteq Disturbances
      /\ disturbed' # {} /\ appEnabled' \in BOOLEAN
  BY <1>0 DEF DisableApp, EnableApp, Happens, CreationTypeOK
<1>2. CreationTypeOK'
  BY <1>0, <1>1 DEF CreationTypeOK
<1>3. \A d \in Clients : ClientInv(d)'
  BY <1>0, <1>1, Stable DEF Kept, Created
<1>4. OneOrder' /\ Untouched' /\ TokenInv' /\ (disturbed = {} => appEnabled)'
  BY <1>0, <1>1 DEF OneOrder, Untouched, TokenInv, Created, Wanted
<1> QED  BY <1>2, <1>3, <1>4 DEF IInv

LEMMA NextIInv == IInv /\ [CreationNext]_creationVars => IInv'
<1> SUFFICES ASSUME IInv, [CreationNext]_creationVars PROVE IInv'
  OBVIOUS
<1>1. ASSUME NEW c \in Clients, CreationStep(c) PROVE IInv'
  BY <1>1, LookingSteps, TokenSteps DEF CreationStep
<1>2. ASSUME NEW c \in Clients, CreationFails(c) PROVE IInv'
  BY <1>2, FaultStep
<1>3. ASSUME NEW c \in Clients, DoorFails(c) PROVE IInv'
  BY <1>3, DoorStep
<1>4. CASE ChooseChannel \/ EditOrder
  BY <1>4, ChangeSteps
<1>5. CASE DisableApp \/ EnableApp
  BY <1>5, AppSteps
<1>6. CASE UNCHANGED creationVars
  BY <1>6 DEF creationVars, IInv, CreationTypeOK, OneOrder, Untouched, TokenInv, ClientInv,
              Created, Wanted
<1> QED  BY <1>1, <1>2, <1>3, <1>4, <1>5, <1>6 DEF CreationNext

LEMMA Invariant == CreationSpec => []IInv
<1> QED  BY InitIInv, NextIInv, PTL DEF CreationSpec

-----------------------------------------------------------------------------
\* Rows, calls and the history keep the shape their columns and code give them.
THEOREM TypeCorrect == CreationSpec => []CreationTypeOK
<1>1. IInv => CreationTypeOK
  BY DEF IInv
<1> QED  BY <1>1, Invariant, PTL

\* All create requests of one number that are answered get one order, with the amount
\* and currency they asked for (CreateOpenOrderWithCheckoutToken).
THEOREM AnsweredSame == CreationSpec => []AnsweredAlike
<1>1. IInv => AnsweredAlike
  BY DEF IInv, AnsweredAlike, ClientInv, OneOrder
<1> QED  BY <1>1, Invariant, PTL

\* IDEMPOTENCY_CONFLICT is answered only to a request that differs from the one that
\* created the order, unless the order was changed since (sameOpenOrder).
THEOREM ConflictReason == CreationSpec => []ConflictHasReason
<1>1. IInv => ConflictHasReason
  BY DEF IInv, ConflictHasReason, ClientInv
<1> QED  BY <1>1, Invariant, PTL

\* Once all requests are answered, none at the door, one of them holds the token the order has
\* (SetCheckoutTokenHash and the insert).
THEOREM LinkHeld == CreationSpec => []LinkIsHeld
<1>1. IInv => LinkIsHeld
  <2> SUFFICES ASSUME IInv, Created # {}, disturbed = {},
                      \A c \in Clients : /\ request[c].open
                                          /\ attempt[c].at \in Final \ {"unauthorized"}
               PROVE  \E c \in Clients : /\ attempt[c].at = "answered"
                                         /\ orders[attempt[c].order].token = c
    BY DEF LinkIsHeld
  <2>1. PICK o \in Created : TRUE
    OBVIOUS
  <2>2. \A c \in Clients : attempt[c].at \notin Unserved /\ attempt[c].at # "answer"
    BY DEF Final, Seeking, Unserved
  <2>3. /\ orders[o].token \in Clients
        /\ attempt[orders[o].token].at = "answered"
        /\ attempt[orders[o].token].order = o
    BY <2>1, <2>2 DEF IInv, TokenInv
  <2> QED  BY <2>3
<1> QED  BY <1>1, Invariant, PTL
=============================================================================
