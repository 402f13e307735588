----------------------------- MODULE MCPlatform ------------------------------
(* Small instances for TLC of the components that share no state: the first  *)
(* state chooses one of them, and the others stay as they are.               *)
EXTENDS WebhookDeliveries, OrderCreation, RateLimiter, PaypalCheckout, Routing,
        WebhookMigration, TLC

CONSTANTS w1, w2, d1, c1, c2, v1, v2, n1, n2, n3, r1, r2, a1, a2, i1, i2,
          ten, twenty, books, games, o1

VARIABLE part  \* the component that takes the steps

-----------------------------------------------------------------------------
\* Two workers of webhook_deliveries.
TwoWorkers  == {w1, w2}
OneDelivery == {d1}

\* Two create requests: equal but for the spelling of the channel, without a channel,
\* for another amount, or of the administrator.
TwoClients == {c1, c2}
Spellings  == [spelling \in {"PAYPAL", "paypal", ""} |->
                 IF spelling = "" THEN NoChannel ELSE "paypal"]
Plain      == [open |-> TRUE, terms |-> ten, text |-> books, channel |-> "paypal"]
CreateRequests == {Plain, [Plain EXCEPT !.channel = "PAYPAL"], [Plain EXCEPT !.channel = ""],
                   [Plain EXCEPT !.terms = twenty], [Plain EXCEPT !.open = FALSE]}

\* Two browsers, and three orders PayPal may create.
TwoVisits    == {v1, v2}
ThreeNumbers == {n1, n2, n3}

\* Two rules and two accounts that take the currency of the order.
TwoRules    == {r1, r2}
TwoAccounts == {a1, a2}
AccountChannels == (a1 :> "alipay") @@ (a2 :> "paypal")
AccountModes    == (a1 :> "wap") @@ (a2 :> "checkout")
Pairs == {<<"alipay", "USD">>, <<"paypal", "USD">>}
Order == [app |-> "app_Kx", amount |-> 5, currency |-> "USD", terminal |-> "mobile"]
\* The app of an order without capitals is spelled as it is stored.
PlainOrder == [Order EXCEPT !.app = "app_ty"]
Cases == [app \in {"app_Kx", "app_kx", "app_ty"} |-> IF app = "app_Kx" THEN "app_kx" ELSE app]
\* A rule without conditions, one at each end of the range, one for a pay mode that
\* no account offers and one for each of two apps.
AnyOrder == [enabled |-> TRUE, apps |-> AllApps, method |-> "alipay", modes |-> {},
          currency |-> AnyCurrency, min |-> 0, max |-> 0, terminal |-> "any"]
RuleForms == {AnyOrder, [AnyOrder EXCEPT !.max = 5], [AnyOrder EXCEPT !.modes = {"page"}, !.min = 6],
              [AnyOrder EXCEPT !.method = "paypal", !.modes = {"page"}],
              [AnyOrder EXCEPT !.apps = {"app_Kx"}], [AnyOrder EXCEPT !.apps = {"app_ty"}]}

\* Two servers that start over the rows of one payment.
TwoInstances == {i1, i2}
OnePayment   == {o1}

-----------------------------------------------------------------------------
Parts == {"deliveries", "creation", "rate", "paypal", "routing", "migration"}

PlatformInit ==
  /\ part \in Parts
  /\ Init /\ RateInit /\ PaypalInit
  /\ CreationInit /\ (part # "creation" => request = [c \in Clients |-> CHOOSE q \in Requests : TRUE])
  /\ RoutingInit /\ (part # "routing" => enabled = {})
  /\ MigrationInit
  /\ (part # "migration" => /\ driver = "mysql"
                            /\ \A t \in Tables : tables[t].rows = [id \in RowIds |-> NoEntry])

\* The steps of the component that was chosen.
PlatformNext ==
  /\ UNCHANGED part
  /\ \/ part = "deliveries" /\ Next
        /\ UNCHANGED <<creationVars, rateVars, paypalVars, routingVars, migrationVars>>
     \/ part = "creation" /\ CreationNext
        /\ UNCHANGED <<vars, rateVars, paypalVars, routingVars, migrationVars>>
     \/ part = "rate" /\ RateNext
        /\ UNCHANGED <<vars, creationVars, paypalVars, routingVars, migrationVars>>
     \/ part = "paypal" /\ PaypalNext
        /\ UNCHANGED <<vars, creationVars, rateVars, routingVars, migrationVars>>
     \/ part = "routing" /\ RoutingNext
        /\ UNCHANGED <<vars, creationVars, rateVars, paypalVars, migrationVars>>
     \/ part = "migration" /\ MigrationNext
        /\ UNCHANGED <<vars, creationVars, rateVars, paypalVars, routingVars>>

platformVars == <<part, vars, creationVars, rateVars, paypalVars, routingVars, migrationVars>>

\* The fairness of the components, each for the case that it takes the steps.
PlatformFairness ==
  /\ \A d \in Deliveries :
       /\ WF_vars(part = "deliveries" /\ TimePasses(d))
       /\ WF_vars(part = "deliveries" /\ ScanDueDeliveries(d))
       /\ SF_vars(part = "deliveries" /\ \E w \in Workers : Deliver(w, d))
  /\ \A w \in Workers : WF_vars(part = "deliveries" /\ Step(w))
  /\ \A c \in Clients : WF_creationVars(part = "creation" /\ CreationStep(c))
  /\ \A i \in Instances : WF_migrationVars(part = "migration" /\ BootStep(i))

PlatformSpec == PlatformInit /\ [][PlatformNext]_platformVars /\ PlatformFairness

\* Routing alone.
RoutingAlone == PlatformInit /\ part = "routing" /\ [][PlatformNext]_platformVars

-----------------------------------------------------------------------------
\* EveryRequestIsAnswered, when requests are made.
CreationAnswers == part = "creation" => EveryRequestIsAnswered

\* InstanceServes, when servers are started.
ServerComesUp == part = "migration" => InstanceServes

=============================================================================
