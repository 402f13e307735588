------------------------------- MODULE Routing -------------------------------
(***************************************************************************)
(* The payment methods of the checkout page of one order: the routing      *)
(* rules and their targets, edited by administrators, and the request of   *)
(* the page, which reads the channel accounts, then for every account the  *)
(* rules, and for every rule its targets, in database calls of their own   *)
(* and outside a transaction, while the configuration may change.          *)
(* Weights and priorities are left out: they decide neither which methods  *)
(* are offered nor their order, which is that of the accounts.             *)
(***************************************************************************)
EXTENDS Naturals

CONSTANTS
  Rules,           \* identities of routing rules
  Accounts,        \* channel accounts
  ChannelOf,       \* the channel of each account
  PayModeOf,       \* the pay mode each account offers to this terminal
  Supported,       \* pairs of a channel and a currency it takes
  Purchase,        \* the order: app, amount and currency, and the terminal
  LowerCase,       \* spelling of an app_id -> the same in lower case
  AllApps,         \* app_scope all
  AnyCurrency,     \* a rule without a currency
  NoRule,          \* no rule with this identity; the offer of no rule
  Forms,           \* what an administrator may save as a rule
  MaxChanges       \* bound: changes of the configuration

\* A rule whose app_ids are among names; no bound of the amount is 0.
RuleOf(names) == [enabled : BOOLEAN, apps : {AllApps} \cup SUBSET names,
                  method : STRING, modes : SUBSET STRING,
                  currency : {AnyCurrency} \cup STRING, min : Nat, max : Nat,
                  terminal : STRING]

ASSUME RoutingAssumption ==
  /\ ChannelOf \in [Accounts -> STRING] /\ PayModeOf \in [Accounts -> STRING]
  /\ LowerCase \in [DOMAIN LowerCase -> STRING]
  /\ \A app \in DOMAIN LowerCase :
       LowerCase[app] \in DOMAIN LowerCase => LowerCase[LowerCase[app]] = LowerCase[app]
  /\ Purchase.app \in DOMAIN LowerCase
  /\ \A names \in SUBSET DOMAIN LowerCase : AllApps # {LowerCase[app] : app \in names}
  /\ Forms \subseteq RuleOf(DOMAIN LowerCase)
  /\ NoRule \notin Rules \cup RuleOf(STRING)
  /\ Purchase.amount \in Nat
  /\ MaxChanges \in Nat

VARIABLES
  rules,     \* the table routing_rules
  targets,   \* per rule, the accounts of its enabled routing_targets
  entered,   \* history: each rule as the administrator entered it
  enabled,   \* the enabled accounts
  page,      \* the request for the payment methods
  during,    \* history: what the configuration was at any time of the request
  changes

routingVars == <<rules, targets, entered, enabled, page, during, changes>>

-----------------------------------------------------------------------------
Saved(r) == rules[r] # NoRule

\* normalizeInput, normalizeStringList: the app_ids are stored in lower case.
Normalized(form) ==
  [form EXCEPT !.apps = IF @ = AllApps THEN AllApps ELSE {LowerCase[app] : app \in @}]

\* Mutant: the apps a rule is for are not looked at.
MatchesAnyApp(rule) == TRUE

\* The stored app_ids are compared with the app_id of the order as it is.
MatchesApp(rule) == rule.apps = AllApps \/ Purchase.app \in rule.apps

\* Mutant: the upper end of the range is left out.
MatchesBelow(rule, a) ==
  /\ rule.enabled
  /\ MatchesApp(rule)
  /\ rule.method = ChannelOf[a]
  /\ rule.modes = {} \/ PayModeOf[a] \in rule.modes
  /\ rule.currency \in {AnyCurrency, Purchase.currency}
  /\ rule.min = 0 \/ Purchase.amount >= rule.min
  /\ rule.max = 0 \/ Purchase.amount < rule.max
  /\ rule.terminal \in {"any", Purchase.terminal}
  /\ <<rule.method, Purchase.currency>> \in Supported

\* matchesRule, for the method and pay mode of account a.
Matches(rule, a) ==
  /\ rule.enabled
  /\ MatchesApp(rule)
  /\ rule.method = ChannelOf[a]
  /\ rule.modes = {} \/ PayModeOf[a] \in rule.modes
  /\ rule.currency \in {AnyCurrency, Purchase.currency}
  /\ rule.min = 0 \/ Purchase.amount >= rule.min
  /\ rule.max = 0 \/ Purchase.amount <= rule.max
  /\ rule.terminal \in {"any", Purchase.terminal}
  /\ <<rule.method, Purchase.currency>> \in Supported

TakesCurrency(a) == <<ChannelOf[a], Purchase.currency>> \in Supported

NoPage == [at |-> "closed", accounts |-> {}, account |-> NoRule, rows |-> {}, found |-> {},
           offered |-> {}, stable |-> TRUE]

\* The configuration as it is, added to what it was before in this request.
Now == [targets  |-> {t \in Rules \X Accounts : Saved(t[1]) /\ t[2] \in targets[t[1]]},
        entered  |-> {<<r, entered[r]>> : r \in {q \in Rules : Saved(q)}},
        enabled  |-> enabled,
        empty    |-> \A r \in Rules : ~Saved(r)]
Add(a, b) == [targets |-> a.targets \cup b.targets, entered |-> a.entered \cup b.entered,
              enabled |-> a.enabled \cup b.enabled, empty |-> a.empty \/ b.empty]

RoutingInit ==
  /\ rules = [r \in Rules |-> NoRule] /\ entered = rules
  /\ targets = [r \in Rules |-> {}]
  /\ enabled \in SUBSET Accounts
  /\ page = NoPage /\ during = Now
  /\ changes = 0

-----------------------------------------------------------------------------
(* The administrators. *)

Changed == /\ changes < MaxChanges /\ changes' = changes + 1
           /\ page' = [page EXCEPT !.stable = FALSE]
           /\ during' = Add(during, Now')

\* Create, or Update, which replaces the targets in the same transaction.  A target may
\* be saved disabled; ts are the others.
SaveRule(r, form, ts) ==
  /\ rules' = [rules EXCEPT ![r] = Normalized(form)]
  /\ entered' = [entered EXCEPT ![r] = form]
  /\ targets' = [targets EXCEPT ![r] = ts]
  /\ UNCHANGED enabled /\ Changed

SetRuleEnabled(r) ==
  /\ Saved(r)
  /\ rules' = [rules EXCEPT ![r].enabled = ~@]
  /\ entered' = [entered EXCEPT ![r].enabled = ~@]
  /\ UNCHANGED <<targets, enabled>> /\ Changed

SetAccountEnabled(a) ==
  /\ enabled' = IF a \in enabled THEN enabled \ {a} ELSE enabled \cup {a}
  /\ UNCHANGED <<rules, targets, entered>> /\ Changed

-----------------------------------------------------------------------------
(* ListPaymentMethods of an order without a channel. *)

config == <<rules, targets, entered, enabled, changes>>

ListAccounts ==
  /\ page.at \in {"closed", "done"}
  /\ page' = [NoPage EXCEPT !.at = "rules", !.accounts = {a \in enabled : TakesCurrency(a)}]
  /\ during' = Now
  /\ UNCHANGED config

\* Without any rule every account is offered.
ListRules ==
  /\ page.at = "rules"
  /\ page' = IF \E r \in Rules : Saved(r)
               THEN [page EXCEPT !.at = "account"]
               ELSE [page EXCEPT !.at = "done", !.offered = page.accounts \X {NoRule}]
  /\ UNCHANGED <<config, during>>

\* Resolve for the next account: the rules are read, disabled ones too.
ResolveRules(a) ==
  /\ page.at = "account" /\ a \in page.accounts
  /\ page' = [page EXCEPT !.at = "targets", !.account = a, !.accounts = @ \ {a},
                !.rows = {<<r, rules[r]>> : r \in {q \in Rules : Saved(q)}}, !.found = {}]
  /\ UNCHANGED <<config, during>>

\* targetsForRule: the targets are those of now, the rule is the one that was read.
TargetsForRule(r, rule) ==
  /\ page.at = "targets" /\ <<r, rule>> \in page.rows
  /\ page' = [page EXCEPT !.rows = @ \ {<<r, rule>>},
                !.found = IF Matches(rule, page.account)
                            THEN @ \cup {<<a, r>> : a \in targets[r]} ELSE @]
  /\ UNCHANGED <<config, during>>

\* The account of every target found is read again, one after the other
\* (FindEnabledByID); it is offered if it is the account the page is at.
OfferCandidate(c) ==
  /\ page.at = "targets" /\ page.rows = {} /\ c \in page.found
  /\ page' = [page EXCEPT !.found = @ \ {c},
                !.offered = IF c[1] = page.account /\ c[1] \in enabled THEN @ \cup {c} ELSE @]
  /\ UNCHANGED <<config, during>>

NextAccount ==
  /\ page.at = "targets" /\ page.rows = {} /\ page.found = {}
  /\ page' = [page EXCEPT !.at = "account"]
  /\ UNCHANGED <<config, during>>

AnswerPage ==
  /\ page.at = "account" /\ page.accounts = {}
  /\ page' = [page EXCEPT !.at = "done"]
  /\ UNCHANGED <<config, during>>

-----------------------------------------------------------------------------
RoutingNext ==
  \/ ListAccounts \/ ListRules \/ NextAccount \/ AnswerPage
  \/ \E a \in Accounts : ResolveRules(a) \/ SetAccountEnabled(a)
  \/ \E row \in page.rows : TargetsForRule(row[1], row[2])
  \/ \E c \in page.found : OfferCandidate(c)
  \/ \E r \in Rules, form \in Forms, ts \in SUBSET Accounts : SaveRule(r, form, ts)
  \/ \E r \in Rules : SetRuleEnabled(r)

RoutingSpec == RoutingInit /\ [][RoutingNext]_routingVars

-----------------------------------------------------------------------------
(* Properties. *)

\* A rule as it was entered, read as the README describes it: it covers account a
\* for this order if none of its conditions but the app scope excludes it.
Covers(form, a) ==
  /\ form.enabled /\ form.method = ChannelOf[a] /\ TakesCurrency(a)
  /\ form.modes # {} => PayModeOf[a] \in form.modes
  /\ form.currency # AnyCurrency => form.currency = Purchase.currency
  /\ form.terminal # "any" => form.terminal = Purchase.terminal
  /\ Purchase.amount \in (IF form.min = 0 THEN 0 ELSE form.min)
                           ..(IF form.max = 0 THEN Purchase.amount ELSE form.max)

\* The app scope, for the app_id of the order and for any spelling of it.
CoversApp(form)      == form.apps # AllApps => Purchase.app \in form.apps
CoversSpelling(form) == form.apps # AllApps =>
                          \E app \in form.apps : LowerCase[app] = LowerCase[Purchase.app]

\* Even if the configuration changes under the request, an account is offered only if
\* it was enabled, a target of the rule it is offered for, and covered by that rule,
\* which is for all apps or names that of the order, each at some time of the request;
\* and without a rule only if there was none.
OffersOnlyConfigured ==
  page.at = "done" =>
    \A offer \in page.offered :
      LET a == offer[1]
          r == offer[2]
      IN  /\ a \in during.enabled
          /\ IF r = NoRule THEN during.empty
             ELSE /\ <<r, a>> \in during.targets
                  /\ \E e \in during.entered : e[1] = r /\ CoversSpelling(e[2]) /\ Covers(e[2], a)

\* If the configuration did not change under the request, every enabled account that
\* a rule for all apps covers and targets is offered: reading account by account,
\* rule by rule, and dropping what was offered before loses none.
OffersAllRouted ==
  page.at = "done" /\ page.stable =>
    \A r \in Rules, a \in enabled :
      (Saved(r) /\ a \in targets[r] /\ entered[r].apps = AllApps /\ Covers(entered[r], a))
        => <<a, r>> \in page.offered

\* Documented: a rule may name the apps it is for.
IncludedAppIsRouted ==
  page.at = "done" /\ page.stable =>
    \A r \in Rules, a \in enabled :
      (Saved(r) /\ a \in targets[r] /\ CoversApp(entered[r]) /\ Covers(entered[r], a))
        => <<a, r>> \in page.offered

=============================================================================
