------------------------- MODULE MCPaymentOrders --------------------------
(* Small instances of PaymentOrders for TLC. *)
EXTENDS PaymentOrders, TLC

CONSTANTS h1, h2, alipay1, paypal1, alipay, paypal

MCHandlers == {h1, h2}
MCAccounts == {alipay1, paypal1}
MCChannels == {alipay, paypal}
MCChannelOf == (alipay1 :> alipay) @@ (paypal1 :> paypal)

\* One account, to afford crashes, edits and every way an order may be created.
OneAccount == {alipay1}
OneChannelOf == (alipay1 :> alipay)

NoPresets == {None}
AnyPresets == {None, alipay, paypal}

HandlerSymmetry == Permutations(MCHandlers)

=============================================================================
