------------------------------ MODULE MCRefunds ------------------------------
(* Small instances of Refunds for TLC. *)
EXTENDS Refunds, TLC

CONSTANTS h1, h2, r1, r2

TwoHandlers == {h1, h2}
OneHandler  == {h1}

\* Refunds of an order of 3: the second only fits once the first failed.
TwoRefunds == {r1, r2}
TwoAmounts == (r1 :> 2) @@ (r2 :> 2)
OneRefund  == {r1}
OneAmount  == (r1 :> 2)

HandlerSymmetry == Permutations(TwoHandlers)

=============================================================================
