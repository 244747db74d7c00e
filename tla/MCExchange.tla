----------------------------- MODULE MCExchange -----------------------------
(***************************************************************************)
(* Two wallets and one slate; A starts with two coins, either of which is  *)
(* enough for a payment.                                                   *)
(***************************************************************************)
EXTENDS ExchangeProps

TwoCoins == "A" :> {[own |-> "A", child |-> 1, value |-> 4],
                    [own |-> "A", child |-> 2, value |-> 3]} @@ "B" :> {}

=============================================================================
