------------------------------- MODULE Ledger -------------------------------
(***************************************************************************)
(* What exchanging slates is for.  A wallet offers to pay or asks to be    *)
(* paid an amount; an offer is settled at most once, by moving exactly     *)
(* that amount from one wallet to another, the payer's fee apart.          *)
(***************************************************************************)
EXTENDS Integers

CONSTANTS Wallets, Slates, Amounts, Fee, Opening

VARIABLES
    offers,   \* <<>>, or who started the slate, how, and the amount
    settled,  \* <<>>, or the payer and the payee
    balance   \* value each wallet has in the chain

Init ==
    /\ offers = [s \in Slates |-> <<>>]
    /\ settled = [s \in Slates |-> <<>>]
    /\ balance = Opening

Offer(s, w, kind, amount) ==
    /\ offers[s] = <<>>
    /\ offers' = [offers EXCEPT ![s] = <<w, kind, amount>>]
    /\ UNCHANGED <<settled, balance>>

(* The wallet that started a send pays; the one that invoiced is paid.     *)
Settle(s, payer, payee) ==
    /\ offers[s] # <<>> /\ settled[s] = <<>>
    /\ offers[s][1] = IF offers[s][2] = "send" THEN payer ELSE payee
    /\ settled' = [settled EXCEPT ![s] = <<payer, payee>>]
    /\ balance' = [w \in Wallets |->
          balance[w] + (IF w = payee THEN offers[s][3] ELSE 0)
                     - (IF w = payer THEN offers[s][3] + Fee ELSE 0)]
    /\ UNCHANGED offers

Next ==
    \E s \in Slates, w \in Wallets :
        \/ \E kind \in {"send", "invoice"}, amount \in Amounts : Offer(s, w, kind, amount)
        \/ \E v \in Wallets : Settle(s, w, v)

Spec == Init /\ [][Next]_<<offers, settled, balance>>

=============================================================================
