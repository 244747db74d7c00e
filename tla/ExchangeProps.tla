---------------------------- MODULE ExchangeProps ----------------------------
(***************************************************************************)
(* What Exchange promises.                                                 *)
(***************************************************************************)
EXTENDS Exchange

(* The chain seen as a ledger.                                             *)
SlateOf(tx) == (CHOOSE k \in tx.excess : TRUE)[2]
TxOf(s) == {tx \in OnChain : SlateOf(tx) = s}
Payer(tx) == (CHOOSE c \in tx.ins : TRUE).own
Payee(tx) == LET others == {k[1] : k \in tx.excess} \ {Payer(tx)}
             IN  IF others = {} THEN Payer(tx) ELSE CHOOSE w \in others : TRUE
SettledOnChain ==
    [s \in Slates |-> IF TxOf(s) = {} THEN <<>>
                      ELSE LET tx == CHOOSE x \in TxOf(s) : TRUE IN <<Payer(tx), Payee(tx)>>]
Owned(w) == Total({c \in Unspent : c.own = w})

Promise == INSTANCE Ledger WITH
    offers <- agreed, settled <- SettledOnChain,
    balance <- [w \in Wallets |-> Owned(w)],
    Opening <- [w \in Wallets |-> Total(Funds[w])]

(* Whatever is lost, repeated, retried or cancelled, the chain moves       *)
(* exactly what was agreed from payer to payee, at most once per slate.    *)
PaysAsAgreed == Promise!Spec

(* No wallet ever lets out two different signatures made with one nonce:   *)
(* the two would give away its key.  (Context::sec_nonce; a context is     *)
(* deleted by finalize_tx and drawn anew by receive_tx and                 *)
(* process_invoice_tx.)                                                    *)
NoNonceReuse == \A x \in seen, y \in seen : x[1] = y[1] => x[2] = y[2]

(* A reply, whatever codec and carrier brought it, completes the           *)
(* transaction it answers: if the wallet that started the slate still has  *)
(* the context the reply was signed for and the records it made then,      *)
(* finalize_tx succeeds.  Compaction, the removed signature data, the      *)
(* offsets of both sides and the fields left out of the wire form all have *)
(* to come back right.                                                     *)
Answers(sl, ctx) ==
    /\ sl.state \in {"S2", "I2"} /\ ctx # NoContext /\ ~ctx.late
    /\ \E k \in Keys(sl) :
          sl.parts[k].keys = {k, IF sl.state = "I2" THEN ctx.initKey ELSE ctx.key}
Intact(d, ctx, sl) ==
    LET P == Found(d, sl.id, AllTypes)
    IN  /\ ctx.ins \cup ctx.outs \subseteq DOMAIN d.coins
        /\ P # {}
        /\ d.log[FirstOf(P)].type = IF sl.state = "I2" THEN "TxReceived" ELSE "TxSent"
ReplyCompletes ==
    \A w \in Wallets, a \in Accts, m \in msgs :
        Readable(m, Address0(w, a)) =>
            LET sl == get_slate(m, Address0(w, a))
                ctx == db[w].ctx[sl.id]
            IN  Answers(sl, ctx) /\ check_ttl(sl) /\ Intact(db[w], ctx, sl) =>
                    \E r \in finalize_tx(w, db[w], a, sl) : r.ok

(* Both parties can find the payment they logged: once its transaction is  *)
(* mined, the payee and a payer that sent has an entry under the kernel    *)
(* that was mined, which is what update_wallet_state looks up when there   *)
(* is no output to go by.  (A payer of an invoice may have none: a pay     *)
(* command that succeeds over Tor logs nothing.)                           *)
LoggedAs(w, s, types) ==
    {db[w].log[p].excess : p \in Found(db[w], s, types)}
KernelFound ==
    \A tx \in OnChain :
        LET sent == LoggedAs(Payer(tx), SlateOf(tx), {"TxSent", "TxSentCancelled"})
            got == LoggedAs(Payee(tx), SlateOf(tx), {"TxReceived", "TxReceivedCancelled"})
        IN  /\ agreed[SlateOf(tx)][2] = "send" => tx.excess \in sent
            /\ tx.excess \in got

(* A payment proof the wallet exports for a mined transaction verifies,    *)
(* and it is right: the recipient it names got the amount it names.        *)
ProofVerifies ==
    \A w \in Wallets, p \in Pos :
        LET pf == retrieve_payment_proof(db[w], p)
        IN  pf # NoPaymentProof /\ (\E tx \in OnChain : tx.excess = pf.excess) =>
                /\ verify_payment_proof(pf)
                /\ \E tx \in OnChain : \E c \in tx.outs :
                      tx.excess = pf.excess /\ c.own = pf.recipient[1] /\ c.value = pf.amount
=============================================================================
