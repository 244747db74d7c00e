------------------------------ MODULE SlateOps ------------------------------
(***************************************************************************)
(* Slates: the message two wallets build a transaction with, and what each *)
(* of them does to it (libwallet/src/slate.rs).                            *)
(*                                                                         *)
(* Keys and nonces are abstract: a wallet's context for a slate draws one  *)
(* fresh pair, named by one key.  A commitment is the key it is made with  *)
(* and a value, a kernel excess is the set of keys that sum to it, and a   *)
(* blinding factor is the bag of its signed terms, so that a sum that adds *)
(* a term twice or forgets one is told apart from the right one.           *)
(***************************************************************************)
EXTENDS Integers, Sequences, Bags, FiniteSets

CONSTANTS
    Wallets,   \* the parties
    Slates,    \* slate ids (Uuid)
    Accts,     \* accounts of a wallet
    MaxCtx,    \* bound: contexts a wallet draws for one slate
    MaxCoin,   \* bound: child keys of a wallet
    MaxValue,  \* bound: value of a coin
    Fee        \* tx_fee: what the network asks for a transaction

ASSUME SlateAssumption ==
    /\ MaxCtx \in Nat /\ MaxCoin \in Nat /\ MaxValue \in Nat
    /\ Fee \in Nat \ {0}

(* A key pair of a context; an output commitment; a wallet address.        *)
KeyPair == Wallets \X Slates \X (1 .. MaxCtx)
Coin == [own: Wallets, child: 1 .. MaxCoin, value: 0 .. MaxValue]
Address == Wallets \X Accts

SlateState == {"S1", "S2", "S3", "I1", "I2", "I3"}

(* A partial signature commits to the nonces and keys it was made over and *)
(* to the message, which is the kernel's fee.                              *)
NoSig == [keys |-> {}, fee |-> -1]

(* PaymentInfo, and the receiver's signature on amount, excess and sender. *)
NoProof == [saddr |-> <<>>, raddr |-> <<>>, rsig |-> <<>>]
ProofSig(signer, amount, excess, saddr) == <<signer, amount, excess, saddr>>

(* Transaction: excess and final signature of its one kernel are empty     *)
(* until it is finalised.                                                  *)
NoTx == [none |-> TRUE]
empty_transaction ==
    [ins |-> {}, outs |-> {}, fee |-> 0, excess |-> {}, signed |-> FALSE,
     offset |-> EmptyBag]

blank(id, is_invoice) ==
    [id |-> id, state |-> IF is_invoice THEN "I1" ELSE "S1",
     tx |-> empty_transaction, np |-> 2, amount |-> 0, fee |-> 0, ttl |-> 0,
     offset |-> EmptyBag, parts |-> <<>>, proof |-> NoProof]

-----------------------------------------------------------------------------
Keys(sl) == DOMAIN sl.parts

compact(sl) == [sl EXCEPT !.tx = NoTx]

(* add_participant_info: my entry is replaced and keeps its signature.     *)
add_participant_info(sl, k) ==
    [sl EXCEPT !.parts =
        [j \in Keys(sl) \cup {k} |-> IF j \in Keys(sl) THEN sl.parts[j] ELSE NoSig]]

remove_other_sigdata(sl, k) ==
    [sl EXCEPT !.parts = [j \in Keys(sl) \cap {k} |-> sl.parts[j]]]

(* add_transaction_elements: the kernel is rebuilt from the slate's fee.   *)
add_transaction_elements(sl, ins, outs) ==
    [sl EXCEPT !.tx = [sl.tx EXCEPT !.ins = @ \cup ins, !.outs = @ \cup outs,
                                    !.fee = sl.fee, !.excess = {}, !.signed = FALSE]]

(* Terms of a blinding factor: a key or an input subtracted, an output     *)
(* added.                                                                  *)
Terms(keys, ins, outs) ==
    SetToBag({<<"-">> \o k : k \in keys}
             \cup {<<"-", c.own, "coin", c.child, c.value>> : c \in ins}
             \cup {<<"+", c.own, "coin", c.child, c.value>> : c \in outs})

(* Mutant: the last key drawn instead of the first. *)
adjust_offset_last(sl, ctx) ==
    [sl EXCEPT !.offset = @ (+) Terms({ctx.key}, ctx.ins, ctx.outs)]
adjust_offset(sl, ctx) ==
    [sl EXCEPT !.offset = @ (+) Terms({ctx.initKey}, ctx.ins, ctx.outs)]

calc_excess(sl) == Keys(sl)

verify_part_sigs(sl) ==
    \A k \in Keys(sl) :
        sl.parts[k] # NoSig => sl.parts[k] = [keys |-> Keys(sl), fee |-> sl.fee]

(* fill_round_2 signs over every participant now on the slate and the fee. *)
CanSign(sl) == Keys(sl) # {} /\ verify_part_sigs(sl)
fill_round_2(sl, k) ==
    [sl EXCEPT !.parts = [j \in Keys(sl) |->
        IF j = k THEN [keys |-> Keys(sl), fee |-> sl.fee] ELSE sl.parts[j]]]

finalize_signature(sl) ==
    Keys(sl) # {} /\ verify_part_sigs(sl) /\ \A k \in Keys(sl) : sl.parts[k] # NoSig

check_fees(sl) == Fee <= sl.tx.fee /\ Fee <= sl.amount + sl.fee

-----------------------------------------------------------------------------
(* What the network's rules (Transaction::validate) ask of a transaction:  *)
(* signed by all its keys, its blinding factors sum to the excess and the  *)
(* offset, and no value is made or lost.                                   *)
Total(C) == LET Sum[S \in SUBSET C] ==
                    IF S = {} THEN 0
                    ELSE LET c == CHOOSE x \in S : TRUE IN c.value + Sum[S \ {c}]
            IN Sum[C]

ValidTx(tx) ==
    /\ tx # NoTx /\ tx.signed
    /\ tx.fee >= Fee
    /\ tx.offset = Terms(tx.excess, tx.ins, tx.outs)
    /\ Total(tx.ins) = Total(tx.outs) + tx.fee

(* finalize_transaction puts excess and signature into the kernel and      *)
(* validates the result; finalize is the whole of it.                      *)
Finalized(sl) == [sl EXCEPT !.tx = [@ EXCEPT !.excess = calc_excess(sl), !.signed = TRUE]]
CanFinalize(sl) ==
    finalize_signature(sl) /\ check_fees(sl) /\ ValidTx(Finalized(sl).tx)

=============================================================================
