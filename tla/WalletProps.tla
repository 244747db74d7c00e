----------------------------- MODULE WalletProps -----------------------------
(***************************************************************************)
(* What WalletCore promises: invariants, action properties and liveness,   *)
(* and the statements of the repository that its code does not meet.       *)
(***************************************************************************)
EXTENDS WalletCore

Linked(x) == TxsWithId(db, db.outs[x].root, db.outs[x].tx)

(* tx_log_entry of an output names an entry of the output's own account.   *)
(* (types.rs, OutputData::tx_log_entry; written by lock_tx_context,        *)
(* build_recipient_output, apply_api_outputs and restore_missing_outputs.) *)
LinkOK ==
    \A x \in Slot : Exists(db, x) /\ db.outs[x].tx # -1 => Linked(x) # {}

(* A Locked output belongs to a payment that is not cancelled: cancelling  *)
(* by hand, by expiry or by a scan never leaves an output locked behind.   *)
(* (A scan cancels the entry in one section and frees the output in the    *)
(* next; the output it is at is excepted.)                                 *)
InRepair(x) == \E t \in Threads : x \in th[t].cur

LockedHasSend ==
    \A x \in Slot : db.outs[x].status = "Locked" /\ ~InRepair(x) =>
        \E p \in Linked(x) : Entry(db, p).type = "TxSent"

(* A payment that is logged as sent and not yet confirmed holds its        *)
(* inputs: whatever else is cancelled, expires or is repaired, in this     *)
(* account or another, they are locked or spent.  (tx_lock_outputs may be  *)
(* called again and then logs the payment twice; cancelling one of the two *)
(* frees the inputs of both, so payments that are logged once are meant.)  *)
LockedPayment(s) ==
    \E p \in TxsWithSlate(db, s) : Entry(db, p).type = "TxSent" /\ ~Entry(db, p).confirmed

SendHoldsInputs ==
    \A s \in SendSlates :
        LockedPayment(s) /\ Cardinality(TxsWithSlate(db, s)) = 1 =>
            \A x \in db.ctxs[s].ins : db.outs[x].status \in {"Locked", "Spent"}

OnChain(s) == \E b \in Blocks(Height) : b.kern[1] = s

(* No transaction is shown as confirmed that is not in the chain (chains   *)
(* that never lose a block).                                               *)
ConfirmedMined ==
    \A p \in Written(db) :
        Entry(db, p).confirmed /\ Entry(db, p).slate # NoSlate
            => OnChain(Entry(db, p).slate)

(* An output counted as spent is not spendable on the chain, and one       *)
(* counted as unspent or locked has been on the chain: no value is lost or *)
(* made up by refreshes, cancellations and repairs (chains that never lose *)
(* a block, no spending of unconfirmed outputs).                           *)
EverMined == Genesis \cup (UNION {b.outs : b \in Blocks(Height)})
BalanceOK ==
    reorgs = 0 => \A x \in Slot :
        /\ db.outs[x].status = "Spent" => x[1] \notin Utxo
        /\ db.outs[x].status \in {"Unspent", "Locked", "Spent"} => x[1] \in EverMined

(* Every coinbase that has been seen on the chain has a ConfirmedCoinbase  *)
(* entry, and no two share one: apply_api_outputs and restore_missing      *)
(* number the entries of one batch from the same counter.                  *)
Mined(x) == db.outs[x].cb > 0 /\ db.outs[x].status \in {"Unspent", "Locked", "Spent"}

CoinbaseLogged ==
    \A x \in {y \in Slot : Mined(y)} :
        /\ \E p \in Linked(x) : Entry(db, p).type = "ConfirmedCoinbase"
        /\ \A y \in Slot :
              Mined(y) /\ db.outs[x].root = db.outs[y].root /\ db.outs[x].tx = db.outs[y].tx
                => x[1] = y[1]

(* What may become of a log entry: it is never dropped, keeps its account, *)
(* slate and direction, a cancelled one stays cancelled, and confirmation  *)
(* is taken back only by a revert.                                         *)
EntryFuture(type) ==
    CASE type = "TxSent" -> {"TxSent", "TxSentCancelled"}
      [] type = "TxReceived" -> {"TxReceived", "TxReceivedCancelled", "TxReverted"}
      [] type = "TxReverted" -> {"TxReverted", "TxReceived", "TxReceivedCancelled"}
      [] OTHER -> {type}

EntryStep(e, f) ==
    /\ f.type \in EntryFuture(e.type)
    /\ <<f.id, f.acct, f.slate, f.debit, f.credit>> =
            <<e.id, e.acct, e.slate, e.debit, e.credit>>
    /\ e.confirmed => f.confirmed \/ f.type = "TxReverted"

LogSteps == [][\A p \in Written(db) : EntryStep(Entry(db, p), Entry(db', p))]_vars

-----------------------------------------------------------------------------
(* Liveness.  Every thread goes on with its job and gets the mutex in the  *)
(* end if it is free again and again (parking_lot's mutex, behind          *)
(* grin_util::Mutex, is eventually fair).  Nothing obliges a thread to     *)
(* start a job: a command is a user's, and Updater::run ends when it is    *)
(* stopped or when an update fails.                                        *)
Fairness == \A t \in Threads : SF_vars(JobStep(t))

FairSpec == Spec /\ Fairness

Paid(s) == \E p \in TxsWithSlate(db, s) :
               Entry(db, p).type = "TxSent" /\ Entry(db, p).confirmed

Withdrawn(s) == \E p \in TxsWithSlate(db, s) : Entry(db, p).type = "TxSentCancelled"

(* Every job comes to an end: no thread waits for the mutex for ever, and  *)
(* every loop over kernels, repairs and expired entries is finite.         *)
JobsEnd == \A t \in Threads : th[t].pc # "idle" ~> th[t].pc = "idle"

(* Updates are started again and again: by an updater, by the one that is  *)
(* started after it has ended, or by commands that refresh.                *)
KeepsUpdating ==
    \E t \in Threads : []<><<Start(t, "update", FALSE, NoSlate, -1)>>_vars

(* As long as updates go on, a payment in the chain does not stay pending: *)
(* its change output or, when there is none, its kernel confirms it,       *)
(* unless it is cancelled first (because it has expired, or by a scan).    *)
PaymentSettles ==
    KeepsUpdating => \A s \in SendSlates : OnChain(s) ~> Paid(s) \/ Withdrawn(s)

-----------------------------------------------------------------------------
(* A statement of the repository that the code does not meet.              *)

(* tx.rs, cancel_tx: a confirmed transaction is not cancellable.           *)
ConfirmedNotCancelled ==
    [][\A p \in Written(db) :
         Entry(db, p).confirmed /\ Entry(db, p).type = "TxSent" /\ OnChain(Entry(db, p).slate)
            => Entry(db', p).type = "TxSent"]_vars

=============================================================================
