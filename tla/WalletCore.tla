----------------------------- MODULE WalletCore -----------------------------
(***************************************************************************)
(* A wallet, its node's chain and the threads that reconcile the two.      *)
(*                                                                         *)
(* Owner and foreign API calls hold the wallet mutex from start to end and *)
(* are one action each; a crash may stop one between two of its batches.   *)
(* update_wallet_state, scan and cancel_tx take the mutex for one section  *)
(* at a time and read the node in between: each section and each reading   *)
(* is a step of a thread, so API calls, other threads and the chain can    *)
(* get in between.  The peers are part of the environment: they sign, post *)
(* and lose slates at will.                                                *)
(***************************************************************************)
EXTENDS Reconcile, Sequences

CONSTANTS
    SendSlates,  \* slates this wallet starts as a sender
    RecvSlates,  \* slates others send to this wallet
    InvSlates,   \* invoices this wallet issues
    PaySlates,   \* invoices others ask this wallet to pay
    Threads,     \* threads that can run an update, a scan or a cancel
    NoThread,    \* the wallet mutex is free
    Jobs,        \* jobs a run starts: {"update", "scan", "cancel"} or fewer
    Funds,       \* confirmed outputs an account starts with
    MaxChange,   \* bound: change outputs of a transaction
    MaxHeight,   \* bound: blocks after the initial one
    MaxReorg,    \* bound: blocks undone
    Ttls,        \* time-to-live of a slate in blocks; 0 is none
    ApiRefresh,  \* a call may ask for a refresh (refresh_outputs_from_node)
    LateLock,    \* a run may use late locking
    ZeroConf,    \* a run may spend unconfirmed outputs
    Coinbases,   \* a run may mine to the wallet
    Crashes,     \* the wallet process may stop and restart
    NodeFails    \* a call to the node may fail

ASSUME CoreAssumption ==
    /\ Slates = SendSlates \cup RecvSlates \cup InvSlates \cup PaySlates
    /\ NoThread \notin Threads
    /\ Jobs \subseteq {"update", "scan", "cancel"}
    /\ Funds \in Nat /\ Funds <= MaxChild /\ Funds <= MaxTxs
    /\ MaxChange \in Nat /\ MaxHeight \in Nat /\ MaxReorg \in Nat
    /\ Ttls \subseteq Nat
    /\ {ApiRefresh, LateLock, ZeroConf, Coinbases, Crashes, NodeFails} \subseteq BOOLEAN

VARIABLES
    db,       \* the database, as last committed
    active,   \* parent_key_id of the open wallet: the active account
    lock,     \* holder of the wallet mutex across steps, or NoThread
    th,       \* state of the threads
    chain,    \* the node's blocks after the initial one, one transaction each
    signed,   \* complete transactions that someone can post
    issued,   \* own slates that have been created
    reorgs    \* blocks undone so far

vars == <<db, active, lock, th, chain, signed, issued, reorgs>>
wallet == <<db, active, lock, th>>
world == <<chain, signed, issued, reorgs>>

-----------------------------------------------------------------------------
(* The chain                                                               *)

Tx == [ins: SUBSET Key, outs: SUBSET Key, kern: Kern, cb: Nat]
EmptyBlock == [ins |-> {}, outs |-> {}, kern |-> NoKern, cb |-> 0]

Genesis == Acct \X (0 .. Funds - 1)

(* The chain up to height h.                                               *)
Blocks(h) == {chain[n] : n \in {m \in 1 .. Len(chain) : m <= h}}

Height == Len(chain)
Utxo == (Genesis \cup (UNION {b.outs : b \in Blocks(Height)}))
            \ (UNION {b.ins : b \in Blocks(Height)})

(* Unspent outputs created no later than height h.                         *)
UtxoUpTo(h) == Utxo \cap (Genesis \cup (UNION {b.outs : b \in Blocks(h)}))

KernelsUpTo(h) == {b.kern : b \in Blocks(h)}
Kernels == KernelsUpTo(Height)

(* A key of a coinbase occurs in no other kind of transaction.             *)
CoinbaseHeight ==
    [k \in Key |-> IF \E tx \in signed : tx.cb > 0 /\ k \in tx.outs
                   THEN (CHOOSE tx \in signed : tx.cb > 0 /\ k \in tx.outs).cb
                   ELSE 0]

-----------------------------------------------------------------------------
(* Threads                                                                 *)

PC == {"idle", "refresh", "outputs", "apply", "txs", "kernels", "kernel",
       "confirm", "tip", "collect", "snapshot", "spent", "spentSave",
       "restore", "locked", "lockedSave", "unconfirmed", "unconfirmedDelete",
       "children", "ttl", "cancel"}

ThreadState ==
    [pc: PC, job: {"none", "update", "scan", "cancel"}, del: BOOLEAN,
     target: Slates \cup {NoSlate}, id: {-1} \cup Ids, acct: Acct, h: Nat, api: SUBSET Key,
     txs: SUBSET TxLogEntry, todo: SUBSET TxLogEntry, found: SUBSET Key,
     outs: [Slot -> OutputData], fix: SUBSET Slot, cur: SUBSET Slot]

NoOutputs == [x \in Slot |-> NoOutput]

Idle == [pc |-> "idle", job |-> "none", del |-> FALSE, target |-> NoSlate,
         id |-> -1, acct |-> 0, h |-> 0, api |-> {}, txs |-> {}, todo |-> {},
         found |-> {}, outs |-> NoOutputs, fix |-> {}, cur |-> {}]

-----------------------------------------------------------------------------
(* A wallet restored from its seed and scanned: every account owns Funds   *)
(* confirmed outputs.                                                      *)

InitEntry(a, i) ==
    IF i < Funds
    THEN [NoEntry(i) EXCEPT !.acct = a, !.type = "TxReceived",
                            !.confirmed = TRUE, !.credit = TRUE]
    ELSE NoEntry(i)

InitDB ==
    [outs |-> [x \in Slot |->
                 IF x \in Genesis \X {TRUE}
                 THEN [root |-> x[1][1], status |-> "Unspent",
                       tx |-> x[1][2], cb |-> 0]
                 ELSE NoOutput],
     txlog |-> [a \in Acct |-> [i \in Ids |-> InitEntry(a, i)]],
     nextTx |-> [a \in Acct |-> Funds],
     nextChild |-> [a \in Acct |-> Funds],
     confH |-> [a \in Acct |-> 0],
     ctxs |-> [s \in Slates |-> NoContext]]

Init ==
    /\ db = InitDB
    /\ active = 0
    /\ lock = NoThread
    /\ th = [t \in Threads |-> Idle]
    /\ chain = <<>>
    /\ signed = {}
    /\ issued = {}
    /\ reorgs = 0

-----------------------------------------------------------------------------
(* API calls                                                               *)

(* The process restarts: the database survives, the active account is the  *)
(* default one again, threads and mutex are gone.                          *)
Restart ==
    /\ Crashes
    /\ active' = 0
    /\ lock' = NoThread
    /\ th' = [t \in Threads |-> Idle]

(* An API call that commits the databases in early and then final; effect  *)
(* is what its result changes outside the wallet.                          *)
Call(early, final, effect) ==
    \/ db' = final /\ effect /\ UNCHANGED <<active, lock, th>>
    \/ db' \in early /\ Restart /\ UNCHANGED world

Free == lock = NoThread

(* The refresh inside add_inputs_to_slate and create_late_lock_context.    *)
Refreshed(d, a) ==
    {d} \cup
    IF ApiRefresh /\ RefreshHasIds(d, a, FALSE, Utxo)
    THEN {refresh_output_state(d, a, FALSE, Height, Utxo, Kernels)}
    ELSE {}

(* check_ttl looks at the active account's height.                         *)
check_ttl(ttl) == ttl = 0 \/ db.confH[active] < ttl

Expiry(blocks) == IF blocks = 0 THEN 0 ELSE Height + blocks

(* Selecting inputs S from account a with n change outputs: the context of *)
(* build_send_tx, whose keys come from the active account.                 *)
(* (Mutant: the change keys come from the account that pays.)              *)
Selected_keys(d, kind, S, n, a, kern, ttl) ==
    [kind |-> kind, ins |-> S, outs |-> NewKeys(d, a, n), acct |-> a,
     kern |-> kern, ttl |-> ttl]

Selected(d, kind, S, n, a, kern, ttl) ==
    [kind |-> kind, ins |-> S, outs |-> NewKeys(d, active, n), acct |-> a,
     kern |-> kern, ttl |-> ttl]

(* A selection that fails leaves the refresh behind.                       *)
SelectionFails(a) ==
    /\ Free
    /\ \E d \in Refreshed(db, a) : Call({}, d, UNCHANGED world)

init_send_tx(s, a) ==
    /\ Free /\ s \notin issued
    /\ \E d \in Refreshed(db, a), n \in 0 .. MaxChange, b \in Ttls :
       \E S \in (SUBSET Eligible(d, a, ZeroConf)) \ {{}} :
          /\ HasChildren(d, active, n)
          /\ LET d1 == next_child(d, active, n)
                 c == Selected(d, "Send", S, n, a, NoKern, Expiry(b))
             IN  Call({d, d1}, SaveContext(d1, s, c),
                      /\ issued' = issued \cup {s}
                      /\ UNCHANGED <<chain, signed, reorgs>>)

(* With late locking the selection only fixes the fee.                     *)
init_send_tx_late(s, a) ==
    /\ Free /\ LateLock /\ s \notin issued
    /\ \E d \in Refreshed(db, a), b \in Ttls :
          /\ Eligible(d, a, ZeroConf) # {}
          /\ LET c == [NoContext EXCEPT !.kind = "Late", !.acct = a,
                                        !.ttl = Expiry(b)]
             IN  Call({d}, SaveContext(d, s, c),
                      /\ issued' = issued \cup {s}
                      /\ UNCHANGED <<chain, signed, reorgs>>)

(* tx_lock_outputs fails without a trace if an input has no record.        *)
tx_lock_outputs(s) ==
    /\ Free
    /\ db.ctxs[s].kind \in {"Send", "Late", "Pay"}
    /\ CanLock(db, s) /\ HasIds(db, db.ctxs[s].acct, 1)
    /\ db' = lock_tx_context(db, s)
    /\ UNCHANGED <<active, lock, th>> /\ UNCHANGED world

(* repopulate_tx leaves out what has no record any more, and the resulting *)
(* transaction then does not balance: finalizing fails.                    *)
Complete(d, c) ==
    \A k \in KeysOf(c.ins) \cup c.outs :
        Exists(d, <<k, FALSE>>) \/ Exists(d, <<k, TRUE>>)

EntriesToFinish(d, s, type) ==
    {p \in TxsWithSlate(d, s) : Entry(d, p).type = type}

(* update_stored_tx: the final kernel goes into the log.                   *)
update_stored_tx(d, s, type, kern) ==
    LET e == Entry(d, First(EntriesToFinish(d, s, type)))
    IN  SaveEntry(d, e.acct, [e EXCEPT !.kern = kern])

(* A payment must be logged in the active account (the payment proof check *)
(* looks there) and as TxSent in any.                                      *)
CanFinish(d, s) ==
    /\ Complete(d, d.ctxs[s])
    /\ \E p \in TxsWithSlate(d, s) : Entry(d, p).acct = active
    /\ EntriesToFinish(d, s, "TxSent") # {}

(* From the completed transaction on: the log entry and the transaction    *)
(* file, the context, the slate state.                                     *)
Stored(d, s, type, kern) == update_stored_tx(d, s, type, kern)
Closed(d, s, type, kern) == DeleteContext(Stored(d, s, type, kern), s)
Finished(d, s, type, kern) ==
    update_tx_slate_state(Closed(d, s, type, kern), active, s)

SignedTx(c, kern) == [ins |-> KeysOf(c.ins), outs |-> c.outs, kern |-> kern, cb |-> 0]

Sign(tx) == signed' = signed \cup {tx} /\ UNCHANGED <<chain, issued, reorgs>>

(* The file is written first: from then on the transaction can be posted,  *)
(* crash or not.                                                           *)
Finish(d, s, type, kern) ==
    /\ Sign(SignedTx(d.ctxs[s], kern))
    /\ \/ db' = Finished(d, s, type, kern) /\ UNCHANGED <<active, lock, th>>
       \/ db' \in {d, Stored(d, s, type, kern), Closed(d, s, type, kern)} /\ Restart

SendKern(s) == <<s, {}>>

finalize_tx(s) ==
    /\ Free /\ db.ctxs[s].kind = "Send"
    /\ check_ttl(db.ctxs[s].ttl)
    /\ CanFinish(db, s)
    /\ Finish(db, s, "TxSent", SendKern(s))

(* A late-locked payment selects its inputs now, from the ACTIVE account,  *)
(* and locks them before it goes on; the lock stays if it then fails.      *)
finalize_tx_late(s) ==
    /\ Free /\ db.ctxs[s].kind = "Late"
    /\ check_ttl(db.ctxs[s].ttl)
    /\ \E n \in 0 .. MaxChange :
       \E S \in (SUBSET Eligible(db, active, ZeroConf)) \ {{}} :
          /\ HasChildren(db, active, n) /\ HasIds(db, db.ctxs[s].acct, 1)
          /\ LET c == Selected(db, "Send", S, n, db.ctxs[s].acct, NoKern,
                               db.ctxs[s].ttl)
                 d1 == next_child(db, active, n)
                 d2 == SaveContext(d1, s, c)
                 d3 == lock_tx_context(d2, s)
             IN  \/ CanFinish(d3, s) /\ Finish(d3, s, "TxSent", SendKern(s))
                 \/ ~CanFinish(d3, s) /\ Call({}, d3, UNCHANGED world)
                 \/ db' \in {d1, d2, d3} /\ Restart /\ UNCHANGED world
                 \/ Call({}, d1, UNCHANGED world)  \* the fee has changed

(* receive_tx into account a.  The sender may complete and post the        *)
(* transaction as soon as it has the answer.                               *)
receive_tx(s, a) ==
    /\ Free
    /\ HasChildren(db, active, 1) /\ HasIds(db, a, 1)
    /\ ~ \E p \in TxsWithSlate(db, s) :
            Entry(db, p).acct = a /\ Entry(db, p).type = "TxReceived"
    /\ \E b \in Ttls :
         /\ check_ttl(Expiry(b))
         /\ LET k == <<active, db.nextChild[active]>>
                d1 == next_child(db, active, 1)
                i == db.nextTx[a]
                d2 == build_recipient_output(d1, s, k, a, Expiry(b))
                d3 == [d2 EXCEPT !.txlog[a][i].kern = <<s, {k}>>]
            IN  Call({d1, d2, d3}, update_tx_slate_state(d3, a, s),
                     Sign([EmptyBlock EXCEPT !.outs = {k}, !.kern = <<s, {k}>>]))

issue_invoice_tx(s, a) ==
    /\ Free /\ s \notin issued
    /\ HasChildren(db, active, 1) /\ HasIds(db, a, 1)
    /\ LET k == <<active, db.nextChild[active]>>
           d1 == next_child(db, active, 1)
           d2 == build_recipient_output(d1, s, k, a, 0)
           c == [NoContext EXCEPT !.kind = "Invoice", !.outs = {k}, !.acct = a]
       IN  Call({d1, d2}, SaveContext(d2, s, c),
                /\ issued' = issued \cup {s}
                /\ UNCHANGED <<chain, signed, reorgs>>)

(* The payer has answered an invoice: complete it.  The ttl check_ttl      *)
(* looks at is in the payer's slate, so it may always pass.                *)
finalize_invoice(s) ==
    /\ Free /\ db.ctxs[s].kind = "Invoice"
    /\ Complete(db, db.ctxs[s])
    /\ EntriesToFinish(db, s, "TxReceived") # {}
    /\ Finish(db, s, "TxReceived", <<s, db.ctxs[s].outs>>)

(* process_invoice_tx signs for inputs it does not lock; the payee may     *)
(* complete and post at once.                                              *)
process_invoice_tx(s, a) ==
    /\ Free
    /\ ~ \E p \in TxsWithSlate(db, s) :
            /\ Entry(db, p).acct = a
            /\ Entry(db, p).type \in {"TxSent", "TxSentCancelled"}
    /\ \E d \in Refreshed(db, a), n \in 0 .. MaxChange, b \in Ttls :
       \E S \in (SUBSET Eligible(d, a, ZeroConf)) \ {{}} :
          /\ HasChildren(d, active, n)
          /\ LET kern == <<s, KeysOf(S) \cup NewKeys(d, active, n)>>
                 d1 == next_child(d, active, n)
                 c == Selected(d, "Pay", S, n, a, kern, Expiry(b))
             IN  Call({d, d1}, SaveContext(d1, s, c), Sign(SignedTx(c, kern)))

(* build_coinbase for the block at height n, with a fresh key or one it    *)
(* has handed out before.                                                  *)
build_coinbase(n) ==
    /\ Free /\ Coinbases
    /\ \E k \in KeysOf({x \in Slot : /\ ~x[2] /\ db.outs[x].cb > 0
                                     /\ db.outs[x].status = "Unconfirmed"})
                \cup NewKeys(db, active, 1) :
         LET new == k \in NewKeys(db, active, 1)
             d1 == IF new THEN next_child(db, active, 1) ELSE db
         IN  /\ new => HasChildren(db, active, 1)
             /\ Call({d1}, SaveOutput(d1, <<k, FALSE>>,
                                      [root |-> active, status |-> "Unconfirmed",
                                       tx |-> -1, cb |-> n]),
                     Sign([ins |-> {}, outs |-> {k}, kern |-> <<NoSlate, {k}>>,
                           cb |-> n]))

set_active_account(a) ==
    /\ Free /\ active # a
    /\ active' = a
    /\ UNCHANGED <<db, lock, th>> /\ UNCHANGED world

Crash == Restart /\ UNCHANGED db /\ UNCHANGED world

-----------------------------------------------------------------------------
(* The chain                                                               *)

AddBlock(b) ==
    /\ Height < MaxHeight
    /\ chain' = Append(chain, b)
    /\ UNCHANGED wallet /\ UNCHANGED <<signed, issued, reorgs>>

Mine(tx) ==
    /\ tx.ins \subseteq Utxo
    /\ tx.outs \cap (Utxo \cup (UNION {b.outs : b \in Blocks(Height)})) = {}
    /\ tx.kern \notin Kernels
    /\ tx.cb > 0 => tx.cb = Height + 1
    /\ AddBlock(tx)

MineEmpty == AddBlock(EmptyBlock)

Reorg ==
    /\ reorgs < MaxReorg /\ Height > 0
    /\ chain' = SubSeq(chain, 1, Height - 1)
    /\ reorgs' = reorgs + 1
    /\ UNCHANGED wallet /\ UNCHANGED <<signed, issued>>

-----------------------------------------------------------------------------
(* Threads.  A step of thread t at pc moves it to state s.                 *)

At(t, pc) == th[t].pc = pc
Become(t, s) == th' = [th EXCEPT ![t] = s]
Goto(t, pc) == [th[t] EXCEPT !.pc = pc]
NoDbStep == UNCHANGED <<db, active, lock>> /\ UNCHANGED world
Section(t, d) == Free /\ db' = d /\ UNCHANGED <<active, lock>> /\ UNCHANGED world

(* update_wallet_state (also as the first half of cancel_tx) notes the     *)
(* active account; scan starts with the refresh.                           *)
Start(t, job, del, s, i) ==
    /\ At(t, "idle") /\ Free /\ job \in Jobs
    /\ Become(t, [Idle EXCEPT !.pc = "refresh", !.job = job, !.del = del,
                              !.target = s, !.id = i, !.acct = active])
    /\ NoDbStep

(* update_outputs takes the mutex and asks for the tip ...                 *)
RefreshTip(t) ==
    /\ At(t, "refresh") /\ Free
    /\ lock' = t
    /\ Become(t, [Goto(t, "outputs") EXCEPT !.h = Height])
    /\ UNCHANGED <<db, active>> /\ UNCHANGED world

(* ... then for the mapped outputs ...                                     *)
RefreshOutputs(t) ==
    /\ At(t, "outputs")
    /\ Become(t, [Goto(t, "apply") EXCEPT !.api = Utxo])
    /\ NoDbStep

(* ... then for the kernels of vanished ones, applies it all and lets go.  *)
(* A scan covers every output, an update those of outstanding entries.     *)
(* (Mutant: the mutex is kept.)                                            *)
RefreshApply_locked(t) ==
    /\ At(t, "apply")
    /\ db' = refresh_output_state(db, active, FALSE, th[t].h, th[t].api, Kernels)
    /\ Become(t, [Goto(t, "txs") EXCEPT !.api = {}, !.h = 0])
    /\ UNCHANGED <<lock, active>> /\ UNCHANGED world

RefreshApply(t) ==
    LET all == th[t].job = "scan"
        next == IF all THEN "tip" ELSE "txs"
    IN  /\ At(t, "apply")
        /\ RefreshHasIds(db, active, all, th[t].api)
        /\ db' = refresh_output_state(db, active, all, th[t].h, th[t].api, Kernels)
        /\ lock' = NoThread
        /\ Become(t, [Goto(t, next) EXCEPT !.api = {}, !.h = 0])
        /\ UNCHANGED active /\ UNCHANGED world

(* Step 2 of an update copies the outstanding entries of the account noted *)
(* at the start.                                                           *)
SnapshotTxs(t) ==
    /\ At(t, "txs") /\ Free
    /\ Become(t, [Goto(t, "kernels") EXCEPT !.txs = OutstandingTxs(db, th[t].acct)])
    /\ NoDbStep

(* update_txs_via_kernel notes the active account again and the height up  *)
(* to which it looks; entries with both a debit and a credit are skipped.  *)
(* (Mutant: payments are skipped whether or not they have change.)         *)
StartKernels_received(t) ==
    /\ At(t, "kernels") /\ Free
    /\ Become(t, [Goto(t, "kernel") EXCEPT
                     !.acct = active, !.h = Height,
                     !.todo = {e \in th[t].txs : ~e.debit /\ e.kern # NoKern}])
    /\ NoDbStep

StartKernels(t) ==
    /\ At(t, "kernels") /\ Free
    /\ Become(t, [Goto(t, "kernel") EXCEPT
                     !.acct = active, !.h = Height,
                     !.todo = {e \in th[t].txs :
                                  ~(e.debit /\ e.credit) /\ e.kern # NoKern}])
    /\ NoDbStep

(* One kernel is looked up; if it is there, the copy is marked confirmed.  *)
(* (Mutant: the node's answer is not looked at.)                           *)
LookupKernel_unseen(t, e) ==
    /\ At(t, "kernel") /\ e \in th[t].todo
    /\ Become(t, [Goto(t, "confirm") EXCEPT
                     !.todo = (@ \ {e}) \cup {[e EXCEPT !.confirmed = TRUE]}])
    /\ NoDbStep

LookupKernel(t, e) ==
    /\ At(t, "kernel") /\ e \in th[t].todo
    /\ IF e.kern \in KernelsUpTo(th[t].h)
       THEN Become(t, [Goto(t, "confirm") EXCEPT
                         !.todo = (@ \ {e}) \cup {[e EXCEPT !.confirmed = TRUE]}])
       ELSE Become(t, [th[t] EXCEPT !.todo = @ \ {e}])
    /\ NoDbStep

(* The copy, as it was read, is written back confirmed under the account   *)
(* noted by StartKernels.                                                  *)
SaveConfirmed(t, e) ==
    /\ At(t, "confirm") /\ e \in th[t].todo /\ e.confirmed
    /\ Section(t, SaveEntry(db, th[t].acct, e))
    /\ Become(t, [Goto(t, "kernel") EXCEPT !.todo = @ \ {e}])

KernelsDone(t) ==
    /\ At(t, "kernel") /\ th[t].todo = {}
    /\ Become(t, [Goto(t, "tip") EXCEPT !.h = 0])
    /\ NoDbStep

(* Both kinds of scan ask for the tip, collect the chain's outputs without *)
(* the mutex, then copy the wallet's outputs.                              *)
ScanTip(t) ==
    /\ At(t, "tip") /\ (th[t].job = "scan" => Free)
    /\ Become(t, [Goto(t, "collect") EXCEPT !.h = Height])
    /\ NoDbStep

collect_chain_outputs(t) ==
    /\ At(t, "collect")
    /\ Become(t, [Goto(t, "snapshot") EXCEPT !.found = UtxoUpTo(th[t].h)])
    /\ NoDbStep

SnapshotOutputs(t) ==
    /\ At(t, "snapshot") /\ Free
    /\ Become(t, [Goto(t, "spent") EXCEPT
                     !.outs = db.outs,
                     !.fix = Matched(db.outs, th[t].found, "Spent")])
    /\ NoDbStep

(* Outputs to repair come one at a time, in two sections each: the log     *)
(* entry is cancelled, then the copied record is saved with a new status.  *)
FixEntry(t, x, pc, next) ==
    /\ At(t, pc) /\ x \in th[t].fix
    /\ Section(t, cancel_tx_log_entry(db, x, th[t].outs[x]))
    /\ Become(t, [Goto(t, next) EXCEPT !.cur = {x}])

FixOutput(t, x, pc, next, o) ==
    /\ At(t, pc) /\ x \in th[t].cur
    /\ Section(t, SaveOutput(db, x, o))
    /\ Become(t, [Goto(t, next) EXCEPT !.cur = {}, !.fix = @ \ {x}])

(* (Mutant: the copy is saved as it is.)                                   *)
CopyUnspent_asIs(t, x) == th[t].outs[x]

CopyUnspent(t, x) == [th[t].outs[x] EXCEPT !.status = "Unspent"]

SpentEntry(t, x) == FixEntry(t, x, "spent", "spentSave")
SpentOutput(t, x) == FixOutput(t, x, "spentSave", "spent", CopyUnspent(t, x))

SpentDone(t) ==
    /\ At(t, "spent") /\ th[t].fix = {}
    /\ Become(t, Goto(t, "restore"))
    /\ NoDbStep

RestoreMissing(t) ==
    LET K == Missing(th[t].outs, th[t].found)
        next == IF th[t].del THEN "locked" ELSE "children"
    IN  /\ At(t, "restore")
        /\ RestoreHasIds(db, K)
        /\ Section(t, restore_missing_outputs(db, K, CoinbaseHeight))
        /\ Become(t, [Goto(t, next) EXCEPT
                         !.fix = IF th[t].del
                                 THEN Matched(th[t].outs, th[t].found, "Locked")
                                 ELSE {}])

LockedEntry(t, x) == FixEntry(t, x, "locked", "lockedSave")
LockedOutput(t, x) == FixOutput(t, x, "lockedSave", "locked", CopyUnspent(t, x))

LockedDone(t) ==
    /\ At(t, "locked") /\ th[t].fix = {}
    /\ Become(t, [Goto(t, "unconfirmed") EXCEPT
                     !.fix = {x \in Slot : th[t].outs[x].status = "Unconfirmed"}])
    /\ NoDbStep

UnconfirmedEntry(t, x) == FixEntry(t, x, "unconfirmed", "unconfirmedDelete")
UnconfirmedOutput(t, x) ==
    FixOutput(t, x, "unconfirmedDelete", "unconfirmed", NoOutput)

UnconfirmedDone(t) ==
    /\ At(t, "unconfirmed") /\ th[t].fix = {}
    /\ Become(t, Goto(t, "children"))
    /\ NoDbStep

(* The last section of a scan restores the child indices; a scan of its    *)
(* own is then done.                                                       *)
ScanDone(t) ==
    /\ At(t, "children")
    /\ Section(t, restore_child_indices(db, Missing(th[t].outs, th[t].found)))
    /\ IF th[t].job = "scan"
       THEN Become(t, Idle)
       ELSE Become(t, [Goto(t, "ttl") EXCEPT
                         !.found = {}, !.outs = NoOutputs,
                         !.todo = {e \in th[t].txs : e.ttl # 0 /\ th[t].h >= e.ttl}])

(* Step 5 cancels expired entries by id, in whatever account is active by  *)
(* then; the first one that cannot be cancelled ends the update.           *)
CancelExpired(t, e) ==
    LET P == TxsWithId(db, active, e.id) IN
    /\ At(t, "ttl") /\ e \in th[t].todo
    /\ IF CanCancel(db, P)
       THEN /\ Section(t, cancel_tx_and_outputs(db, active, P))
            /\ Become(t, [th[t] EXCEPT !.todo = @ \ {e}])
       ELSE Section(t, db) /\ Become(t, Idle)

UpdateDone(t) ==
    /\ At(t, "ttl") /\ th[t].todo = {}
    /\ Become(t, IF th[t].job = "cancel"
                 THEN [Idle EXCEPT !.pc = "cancel", !.job = "cancel",
                                   !.target = th[t].target, !.id = th[t].id]
                 ELSE Idle)
    /\ NoDbStep

(* cancel_tx by log id or by slate id, in the active account.              *)
CancelTx(t) ==
    LET P == IF th[t].id # -1
             THEN TxsWithId(db, active, th[t].id)
             ELSE {p \in TxsWithSlate(db, th[t].target) : Entry(db, p).acct = active}
    IN
    /\ At(t, "cancel")
    /\ Section(t, IF CanCancel(db, P) THEN cancel_tx_and_outputs(db, active, P) ELSE db)
    /\ Become(t, Idle)

(* A failed call to the node ends the job and releases the mutex, except   *)
(* that scan does not look at the result of its refresh.                   *)
NodeFailure(t) ==
    /\ NodeFails
    /\ th[t].pc \in {"refresh", "outputs", "apply", "kernels", "kernel", "tip", "collect"}
    /\ th[t].pc \in {"refresh", "kernels"} => Free
    /\ At(t, "kernel") => th[t].todo # {}
    /\ lock' = IF lock = t THEN NoThread ELSE lock
    /\ Become(t, IF th[t].job = "scan" /\ th[t].pc \in {"refresh", "outputs", "apply"}
                 THEN [Goto(t, "tip") EXCEPT !.api = {}, !.h = 0]
                 ELSE Idle)
    /\ UNCHANGED <<db, active>> /\ UNCHANGED world

-----------------------------------------------------------------------------
ApiCall ==
    \/ \E s \in SendSlates, a \in Acct : init_send_tx(s, a)
    \/ \E s \in SendSlates, a \in Acct : init_send_tx_late(s, a)
    \/ \E a \in Acct : SendSlates \cup PaySlates # {} /\ SelectionFails(a)
    \/ \E s \in SendSlates \cup PaySlates : tx_lock_outputs(s)
    \/ \E s \in SendSlates : finalize_tx(s)
    \/ \E s \in SendSlates : finalize_tx_late(s)
    \/ \E s \in RecvSlates, a \in Acct : receive_tx(s, a)
    \/ \E s \in InvSlates, a \in Acct : issue_invoice_tx(s, a)
    \/ \E s \in InvSlates : finalize_invoice(s)
    \/ \E s \in PaySlates, a \in Acct : process_invoice_tx(s, a)
    \/ \E n \in 1 .. MaxHeight : build_coinbase(n)
    \/ \E a \in Acct : set_active_account(a)

StartJob(t) ==
    \/ Start(t, "update", FALSE, NoSlate, -1)
    \/ \E del \in BOOLEAN : Start(t, "scan", del, NoSlate, -1)
    \/ \E s \in Slates : Start(t, "cancel", FALSE, s, -1)
    \/ \E i \in Ids : Start(t, "cancel", FALSE, NoSlate, i)

RefreshStep(t) == RefreshTip(t) \/ RefreshOutputs(t) \/ RefreshApply(t)

KernelStep(t) ==
    \/ SnapshotTxs(t) \/ StartKernels(t) \/ KernelsDone(t)
    \/ \E e \in th[t].todo : LookupKernel(t, e) \/ SaveConfirmed(t, e)

ScanStep(t) ==
    \/ ScanTip(t) \/ collect_chain_outputs(t) \/ SnapshotOutputs(t)
    \/ \E x \in th[t].fix : \/ SpentEntry(t, x) \/ LockedEntry(t, x)
                            \/ UnconfirmedEntry(t, x)
    \/ \E x \in th[t].cur : \/ SpentOutput(t, x) \/ LockedOutput(t, x)
                            \/ UnconfirmedOutput(t, x)
    \/ SpentDone(t) \/ LockedDone(t) \/ UnconfirmedDone(t)
    \/ RestoreMissing(t) \/ ScanDone(t)

CancelStep(t) ==
    \/ \E e \in th[t].todo : CancelExpired(t, e)
    \/ UpdateDone(t) \/ CancelTx(t)

JobStep(t) == RefreshStep(t) \/ KernelStep(t) \/ ScanStep(t) \/ CancelStep(t)

ThreadStep(t) == StartJob(t) \/ JobStep(t) \/ NodeFailure(t)

ChainStep == (\E tx \in signed : Mine(tx)) \/ MineEmpty \/ Reorg

Next == ApiCall \/ (\E t \in Threads : ThreadStep(t)) \/ ChainStep \/ Crash

Spec == Init /\ [][Next]_vars

-----------------------------------------------------------------------------
(* Type invariant.                                                         *)
TypeOK ==
    /\ db \in WalletDB
    /\ active \in Acct
    /\ lock \in Threads \cup {NoThread}
    /\ th \in [Threads -> ThreadState]
    /\ chain \in Seq(Tx)
    /\ signed \subseteq Tx
    /\ issued \subseteq Slates
    /\ reorgs \in Nat

(* Keys anything refers to: records, contexts, transactions and the copies *)
(* a scan works on.                                                        *)
Copied(t) == th[t].fix \cup th[t].cur
                \cup {x \in Slot : th[t].outs[x].status # "None"}

KeysInUse ==
    KeysOf({x \in Slot : Exists(db, x)})
        \cup (UNION {KeysOf(db.ctxs[s].ins) \cup db.ctxs[s].outs : s \in Slates})
        \cup (UNION {tx.ins \cup tx.outs : tx \in signed})
        \cup Genesis \cup (UNION {b.ins \cup b.outs : b \in Blocks(Height)})
        \cup (UNION {th[t].found \cup KeysOf(Copied(t)) : t \in Threads})

(* next_child never hands out a key that is in use anywhere: in a record,  *)
(* an unfinished slate, a signed transaction, the chain or a running scan, *)
(* crashes between its batch and the key's first use included.             *)
KeysFresh == \A k \in KeysInUse : k[2] < db.nextChild[k[1]]

=============================================================================
