------------------------------ MODULE Exchange ------------------------------
(***************************************************************************)
(* Two or more wallets that pay each other by exchanging slates: the       *)
(* commands send, receive, invoice, pay, finalize, post, repost and cancel *)
(* (controller/src/command.rs) over the owner and foreign API, with slates *)
(* carried by slatepack messages or by Tor.                                *)
(*                                                                         *)
(* A slatepack message, once written, stays available: it can be read      *)
(* never, late, twice, in any order and by the wrong command.  A command   *)
(* that uses Tor waits for an answer that may be lost.  A wallet's         *)
(* database is reduced to what an exchange touches; WalletCore models      *)
(* refreshes, scans and crashes.                                           *)
(***************************************************************************)
EXTENDS SlateWire, TLC

CONSTANTS
    Amounts,     \* amounts asked for
    Funds,       \* values of the coins a wallet starts with, by wallet
    Ttls,        \* ttl_blocks of a send; 0 is none
    Payers,      \* wallets that start a send or pay an invoice
    MaxEntries,  \* bound: log entries of an account
    LateLock,    \* who may ask for late locking: "cli", "api"
    Proofs,      \* a send may ask for a payment proof
    Invoices,    \* invoices are issued
    Tor,         \* commands may use Tor
    Api,         \* init_send_tx is called on its own, by the owner API
    Cancels,     \* transactions are cancelled
    MaxDamaged   \* bound: messages whose text is damaged on the way

(* A wallet starts with coins of its own, made with its first child keys.  *)
ASSUME ExchangeAssumption ==
    /\ Amounts \subseteq Nat /\ <<>> \notin Slates
    /\ Accts \subseteq Nat /\ MaxEntries \in Nat
    /\ \A w \in Wallets :
          /\ IsFiniteSet(Funds[w]) /\ Funds[w] \subseteq Coin
          /\ \A c \in Funds[w] : c.own = w /\ c.child <= Cardinality(Funds[w])

VARIABLES
    db,      \* the wallets' databases
    msgs,    \* slatepack messages written so far
    tor,     \* the command of a wallet that waits for an answer over Tor
    pool,    \* transactions posted and accepted
    chain,   \* transactions mined, one in a block
    agreed,  \* history: who started a slate, how, and for how much
    seen     \* history: partial signatures that have left a wallet, also in a sum

vars == <<db, msgs, tor, pool, chain, agreed, seen>>

-----------------------------------------------------------------------------
(* The database of a wallet: draws counts the contexts made for a slate.   *)

NoContext == [key |-> <<>>]
NewContext(w, s, n, acct) ==
    [acct |-> acct, key |-> <<w, s, n>>, initKey |-> <<w, s, n>>, ins |-> {}, outs |-> {},
     amount |-> 0, fee |-> 0, late |-> FALSE, index |-> FALSE, excess |-> {}]

(* TxLogEntry with its StoredProofInfo.  A slot of the log is an account   *)
(* and an id; the entry in it names its own account.                       *)
NoEntry == [slate |-> <<>>]
NoStored == [raddr |-> <<>>]
NewEntry(s, a, type, sl, ctx) ==
    [slate |-> s, acct |-> a, type |-> type, excess |-> calc_excess(sl),
     state |-> sl.state, proof |-> NoStored, credited |-> Total(ctx.outs),
     debited |-> Total(ctx.ins), fee |-> IF type = "TxSent" THEN ctx.fee ELSE 0]

Pos == Accts \X (1 .. MaxEntries)

InitDb(w) ==
    [next |-> Cardinality(Funds[w]) + 1,
     coins |-> [c \in Funds[w] |-> [acct |-> 0, status |-> "Unspent", log |-> 0]],
     log |-> [p \in Pos |-> NoEntry],
     nextTx |-> [a \in Accts |-> 1],
     ctx |-> [s \in Slates |-> NoContext],
     draws |-> [s \in Slates |-> 0],
     files |-> [s \in Slates |-> NoTx]]

Height == Len(chain)
OnChain == ToSet(chain)
Spent == UNION {tx.ins : tx \in OnChain}

(* check_ttl, against the node's tip.                                      *)
check_ttl(sl) == sl.ttl = 0 \/ Height < sl.ttl

Address0(w, a) == <<w, a>>
EntriesOf(d, a, s) == {p \in Pos : d.log[p].slate = s /\ d.log[p].acct = a}
HasRoom(d, a) == d.nextTx[a] <= MaxEntries
CanDraw(d, s) == d.draws[s] < MaxCtx /\ d.next <= MaxCoin

(* tx_log_iter goes through the slots by account and id.                   *)
Before(p, q) == p[1] < q[1] \/ (p[1] = q[1] /\ p[2] <= q[2])
Found(d, s, types) == {p \in Pos : d.log[p].slate = s /\ d.log[p].type \in types}
FirstOf(P) == CHOOSE p \in P : \A q \in P : Before(p, q)

AllTypes == {"TxSent", "TxReceived", "TxSentCancelled", "TxReceivedCancelled"}

(* update_tx_slate_state: the slate's first entry is saved under the given *)
(* account, whichever its own is.                                          *)
update_tx_slate_state(d, a, sl) ==
    LET p == FirstOf(Found(d, sl.id, AllTypes))
    IN  [d EXCEPT !.log[<<a, p[2]>>] = [d.log[p] EXCEPT !.state = sl.state]]

-----------------------------------------------------------------------------
(* Building: select coins and change, make a recipient's output.           *)

(* build_send_tx: one coin stands for the selection; Selection models how  *)
(* coins and fee are found.                                                *)
Selectable(d, a, amount) ==
    {c \in DOMAIN d.coins : /\ d.coins[c].acct = a /\ d.coins[c].status = "Unspent"
                            /\ c.value >= amount + Fee}
Change(w, d, c, amount) ==
    IF c.value = amount + Fee THEN {}
    ELSE {[own |-> w, child |-> d.next, value |-> c.value - amount - Fee]}

Drawn(d, s, ctx) ==
    [d EXCEPT !.draws[s] = @ + 1,
              !.next = @ + Cardinality({c \in ctx.outs : c.child = d.next})]

build_send_tx(w, d, a, sl, c) ==
    [NewContext(w, sl.id, d.draws[sl.id] + 1, a) EXCEPT
        !.ins = {c}, !.outs = Change(w, d, c, sl.amount), !.amount = sl.amount, !.fee = Fee]

build_recipient_output(w, d, a, sl) ==
    [NewContext(w, sl.id, d.draws[sl.id] + 1, a) EXCEPT
        !.outs = {[own |-> w, child |-> d.next, value |-> sl.amount]},
        !.amount = sl.amount, !.fee = sl.fee]

SavedOutputs(d, outs, a, id) ==
    [d EXCEPT !.coins = [c \in outs \cup DOMAIN d.coins |->
        IF c \in outs THEN [acct |-> a, status |-> "Unconfirmed", log |-> id] ELSE d.coins[c]]]

(* repopulate_tx puts back what this wallet left out of the slate it sent. *)
(* Inputs and outputs that are no longer in the database are skipped.      *)
repopulate_tx(d, sl, ctx, update_fee) ==
    LET s1 == [sl EXCEPT !.amount = ctx.amount, !.fee = IF update_fee THEN ctx.fee ELSE @]
    IN  [add_transaction_elements(add_participant_info(s1, ctx.key),
             ctx.ins \cap DOMAIN d.coins, ctx.outs \cap DOMAIN d.coins)
            EXCEPT !.tx.offset = sl.offset]

(* lock_tx_context, by way of tx_lock_outputs.                             *)
LockSlate(d, sl) ==
    IF sl.tx = NoTx
    THEN repopulate_tx(d, [sl EXCEPT !.tx = empty_transaction], d.ctx[sl.id], TRUE)
    ELSE sl

CanLock(d, sl) ==
    LET ctx == d.ctx[sl.id]
    IN  /\ ctx # NoContext /\ HasRoom(d, ctx.acct)
        /\ ctx.ins \subseteq DOMAIN d.coins
        /\ sl.tx = NoTx => ctx.fee # 0
        /\ sl.proof # NoProof => ctx.index

tx_lock_outputs(w, d, sl) ==
    LET ctx == d.ctx[sl.id]
        lsl == LockSlate(d, sl)
        id == d.nextTx[ctx.acct]
        e == [NewEntry(sl.id, ctx.acct, "TxSent", lsl, ctx) EXCEPT
                 !.excess = IF Cardinality(Keys(sl)) = 1 /\ ctx.excess # {}
                            THEN ctx.excess ELSE @,
                 !.proof = IF sl.proof = NoProof THEN NoStored
                           ELSE [raddr |-> sl.proof.raddr, rsig |-> sl.proof.rsig,
                                 saddr |-> Address0(w, ctx.acct), ssig |-> <<>>]]
        d1 == [d EXCEPT !.coins = [c \in DOMAIN @ |->
                  IF c \in ctx.ins THEN [@[c] EXCEPT !.status = "Locked", !.log = id] ELSE @[c]]]
    IN  [SavedOutputs(d1, ctx.outs, ctx.acct, id) EXCEPT
            !.log[<<ctx.acct, id>>] = e, !.nextTx[ctx.acct] = id + 1,
            !.files[sl.id] = lsl.tx]

-----------------------------------------------------------------------------
(* The steps of an exchange.  Each is one API call: a guard, the slate it  *)
(* gives back and the database it leaves.                                  *)

(* init_send_tx; a late-locked send draws a context without inputs.        *)
InitContext(w, d, a, sl, c, late, proof) ==
    [build_send_tx(w, d, a, sl, c) EXCEPT
        !.ins = IF late THEN {} ELSE @, !.outs = IF late THEN {} ELSE @,
        !.late = late, !.index = proof # <<>>]

(* Mutant: the fee is taken out of the amount                           . *)
InitSlate_net(s, amount, ttl) ==
    [blank(s, FALSE) EXCEPT !.amount = amount - Fee, !.fee = Fee,
                            !.ttl = IF ttl = 0 THEN 0 ELSE Height + ttl]
InitSlate(s, amount, ttl) ==
    [blank(s, FALSE) EXCEPT !.amount = amount, !.fee = Fee,
                            !.ttl = IF ttl = 0 THEN 0 ELSE Height + ttl]

init_send_slate(w, a, sl, ctx, proof) ==
    compact([add_participant_info(sl, ctx.key) EXCEPT
        !.proof = IF proof = <<>> THEN NoProof
                  ELSE [saddr |-> Address0(w, a), raddr |-> proof, rsig |-> <<>>]])

init_send_db(d, sl, ctx) == [Drawn(d, sl.id, ctx) EXCEPT !.ctx[sl.id] = ctx]

(* add_output_to_slate: output and log entry are saved first, and the      *)
(* excess of the entry once the slate holds both participants.             *)
ReceivedDb(d, a, sl, ctx) ==
    LET id == d.nextTx[a]
    IN  [SavedOutputs(Drawn(d, sl.id, ctx), ctx.outs, a, id) EXCEPT
            !.log[<<a, id>>] = NewEntry(sl.id, a, "TxReceived", sl, ctx),
            !.nextTx[a] = id + 1]

(* receive_tx.                                                             *)
CanReceive(d, a, sl) ==
    /\ check_ttl(sl)
    /\ \A p \in EntriesOf(d, a, sl.id) : d.log[p].type # "TxReceived"
    /\ HasRoom(d, a) /\ CanDraw(d, sl.id)

(* A slate that already holds signatures is refused only when the output   *)
(* and the log entry have been saved.                                      *)
CanCosign(sl, k) == CanSign(add_participant_info(sl, k))

ReceivedSlate(w, a, sl, ctx) ==
    LET s1 == add_transaction_elements([sl EXCEPT !.tx = empty_transaction], {}, ctx.outs)
        s2 == fill_round_2(add_participant_info(s1, ctx.key), ctx.key)
        s3 == adjust_offset(s2, ctx)
        sig == ProofSig(Address0(w, a), sl.amount, calc_excess(s2), sl.proof.saddr)
    IN  [s3 EXCEPT !.proof = IF @ = NoProof THEN NoProof ELSE [@ EXCEPT !.rsig = sig]]

receive_slate(w, a, sl, ctx) ==
    remove_other_sigdata([ReceivedSlate(w, a, sl, ctx) EXCEPT
        !.amount = 0, !.fee = 0, !.state = "S2"], ctx.key)

receive_db(w, d, a, sl, ctx) ==
    update_tx_slate_state(ReceivedDb(d, a, ReceivedSlate(w, a, sl, ctx), ctx), a,
                          receive_slate(w, a, sl, ctx))

(* issue_invoice_tx.                                                       *)
InvoiceSlate(s, amount) == [blank(s, TRUE) EXCEPT !.amount = amount]
issue_slate(sl, ctx) == compact(add_participant_info(sl, ctx.key))
issue_db(d, a, sl, ctx) ==
    [ReceivedDb(d, a, sl, ctx) EXCEPT !.ctx[sl.id] = ctx]

(* process_invoice_tx.  A wallet that pays its own invoice keeps one       *)
(* context for both sides and leaves inputs and outputs to its finalize.   *)
CanPay(d, a, sl) ==
    /\ check_ttl(sl)
    /\ \A p \in EntriesOf(d, a, sl.id) : d.log[p].type \notin {"TxSent", "TxSentCancelled"}
    /\ CanDraw(d, sl.id)

PaidSlate(sl, ctx, self) ==
    LET s1 == add_transaction_elements([sl EXCEPT !.tx = empty_transaction, !.fee = Fee],
                                       ctx.ins, ctx.outs)
        s2 == fill_round_2(add_participant_info(s1, ctx.key), ctx.key)
    IN  adjust_offset(s2, IF self THEN [ctx EXCEPT !.ins = {}, !.outs = {}] ELSE ctx)

PaidContext(d, sl, ctx) ==
    LET c == d.ctx[sl.id]
        x == calc_excess(add_participant_info(sl, ctx.key))
    IN  IF c = NoContext THEN [ctx EXCEPT !.excess = x]
        ELSE [ctx EXCEPT !.excess = x, !.initKey = c.initKey, !.fee = c.fee,
                         !.amount = c.amount, !.outs = @ \cup c.outs, !.ins = @ \cup c.ins]

pay_db(d, sl, ctx) ==
    [Drawn(d, sl.id, ctx) EXCEPT !.ctx[sl.id] = PaidContext(d, sl, ctx)]

pay_slate(d, sl, ctx) ==
    LET full == repopulate_tx(d, PaidSlate(sl, ctx, d.ctx[sl.id] # NoContext),
                              PaidContext(d, sl, ctx), FALSE)
    IN  remove_other_sigdata([full EXCEPT !.amount = 0, !.state = "I2"], ctx.key)

(* complete_tx signs with the initiator's key when the context holds both. *)
SigningKey(ctx) == IF ctx.initKey # ctx.key THEN ctx.initKey ELSE ctx.key

(* verify_slate_payment_proof, against the first entry of the account.     *)
ProofOK(w, d, a, ctx, sl) ==
    LET P == EntriesOf(d, a, sl.id)
        orig == d.log[FirstOf(P)].proof
    IN  /\ P # {}
        /\ orig # NoStored => sl.proof # NoProof
        /\ sl.proof # NoProof =>
              /\ orig # NoStored /\ ctx.index
              /\ sl.proof.saddr = Address0(w, a)
              /\ sl.proof.raddr = orig.raddr
              /\ sl.proof.rsig = ProofSig(sl.proof.raddr, sl.amount, calc_excess(sl),
                                          Address0(w, a))

(* update_stored_tx.                                                       *)
Finishable(d, sl, invoiced) ==
    Found(d, sl.id, IF invoiced THEN {"TxReceived"} ELSE {"TxSent"})

(* Mutant: only the file is written                                     . *)
update_stored_tx_file(w, d, a, sl, invoiced) == [d EXCEPT !.files[sl.id] = sl.tx]
(* Mutant: the amount is signed after it was reset. *)
update_stored_tx_zeroed(w, d, a, sl, invoiced) ==
    LET p == FirstOf(Finishable(d, sl, invoiced))
        sig == ProofSig(Address0(w, a), 0, calc_excess(sl), sl.proof.saddr)
    IN  [d EXCEPT !.log[p].excess = calc_excess(sl),
                  !.log[p].proof = IF sl.proof = NoProof THEN @
                                   ELSE [raddr |-> sl.proof.raddr, rsig |-> sl.proof.rsig,
                                         saddr |-> Address0(w, a), ssig |-> sig],
                  !.files[sl.id] = sl.tx]
update_stored_tx(w, d, a, sl, invoiced) ==
    LET p == FirstOf(Finishable(d, sl, invoiced))
        sig == ProofSig(Address0(w, a), sl.amount, calc_excess(sl), sl.proof.saddr)
        e == [d.log[p] EXCEPT
                 !.excess = calc_excess(sl),
                 !.proof = IF sl.proof = NoProof THEN @
                           ELSE [raddr |-> sl.proof.raddr, rsig |-> sl.proof.rsig,
                                 saddr |-> Address0(w, a), ssig |-> sig]]
    IN  [d EXCEPT !.log[<<e.acct, p[2]>>] = e, !.files[sl.id] = sl.tx]

(* finalize_tx, once the inputs are known: the slate completed with ctx.   *)
Completed(d, sl, ctx, invoiced) ==
    LET s1 == repopulate_tx(d, adjust_offset(sl, ctx),
                 IF invoiced THEN [ctx EXCEPT !.key = ctx.initKey] ELSE ctx, ~invoiced)
    IN  fill_round_2(s1, SigningKey(ctx))

CanComplete(w, d, a, sl, ctx, invoiced) ==
    LET done == Completed(d, sl, ctx, invoiced)
    IN  /\ sl.tx # NoTx /\ (invoiced \/ ctx.fee # 0)
        /\ verify_part_sigs([done EXCEPT !.parts[SigningKey(ctx)] = NoSig])
        /\ CanFinalize(done)
        /\ invoiced \/ ProofOK(w, d, a, ctx, Finalized(done))
        /\ Finishable(d, sl, invoiced) # {}

finalize_slate(d, sl, ctx, invoiced) ==
    [Finalized(Completed(d, sl, ctx, invoiced)) EXCEPT
        !.state = IF invoiced THEN "I3" ELSE "S3", !.amount = 0]

(* Mutant: the context is kept                                          . *)
finalize_db_kept(w, d, a, sl, ctx, invoiced) ==
    update_tx_slate_state(
        update_stored_tx(w, d, a, Finalized(Completed(d, sl, ctx, invoiced)), invoiced),
        a, finalize_slate(d, sl, ctx, invoiced))
finalize_db(w, d, a, sl, ctx, invoiced) ==
    LET done == Finalized(Completed(d, sl, ctx, invoiced))
        d1 == update_stored_tx(w, d, a, done, invoiced)
    IN  update_tx_slate_state([d1 EXCEPT !.ctx[sl.id] = NoContext], a,
                              finalize_slate(d, sl, ctx, invoiced))

(* finalize_tx as a whole, giving all that may follow: the inputs of a     *)
(* late-locked send are selected, saved and locked first, and stay so if   *)
(* the rest fails.                                                         *)
LateContext(w, d, a, sl, c) ==
    [d.ctx[sl.id] EXCEPT !.late = FALSE, !.ins = {c},
                         !.outs = Change(w, d, c, d.ctx[sl.id].amount)]

LateLocked(w, d, a, sl, c) ==
    LET ctx == LateContext(w, d, a, sl, c)
    IN  tx_lock_outputs(w, [d EXCEPT !.ctx[sl.id] = ctx,
                                     !.next = @ + Cardinality(ctx.outs)], sl)

Started(w, d, a, sl) ==
    IF sl.state = "S2" /\ d.ctx[sl.id].late
    THEN {LateLocked(w, d, a, sl, c) :
             c \in IF HasRoom(d, d.ctx[sl.id].acct) /\ d.next <= MaxCoin
                   THEN Selectable(d, a, d.ctx[sl.id].amount) ELSE {}}
    ELSE {d}

Final(ok, d, sl) == [ok |-> ok, d |-> d, sl |-> sl]

finalize_tx(w, d, a, sl) ==
    IF \/ d.ctx[sl.id] = NoContext \/ ~check_ttl(sl) \/ sl.state \notin {"S2", "I2"}
       \/ Started(w, d, a, sl) = {}
    THEN {Final(FALSE, d, sl)}
    ELSE {LET ctx == e.ctx[sl.id]
              inv == sl.state = "I2"
          IN  IF CanComplete(w, e, a, sl, ctx, inv)
              THEN Final(TRUE, finalize_db(w, e, a, sl, ctx, inv), finalize_slate(e, sl, ctx, inv))
              ELSE Final(FALSE, e, sl)
          : e \in Started(w, d, a, sl)}

-----------------------------------------------------------------------------
(* The network and the node.                                               *)

SigsIn(sl) == {<<k, sl.parts[k]>> : k \in {j \in Keys(sl) : sl.parts[j] # NoSig}}

(* output_slatepack writes the message, for dest if there is one.          *)
Message(w, a, sl, dest) ==
    create_slatepack_message(sl, Address0(w, a), IF dest = <<>> THEN {} ELSE {dest})

Publish(m, sl) == msgs' = msgs \cup {m} /\ seen' = seen \cup SigsIn(sl)

(* The node takes a transaction that is valid and spends what is unspent.  *)
Unspent == ((UNION {Funds[w] : w \in Wallets})
                \cup (UNION {tx.outs : tx \in OnChain})) \ Spent
Accepts(tx) == ValidTx(tx) /\ tx.ins \subseteq Unspent
Posted(tx) == IF Accepts(tx) THEN pool \cup {tx} ELSE pool

Mine(tx) ==
    /\ tx \in pool /\ Accepts(tx)
    /\ chain' = Append(chain, tx) /\ pool' = pool \ {tx}
    /\ UNCHANGED <<db, msgs, tor, agreed, seen>>

-----------------------------------------------------------------------------
(* Commands.  Accounts are chosen anew by each command (-a).               *)

NoCmd == [cmd |-> "none"]
TorCmd(cmd, a, sl, dest) == [cmd |-> cmd, acct |-> a, sl |-> sl, dest |-> dest, answer |-> <<>>]
Idle(w) == tor[w] = NoCmd
Dests == {<<>>} \cup (Wallets \X Accts)

(* init_send_tx for the commands send: proof asks for the destination's.   *)
InitSend(w, a, s, amount, ttl, late, proof, c) ==
    LET sl == InitSlate(s, amount, ttl)
        ctx == InitContext(w, db[w], a, sl, c, late, proof)
    IN  [d |-> init_send_db(db[w], sl, ctx), sl |-> init_send_slate(w, a, sl, ctx, proof)]

CanInit(w, a, s, dest, late, proof, caller) ==
    /\ Idle(w) /\ agreed[s] = <<>> /\ w \in Payers
    /\ late => caller \in LateLock
    /\ proof \in {<<>>, dest} /\ (proof # <<>> => Proofs)
    /\ CanDraw(db[w], s)

Agree(s, w, kind, amount) == agreed' = [agreed EXCEPT ![s] = <<w, kind, amount>>]

(* The send command without Tor: the outputs are locked, late or not.      *)
send(w, a, s, amount, ttl, dest, late, proof) ==
    /\ CanInit(w, a, s, dest, late, proof, "cli")
    /\ \E c \in Selectable(db[w], a, amount) :
          LET r == InitSend(w, a, s, amount, ttl, late, proof, c)
          IN  /\ CanLock(r.d, r.sl)
              /\ db' = [db EXCEPT ![w] = tx_lock_outputs(w, r.d, r.sl)]
              /\ Publish(Message(w, a, r.sl, dest), r.sl)
    /\ Agree(s, w, "send", amount)
    /\ UNCHANGED <<tor, pool, chain>>

(* init_send_tx by the owner API: the caller carries the slate and calls   *)
(* tx_lock_outputs when it likes, a late-locked send never.                *)
api_init_send_tx(w, a, s, amount, ttl, dest, late, proof) ==
    /\ Api /\ CanInit(w, a, s, dest, late, proof, "api")
    /\ \E c \in Selectable(db[w], a, amount) :
          LET r == InitSend(w, a, s, amount, ttl, late, proof, c)
          IN  /\ db' = [db EXCEPT ![w] = r.d]
              /\ Publish(Message(w, a, r.sl, dest), r.sl)
    /\ Agree(s, w, "send", amount)
    /\ UNCHANGED <<tor, pool, chain>>

api_tx_lock_outputs(w, a, s) ==
    /\ Api /\ Idle(w)
    /\ db[w].ctx[s] # NoContext /\ ~db[w].ctx[s].late /\ agreed[s][1] = w
    /\ Found(db[w], s, {"TxSent"}) = {}
    /\ \E m \in {x \in msgs : CanDecode(x)} :
          LET sl == get_slate(m, m.data.sender)
          IN  /\ sl.id = s /\ sl.state = "S1"
              /\ CanLock(db[w], sl)
              /\ db' = [db EXCEPT ![w] = tx_lock_outputs(w, db[w], sl)]
    /\ UNCHANGED <<msgs, tor, pool, chain, agreed, seen>>

(* The send command with Tor: the slate goes to the destination's foreign  *)
(* API and the command waits.                                              *)
send_tor(w, a, s, amount, ttl, dest, late, proof) ==
    /\ Tor /\ dest # <<>> /\ CanInit(w, a, s, dest, late, proof, "cli")
    /\ \E c \in Selectable(db[w], a, amount) :
          LET r == InitSend(w, a, s, amount, ttl, late, proof, c)
          IN  /\ db' = [db EXCEPT ![w] = r.d]
              /\ tor' = [tor EXCEPT ![w] = TorCmd("send", a, r.sl, dest)]
    /\ Agree(s, w, "send", amount)
    /\ UNCHANGED <<msgs, pool, chain, seen>>

(* receive_tx by a command or by the foreign API.                          *)
ReceiveContext(w, a, sl) == build_recipient_output(w, db[w], a, sl)

ReceiveOk(w, a, sl) ==
    LET ctx == ReceiveContext(w, a, sl)
    IN  /\ CanReceive(db[w], a, sl) /\ CanCosign(sl, ctx.key)
        /\ db' = [db EXCEPT ![w] = receive_db(w, @, a, sl, ctx)]

ReceiveFails(w, a, sl) ==
    LET ctx == ReceiveContext(w, a, sl)
    IN  /\ CanReceive(db[w], a, sl) /\ ~CanCosign(sl, ctx.key)
        /\ db' = [db EXCEPT ![w] = ReceivedDb(@, a, sl, ctx)]

Reply(w, a, sl) == receive_slate(w, a, sl, ReceiveContext(w, a, sl))

(* The receive command: the reply goes to the sender the slatepack names,  *)
(* as a message or over Tor.                                               *)
receive(w, a, m) ==
    /\ Idle(w) /\ Readable(m, Address0(w, a))
    /\ LET sl == get_slate(m, Address0(w, a))
           dest == get_sender(m, Address0(w, a))
       IN  \/ /\ ReceiveOk(w, a, sl)
              /\ Publish(Message(w, a, Reply(w, a, sl), dest), Reply(w, a, sl))
              /\ UNCHANGED tor
           \/ /\ Tor /\ ReceiveOk(w, a, sl)
              /\ tor' = [tor EXCEPT ![w] = TorCmd("reply", a, Reply(w, a, sl), dest)]
              /\ seen' = seen \cup SigsIn(Reply(w, a, sl))
              /\ UNCHANGED msgs
           \/ /\ ReceiveFails(w, a, sl)
              /\ UNCHANGED <<msgs, tor, seen>>
    /\ UNCHANGED <<pool, chain, agreed>>

(* The finalize command.                                                   *)
finalize(w, a, m, nopost) ==
    /\ Idle(w) /\ Readable(m, Address0(w, a))
    /\ \E r \in finalize_tx(w, db[w], a, get_slate(m, Address0(w, a))) :
          /\ db' = [db EXCEPT ![w] = r.d]
          /\ IF r.ok
             THEN /\ Publish(Message(w, a, r.sl, <<>>), r.sl)
                  /\ pool' = IF nopost THEN pool ELSE Posted(r.sl.tx)
             ELSE UNCHANGED <<msgs, seen, pool>>
    /\ UNCHANGED <<tor, chain, agreed>>

(* The invoice and pay commands.                                           *)
issue_invoice_tx(w, a, s, amount, dest) ==
    /\ Invoices /\ Idle(w) /\ agreed[s] = <<>>
    /\ HasRoom(db[w], a) /\ CanDraw(db[w], s)
    /\ LET sl == InvoiceSlate(s, amount)
           ctx == build_recipient_output(w, db[w], a, sl)
       IN  /\ db' = [db EXCEPT ![w] = issue_db(@, a, sl, ctx)]
           /\ Publish(Message(w, a, issue_slate(sl, ctx), dest), issue_slate(sl, ctx))
    /\ Agree(s, w, "invoice", amount)
    /\ UNCHANGED <<tor, pool, chain>>

process_invoice(w, a, m) ==
    /\ Idle(w) /\ w \in Payers /\ Readable(m, Address0(w, a))
    /\ LET sl == get_slate(m, Address0(w, a))
           dest == get_sender(m, Address0(w, a))
       IN  /\ CanPay(db[w], a, sl)
           /\ \E c \in Selectable(db[w], a, sl.amount) :
                 LET ctx == build_send_tx(w, db[w], a, sl, c)
                     d == pay_db(db[w], sl, ctx)
                     out == pay_slate(db[w], sl, ctx)
                 IN  /\ CanCosign([sl EXCEPT !.fee = Fee], ctx.key)
                     /\ \/ /\ CanLock(d, out)
                           /\ db' = [db EXCEPT ![w] = tx_lock_outputs(w, d, out)]
                           /\ Publish(Message(w, a, out, dest), out)
                           /\ UNCHANGED tor
                        \/ /\ Tor
                           /\ db' = [db EXCEPT ![w] = d]
                           /\ tor' = [tor EXCEPT ![w] = TorCmd("pay", a, out, dest)]
                           /\ seen' = seen \cup SigsIn(out)
                           /\ UNCHANGED msgs
    /\ UNCHANGED <<pool, chain, agreed>>

-----------------------------------------------------------------------------
(* Tor: the foreign API of the destination, and the answer.                *)

Waiting(v, w, cmds) ==
    tor[v] # NoCmd /\ tor[v].cmd \in cmds /\ tor[v].answer = <<>> /\ tor[v].dest[1] = w

Answer(v, sl) == tor' = [tor EXCEPT ![v].answer = <<over_tor(sl)>>]

(* The listener's account need not be the one that was addressed.          *)
foreign_receive_tx(w, a, v) ==
    /\ Waiting(v, w, {"send"})
    /\ LET sl == over_tor(tor[v].sl)
       IN  /\ ReceiveOk(w, a, sl)
           /\ Answer(v, Reply(w, a, sl))
           /\ seen' = seen \cup SigsIn(Reply(w, a, sl))
    /\ UNCHANGED <<msgs, pool, chain, agreed>>

(* Foreign finalize_tx posts what it completes.                            *)
foreign_finalize_tx(w, a, v) ==
    /\ Waiting(v, w, {"reply", "pay"})
    /\ \E r \in finalize_tx(w, db[w], a, over_tor(tor[v].sl)) :
          /\ db' = [db EXCEPT ![w] = r.d]
          /\ seen' = IF r.ok THEN seen \cup SigsIn(r.sl) ELSE seen
          /\ IF r.ok THEN Answer(v, r.sl) /\ pool' = Posted(r.sl.tx)
                     ELSE UNCHANGED <<tor, pool>>
    /\ UNCHANGED <<msgs, chain, agreed>>

(* The send command gets its answer: lock, finalize, post.  The recipient  *)
(* can tell the sender's signature from the sum of both in the kernel.     *)
send_answered(w) ==
    /\ tor[w] # NoCmd /\ tor[w].cmd = "send" /\ tor[w].answer # <<>>
    /\ LET sl == tor[w].answer[1]
       IN  /\ CanLock(db[w], sl)
           /\ \E r \in finalize_tx(w, tx_lock_outputs(w, db[w], sl), tor[w].acct, sl) :
                 /\ db' = [db EXCEPT ![w] = r.d]
                 /\ pool' = IF r.ok THEN Posted(r.sl.tx) ELSE pool
                 /\ seen' = IF r.ok THEN seen \cup SigsIn(r.sl) ELSE seen
    /\ tor' = [tor EXCEPT ![w] = NoCmd]
    /\ UNCHANGED <<msgs, chain, agreed>>

(* The receive and pay commands get theirs and note the slate's state; an  *)
(* entry that is not there is an error in the log and nothing else.        *)
reply_answered(w) ==
    /\ tor[w] # NoCmd /\ tor[w].cmd \in {"reply", "pay"} /\ tor[w].answer # <<>>
    /\ LET sl == tor[w].answer[1]
       IN  db' = [db EXCEPT ![w] = IF Found(@, sl.id, AllTypes) = {} THEN @
                                   ELSE update_tx_slate_state(@, tor[w].acct, sl)]
    /\ tor' = [tor EXCEPT ![w] = NoCmd]
    /\ UNCHANGED <<msgs, pool, chain, agreed, seen>>

(* No answer, or one that got lost: the slate is written as a message,     *)
(* and what send and pay spend is locked.                                  *)
tor_failed(w) ==
    /\ tor[w] # NoCmd
    /\ LET t == tor[w]
       IN  \/ /\ t.cmd = "reply" /\ UNCHANGED db
              /\ Publish(Message(w, t.acct, t.sl, t.dest), t.sl)
           \/ /\ t.cmd # "reply" /\ CanLock(db[w], t.sl)
              /\ db' = [db EXCEPT ![w] = tx_lock_outputs(w, @, t.sl)]
              /\ Publish(Message(w, t.acct, t.sl, t.dest), t.sl)
           \/ /\ t.cmd # "reply" /\ ~CanLock(db[w], t.sl)
              /\ UNCHANGED <<db, msgs, seen>>
    /\ tor' = [tor EXCEPT ![w] = NoCmd]
    /\ UNCHANGED <<pool, chain, agreed>>

-----------------------------------------------------------------------------
(* post gives the node any slate's transaction, repost the stored one of a *)
(* log entry; get_stored_tx looks the id up in every account.              *)

post(w, a, m) ==
    /\ Idle(w) /\ Readable(m, Address0(w, a))
    /\ LET tx == get_slate(m, Address0(w, a)).tx
       IN  tx # NoTx /\ Accepts(tx) /\ pool' = pool \cup {tx}
    /\ UNCHANGED <<db, msgs, tor, chain, agreed, seen>>

get_stored_tx(d, id) ==
    LET P == {p \in Pos : p[2] = id /\ d.log[p] # NoEntry}
    IN  IF P = {} THEN NoTx ELSE d.files[d.log[FirstOf(P)].slate]

repost(w, id) ==
    /\ Idle(w)
    /\ LET tx == get_stored_tx(db[w], id)
       IN  tx # NoTx /\ tx.signed /\ Accepts(tx) /\ pool' = pool \cup {tx}
    /\ UNCHANGED <<db, msgs, tor, chain, agreed, seen>>

(* cancel, of an entry the refresh before it did not find confirmed.       *)
Mined(d, p) ==
    \E tx \in OnChain : \/ tx.excess = d.log[p].excess
                        \/ \E c \in tx.outs \cap DOMAIN d.coins : d.coins[c].log = p[2]

cancel_tx_and_outputs(d, p) ==
    LET e == d.log[p]
        gone == {c \in DOMAIN d.coins : /\ d.coins[c].log = p[2] /\ d.coins[c].acct = e.acct
                                        /\ d.coins[c].status = "Unconfirmed"}
    IN  [d EXCEPT !.log[p].type = IF @ = "TxSent" THEN "TxSentCancelled" ELSE "TxReceivedCancelled",
                  !.coins = [c \in DOMAIN @ \ gone |->
                      IF @[c].log = p[2] /\ @[c].status = "Locked"
                      THEN [@[c] EXCEPT !.status = "Unspent"] ELSE @[c]]]

(* A message is copied by hand: a value in it may come out wrong.          *)
Mangled(sp) == [sp EXCEPT !.payload.opts.body = [i \in DOMAIN @ |-> @[i] + 1]]
damage(m) ==
    /\ Cardinality({x \in msgs : ~CanDecode(x)}) < MaxDamaged
    /\ m.data.mode = 0 /\ CanDecode(m) /\ m.data.payload.opts.status # {}
    /\ msgs' = msgs \cup {[m EXCEPT !.data = Mangled(@)]}
    /\ UNCHANGED <<db, tor, pool, chain, agreed, seen>>

cancel(w, p) ==
    /\ Cancels /\ Idle(w)
    /\ db[w].log[p] # NoEntry /\ db[w].log[p].type \in {"TxSent", "TxReceived"}
    /\ ~Mined(db[w], p)
    /\ db' = [db EXCEPT ![w] = cancel_tx_and_outputs(@, p)]
    /\ UNCHANGED <<msgs, tor, pool, chain, agreed, seen>>

-----------------------------------------------------------------------------
(* retrieve_payment_proof of a log entry, by its id, and what              *)
(* verify_payment_proof answers for the result.                            *)

NoPaymentProof == [amount |-> -1]
retrieve_payment_proof(d, p) ==
    LET e == d.log[p]
    IN  IF e = NoEntry THEN NoPaymentProof
        ELSE IF e.proof = NoStored THEN NoPaymentProof
        ELSE IF e.excess = {} \/ e.proof.rsig = <<>> \/ e.proof.ssig = <<>> THEN NoPaymentProof
        ELSE [amount |-> IF e.credited >= e.debited THEN e.credited - e.debited
                         ELSE e.debited - e.credited - e.fee,
              excess |-> e.excess, recipient |-> e.proof.raddr, rsig |-> e.proof.rsig,
              sender |-> e.proof.saddr, ssig |-> e.proof.ssig]

verify_payment_proof(pf) ==
    /\ \E tx \in OnChain : tx.excess = pf.excess
    /\ pf.rsig = ProofSig(pf.recipient, pf.amount, pf.excess, pf.sender)
    /\ pf.ssig = ProofSig(pf.sender, pf.amount, pf.excess, pf.sender)

-----------------------------------------------------------------------------
Init ==
    /\ db = [w \in Wallets |-> InitDb(w)]
    /\ msgs = {} /\ pool = {} /\ chain = <<>> /\ seen = {}
    /\ tor = [w \in Wallets |-> NoCmd]
    /\ agreed = [s \in Slates |-> <<>>]

Start(w, a) ==
    \E s \in Slates, amount \in Amounts, dest \in Dests :
        \/ \E ttl \in Ttls, late \in BOOLEAN, proof \in {<<>>, dest} :
              \/ send(w, a, s, amount, ttl, dest, late, proof)
              \/ api_init_send_tx(w, a, s, amount, ttl, dest, late, proof)
              \/ send_tor(w, a, s, amount, ttl, dest, late, proof)
        \/ issue_invoice_tx(w, a, s, amount, dest)
        \/ api_tx_lock_outputs(w, a, s)

Continue(w, a) ==
    \/ \E m \in msgs : \/ receive(w, a, m) \/ process_invoice(w, a, m) \/ post(w, a, m)
                        \/ \E nopost \in BOOLEAN : finalize(w, a, m, nopost)
    \/ \E v \in Wallets : foreign_receive_tx(w, a, v) \/ foreign_finalize_tx(w, a, v)

Next ==
    \/ \E w \in Wallets, a \in Accts : Start(w, a) \/ Continue(w, a)
    \/ \E w \in Wallets : send_answered(w) \/ reply_answered(w) \/ tor_failed(w)
    \/ \E w \in Wallets, i \in 1 .. MaxEntries : repost(w, i)
    \/ \E w \in Wallets, p \in Pos : cancel(w, p)
    \/ \E tx \in pool : Mine(tx)
    \/ \E m \in msgs : damage(m)

Spec == Init /\ [][Next]_vars

=============================================================================
