-------------------------- MODULE WalletChainProofs --------------------------
(***************************************************************************)
(* The wallet and the chain agree (chains that lose no block): what the    *)
(* wallet counts as spent is not spendable, what it counts as unspent or   *)
(* locked has been mined (BalanceOK), and what it shows as confirmed is in *)
(* the chain (ConfirmedMined).                                             *)
(*                                                                         *)
(* BalanceOK needs to know of every set of outputs a thread or a context   *)
(* holds that it was on the chain once, and of a refresh under way that an *)
(* output it did not hear of is spent: the mutex keeps the records as they *)
(* were when the node was asked.  ConfirmedMined needs to know of every    *)
(* key that it is the output of one transaction only (Home), and of every  *)
(* copy of an entry that its kernel is that of its slate.                  *)
(***************************************************************************)
EXTENDS WalletProofs

-----------------------------------------------------------------------------
(* Balance.                                                                *)

OnChainStatus == {"Unspent", "Locked", "Spent"}
Consumed == UNION {b.ins : b \in Blocks(Height)}

(* Records and contexts, given the outputs that were mined and those that  *)
(* were spent.                                                             *)
StatusTrue(k, o, E, S) ==
    /\ o.status \in OnChainStatus => k \in E
    /\ o.status = "Spent" => k \in S

Balanced(d, E, S) ==
    /\ \A x \in Slot : StatusTrue(x[1], d.outs[x], E, S)
    /\ \A s \in Slates : KeysOf(d.ctxs[s].ins) \subseteq E

(* What a thread holds.                                                    *)
Heard(d, r, E, S) ==
    /\ r.api \subseteq E /\ r.found \subseteq E
    /\ r.pc = "apply" =>
         \A x \in Slot : d.outs[x].status \in {"Unspent", "Locked"} => x[1] \in r.api \cup S
    /\ r.pc \in {"spent", "spentSave", "locked", "lockedSave"} => KeysOf(r.fix) \subseteq E
    /\ r.pc \in {"spentSave", "lockedSave"} => KeysOf(r.cur) \subseteq E

Refreshing(r) == r.pc \in {"outputs", "apply"}

BalanceInv ==
    /\ Inv
    /\ \A t \in Threads : Refreshing(th[t]) => lock = t
    /\ reorgs = 0 =>
         /\ Balanced(db, EverMined, Consumed)
         /\ \A t \in Threads : Heard(db, th[t], EverMined, Consumed)

-----------------------------------------------------------------------------
(* Confirmation.                                                           *)

(* The entry of a payment received with a slate.                           *)
Incoming(e) == ~e.debit /\ e.credit

(* An entry or a copy of one, when C are the slates in the chain.          *)
EntrySound(e, C) ==
    /\ e.type \in {"TxReceived", "TxReverted", "TxReceivedCancelled"} => Incoming(e)
    /\ e.slate # NoSlate =>
         /\ e.kern # NoKern => e.kern[1] = e.slate
         /\ e.confirmed => e.slate \in C

(* A key that only transactions of slate s have as an output.              *)
Home(d, T, k, s) ==
    /\ k \in Key \ Genesis /\ k[2] < d.nextChild[k[1]]
    /\ \A tx \in T : k \in tx.outs => tx.kern[1] = s
    /\ \A u \in Slates \ {s} : k \notin d.ctxs[u].outs

(* A record o under key k, or a copy of one: a coinbase has been signed    *)
(* as such, and an output that was received, or is yet to be seen, belongs *)
(* to the slate of its entry.                                              *)
CoinKey(T, k) == \E tx \in T : k \in tx.outs /\ tx.kern[1] = NoSlate

OwnerOf(d, o) == Entry(d, <<o.root, o.tx>>)

RecordSound(d, T, k, o, yet) ==
    /\ o.cb > 0 => CoinKey(T, k)
    /\ /\ o.cb = 0 /\ o.tx # -1 /\ OwnerOf(d, o).slate # NoSlate
       /\ Incoming(OwnerOf(d, o)) \/ o.status \in yet
       => Home(d, T, k, OwnerOf(d, o).slate)

Yet == {"Unconfirmed", "Reverted"}

ContextSound(d, T, s) ==
    LET c == d.ctxs[s]
    IN  /\ \A k \in c.outs : Home(d, T, k, s)
        /\ c.kern # NoKern => c.kern[1] = s

DbSound(d, T, C) ==
    /\ \A p \in Written(d) : EntrySound(Entry(d, p), C)
    /\ \A x \in Slot : RecordSound(d, T, x[1], d.outs[x], Yet)
    /\ \A s \in Slates : ContextSound(d, T, s)

(* What was reported unspent was there from the start or is an output of a *)
(* transaction in the chain.                                               *)
Seen(T, C, K) ==
    \A k \in K : k \in Genesis \/ \E tx \in T : k \in tx.outs /\ tx.kern[1] \in C

ThreadSound(d, r, T, C) ==
    /\ \A e \in r.txs \cup r.todo : EntrySound(e, C)
    /\ \A x \in Slot : RecordSound(d, T, x[1], r.outs[x], {})
    /\ r.pc \in {"kernel", "confirm"} => \A e \in r.todo : e.kern # NoKern
    /\ Seen(T, C, r.api)

MinedSlates == {b.kern[1] : b \in Blocks(Height)}

WorldSound ==
    /\ Blocks(Height) \subseteq signed \cup {EmptyBlock}
    /\ \A tx \in signed : tx.cb > 0 => tx.kern[1] = NoSlate

MinedInv ==
    /\ LogInv
    /\ WorldSound
    /\ DbSound(db, signed, MinedSlates)
    /\ \A t \in Threads : ThreadSound(db, th[t], signed, MinedSlates)


-----------------------------------------------------------------------------
(* What each batch does to the balance.                                    *)

(* A batch that saves neither records nor contexts.                        *)
LEMMA OtherBalanced ==
    ASSUME NEW d, NEW e, NEW E, NEW S, Balanced(d, E, S), e.outs = d.outs, e.ctxs = d.ctxs
    PROVE  Balanced(e, E, S)
  BY DEF Balanced

(* An entry is saved.                                                      *)
LEMMA SaveEntryBalanced ==
    ASSUME NEW E, NEW S, NEW d \in WalletDB, Balanced(d, E, S), NEW a, NEW f
    PROVE  Balanced(SaveEntry(d, a, f), E, S)
<1>1. SaveEntry(d, a, f).outs = d.outs /\ SaveEntry(d, a, f).ctxs = d.ctxs
  BY DEF SaveEntry, WalletDB
<1> QED
  BY <1>1, OtherBalanced

(* A key is drawn.                                                         *)
LEMMA NextChildBalanced ==
    ASSUME NEW E, NEW S, NEW d \in WalletDB, Balanced(d, E, S), NEW a, NEW n
    PROVE  Balanced(next_child(d, a, n), E, S)
<1>1. next_child(d, a, n).outs = d.outs /\ next_child(d, a, n).ctxs = d.ctxs
  BY DEF next_child, WalletDB
<1> QED
  BY <1>1, OtherBalanced

(* A context is saved whose inputs were mined.                             *)
LEMMA SaveContextBalanced ==
    ASSUME NEW E, NEW S, NEW d \in WalletDB, Balanced(d, E, S), NEW s \in Slates, NEW c,
           KeysOf(c.ins) \subseteq E
    PROVE  Balanced(SaveContext(d, s, c), E, S)
<1> DEFINE e == SaveContext(d, s, c)
<1>1. e.outs = d.outs /\ \A u \in Slates : e.ctxs[u] = IF u = s THEN c ELSE d.ctxs[u]
  BY DEF SaveContext, WalletDB
<1> HIDE DEF e
<1>2. Balanced(e, E, S)
  BY <1>1 DEF Balanced
<1> QED
  BY <1>2 DEF e

(* A context is deleted.                                                   *)
LEMMA DeleteContextBalanced ==
    ASSUME NEW E, NEW S, NEW d \in WalletDB, Balanced(d, E, S), NEW s \in Slates
    PROVE  Balanced(DeleteContext(d, s), E, S)
<1>1. KeysOf(NoContext.ins) = {}
  BY DEF KeysOf, NoContext
<1> QED
  BY <1>1, SaveContextBalanced DEF DeleteContext

(* A record is saved with a status that is true.                           *)
LEMMA SaveOutputBalanced ==
    ASSUME NEW E, NEW S, NEW d \in WalletDB, Balanced(d, E, S), NEW x \in Slot, NEW o,
           StatusTrue(x[1], o, E, S)
    PROVE  Balanced(SaveOutput(d, x, o), E, S)
<1> DEFINE e == SaveOutput(d, x, o)
<1>1. e.ctxs = d.ctxs /\ \A y \in Slot : e.outs[y] = IF y = x THEN o ELSE d.outs[y]
  BY DEF SaveOutput, WalletDB
<1> HIDE DEF e
<1>2. Balanced(e, E, S)
  BY <1>1 DEF Balanced
<1> QED
  BY <1>2 DEF e

(* Records not on the chain are true whatever the chain.                   *)
LEMMA OffChainTrue ==
    ASSUME NEW k, NEW E, NEW S, NEW o, o.status \in {"None", "Unconfirmed", "Reverted"}
    PROVE  StatusTrue(k, o, E, S)
  BY DEF StatusTrue, OnChainStatus

(* Locking: inputs were mined, change is not yet.                          *)
LEMMA LockBalanced ==
    ASSUME NEW E, NEW S, NEW d \in WalletDB, Balanced(d, E, S), NEW s \in Slates
    PROVE  Balanced(lock_tx_context(d, s), E, S)
<1> DEFINE e == lock_tx_context(d, s)
           c == d.ctxs[s]
<1>1. e.ctxs = d.ctxs /\ e.outs = LockedOutputs(d, s)
  BY DEF lock_tx_context, SaveEntry, WalletDB
<1>2. ASSUME NEW x \in Slot
      PROVE  StatusTrue(x[1], LockedOutputs(d, s)[x], E, S)
  <2> DEFINE o == LockedOutputs(d, s)[x]
  <2>1. /\ x \in c.outs \X {FALSE} => o.status = "Unconfirmed"
        /\ x \notin c.outs \X {FALSE} =>
              o = IF x \in c.ins
                  THEN [d.outs[x] EXCEPT !.status = "Locked", !.tx = d.nextTx[c.acct]]
                  ELSE d.outs[x]
    BY DEF LockedOutputs
  <2> HIDE DEF o
  <2>2. d.outs[x] \in OutputData
    BY DEF WalletDB
  <2>3. CASE x \in c.outs \X {FALSE}
    <3>1. o.status = "Unconfirmed"
      BY <2>1, <2>3
    <3>2. StatusTrue(x[1], o, E, S)
      BY <3>1 DEF StatusTrue, OnChainStatus
    <3> QED
      BY <3>2 DEF o
  <2>4. CASE x \notin c.outs \X {FALSE} /\ x \in c.ins
    <3>1. o.status = "Locked"
      BY <2>1, <2>2, <2>4 DEF OutputData
    <3>2. x[1] \in E
      BY <2>4 DEF Balanced, KeysOf
    <3> QED
      BY <3>1, <3>2 DEF StatusTrue, o
  <2>5. CASE x \notin c.outs \X {FALSE} /\ x \notin c.ins
    BY <2>1, <2>5 DEF Balanced, o
  <2> QED
    BY <2>3, <2>4, <2>5
<1> HIDE DEF e
<1>3. Balanced(e, E, S)
  BY <1>1, <1>2 DEF Balanced
<1> QED
  BY <1>3 DEF e

(* Receiving: the output is not on the chain yet.                          *)
LEMMA RecipientBalanced ==
    ASSUME NEW E, NEW S, NEW d \in WalletDB, Balanced(d, E, S), NEW s, NEW k \in Key,
           NEW a \in Acct, NEW ttl
    PROVE  Balanced(build_recipient_output(d, s, k, a, ttl), E, S)
<1> DEFINE e == build_recipient_output(d, s, k, a, ttl)
<1>1. /\ e.ctxs = d.ctxs
      /\ \A x \in Slot : e.outs[x] = IF x = <<k, FALSE>> THEN ReceivedOutput(d, a) ELSE d.outs[x]
  BY DEF build_recipient_output, SaveEntry, SaveOutput, WalletDB
<1>2. ReceivedOutput(d, a).status = "Unconfirmed"
  BY DEF ReceivedOutput
<1> HIDE DEF e
<1>3. \A x \in Slot : StatusTrue(x[1], ReceivedOutput(d, a), E, S)
  BY <1>2, OffChainTrue
<1>4. Balanced(e, E, S)
  BY <1>1, <1>3 DEF Balanced
<1> QED
  BY <1>4 DEF e

(* Cancelling: a locked output was mined, so it is unspent again.          *)
LEMMA CancelBalanced ==
    ASSUME NEW E, NEW S, NEW d \in WalletDB, Balanced(d, E, S), NEW a, NEW P
    PROVE  Balanced(cancel_tx_and_outputs(d, a, P), E, S)
<1> DEFINE e == cancel_tx_and_outputs(d, a, P)
           i == Entry(d, First(P)).id
<1>1. e.ctxs = d.ctxs /\ e.outs = FreedOutputs(d, a, i)
  BY DEF cancel_tx_and_outputs, SaveEntry, WalletDB
<1> HIDE DEF e, i
<1>2. ASSUME NEW x \in Slot
      PROVE  StatusTrue(x[1], FreedOutputs(d, a, i)[x], E, S)
  <2> DEFINE o == d.outs[x]
  <2>1. o \in OutputData /\ StatusTrue(x[1], o, E, S)
    BY DEF WalletDB, Balanced
  <2>2. FreedOutputs(d, a, i)[x] \in {o, CancelledOutput(o)}
    BY DEF FreedOutputs
  <2> HIDE DEF o
  <2>3. CASE o.status \in {"Unconfirmed", "Reverted"}
    <3>1. CancelledOutput(o) = NoOutput
      BY <2>3 DEF CancelledOutput
    <3> QED
      BY <2>1, <2>2, <3>1, OffChainTrue DEF NoOutput
  <2>4. CASE o.status = "Locked"
    <3>1. CancelledOutput(o) = [o EXCEPT !.status = "Unspent"]
      BY <2>4 DEF CancelledOutput
    <3>2. CancelledOutput(o).status = "Unspent"
      BY <2>1, <3>1 DEF OutputData
    <3> QED
      BY <2>1, <2>2, <2>4, <3>2 DEF StatusTrue, OnChainStatus
  <2>5. CASE o.status \notin {"Unconfirmed", "Reverted", "Locked"}
    BY <2>1, <2>2, <2>5 DEF CancelledOutput
  <2> QED
    BY <2>3, <2>4, <2>5
<1>3. Balanced(e, E, S)
  BY <1>1, <1>2 DEF Balanced
<1> QED
  BY <1>3 DEF e

(* Restoring what was found on the chain.                                  *)
LEMMA RestoreBalanced ==
    ASSUME NEW E, NEW S, NEW d \in WalletDB, Balanced(d, E, S), NEW K, K \subseteq E, NEW cb
    PROVE  Balanced(restore_missing_outputs(d, K, cb), E, S)
<1> DEFINE e == restore_missing_outputs(d, K, cb)
<1>1. e.ctxs = d.ctxs /\ e.outs = RestoredOutputs(d, K, cb)
  BY DEF restore_missing_outputs, WalletDB
<1>2. ASSUME NEW x \in Slot
      PROVE  StatusTrue(x[1], RestoredOutputs(d, K, cb)[x], E, S)
  <2>1. CASE x \in K \X {TRUE}
    <3>1. RestoredOutputs(d, K, cb)[x].status = "Unspent" /\ x[1] \in E
      BY <2>1 DEF RestoredOutputs
    <3> QED
      BY <3>1 DEF StatusTrue
  <2>2. CASE x \notin K \X {TRUE}
    BY <2>2 DEF RestoredOutputs, Balanced
  <2> QED
    BY <2>1, <2>2
<1> HIDE DEF e
<1>3. Balanced(e, E, S)
  BY <1>1, <1>2 DEF Balanced
<1> QED
  BY <1>3 DEF e

(* A refresh: what the node reports was mined, and what it does not report *)
(* is spent.                                                               *)
LEMMA RefreshBalanced ==
    ASSUME NEW E, NEW S, NEW d \in WalletDB, Balanced(d, E, S), NEW a, NEW all, NEW h,
           NEW api, api \subseteq E, NEW kernels,
           \A x \in Slot : d.outs[x].status \in {"Unspent", "Locked"} => x[1] \in api \cup S
    PROVE  Balanced(refresh_output_state(d, a, all, h, api, kernels), E, S)
<1> DEFINE M == map_wallet_outputs(d, a, all)
           rev == find_reverted_kernels(d, a, M, api, kernels)
           d1 == apply_api_outputs(d, a, M, api, rev, h)
           e == clean_old_unconfirmed(d1, h)
<1> HIDE DEF M, rev
<1>1. ASSUME NEW x \in Slot
      PROVE  StatusTrue(x[1], RefreshedOutput(d, a, M, api, rev, x), E, S)
  <2> DEFINE o == d.outs[x]
             q == RefreshedOutput(d, a, M, api, rev, x)
  <2>1. o \in OutputData /\ StatusTrue(x[1], o, E, S)
    BY DEF WalletDB, Balanced
  <2>2. x \in NewCoinbases(d, M, api) => x[1] \in api
    BY DEF NewCoinbases
  <2>3. q = IF x \in NewCoinbases(d, M, api)
            THEN [o EXCEPT !.status = "Unspent", !.tx = CoinbaseId(d, a, M, api, x)]
            ELSE IF x[1] \in api THEN mark_unspent(o)
            ELSE IF o.cb = 0 /\ o.tx \in rev THEN mark_reverted(o)
            ELSE mark_spent(o)
    BY DEF RefreshedOutput
  <2>4. o.status \in {"Unspent", "Locked"} => x[1] \in api \cup S
    OBVIOUS
  <2> HIDE DEF o, q
  <2>5. CASE x[1] \in api
    <3>1. q.status \in {"Unspent", o.status}
      BY <2>1, <2>3, <2>5 DEF mark_unspent, OutputData
    <3> QED
      BY <2>1, <2>5, <3>1 DEF StatusTrue, OnChainStatus, q
  <2>6. CASE x[1] \notin api
    <3>1. \/ q.status = o.status
          \/ q.status = "Reverted"
          \/ q.status = "Spent" /\ o.status \in {"Unspent", "Locked"}
      BY <2>1, <2>2, <2>3, <2>6 DEF mark_reverted, mark_spent, OutputData
    <3> QED
      BY <2>1, <2>4, <2>6, <3>1 DEF StatusTrue, OnChainStatus, q
  <2> QED
    BY <2>5, <2>6
<1>3. /\ d1.ctxs = d.ctxs
      /\ \A x \in Slot : d1.outs[x] \in {d.outs[x], RefreshedOutput(d, a, M, api, rev, x)}
  <2>1. CASE h < d.confH[a]
    BY <2>1 DEF apply_api_outputs
  <2>2. CASE ~(h < d.confH[a])
    BY <2>2 DEF apply_api_outputs, WalletDB
  <2> QED
    BY <2>1, <2>2
<1>4. /\ e.ctxs = d1.ctxs
      /\ \A x \in Slot : e.outs[x] \in {NoOutput, d1.outs[x]}
  BY DEF clean_old_unconfirmed, apply_api_outputs, WalletDB
<1> HIDE DEF d1, e
<1>5. \A x \in Slot : StatusTrue(x[1], e.outs[x], E, S)
  BY <1>1, <1>3, <1>4, OffChainTrue DEF Balanced, NoOutput
<1>6. Balanced(e, E, S)
  BY <1>3, <1>4, <1>5 DEF Balanced
<1> QED
  BY <1>6 DEF refresh_output_state, M, rev, d1, e

-----------------------------------------------------------------------------
(* Balance: API calls                                                      *)

BalanceKept == Balanced(db', EverMined, Consumed)

(* What the node reports was mined, and what was mined is reported or      *)
(* spent.                                                                  *)
LEMMA UtxoMined ==
    /\ Utxo \subseteq EverMined
    /\ EverMined \subseteq Utxo \cup Consumed
    /\ \A h : UtxoUpTo(h) \subseteq EverMined
  BY DEF Utxo, UtxoUpTo, EverMined, Consumed

(* What the proofs of the steps start from.                                *)
LEMMA BalanceFacts ==
    ASSUME BalanceInv
    PROVE  /\ Inv /\ GoodDb(db) /\ db \in WalletDB /\ active \in Acct
           /\ \A t \in Threads : th[t] \in ThreadState
           /\ Free => \A t \in Threads : ~Refreshing(th[t])
           /\ reorgs = 0 => /\ Balanced(db, EverMined, Consumed)
                            /\ \A t \in Threads : Heard(db, th[t], EverMined, Consumed)
<1>1. Inv
  BY DEF BalanceInv
<1>2. Free => \A t \in Threads : ~Refreshing(th[t])
  BY CoreAssumption DEF Free, BalanceInv
<1> QED
  BY <1>1, <1>2, InvFacts, ThreadFacts DEF BalanceInv

(* The refresh at the start of a call.                                     *)
LEMMA CallRefreshBalanced ==
    ASSUME BalanceInv, reorgs = 0, NEW a \in Acct, NEW d \in Refreshed(db, a)
    PROVE  Balanced(d, EverMined, Consumed) /\ GoodDb(d) /\ d \in WalletDB
<1>1. \A x \in Slot :
        db.outs[x].status \in {"Unspent", "Locked"} => x[1] \in Utxo \cup Consumed
  BY BalanceFacts, UtxoMined DEF Balanced, StatusTrue, OnChainStatus
<1>2. Balanced(refresh_output_state(db, a, FALSE, Height, Utxo, Kernels), EverMined, Consumed)
  BY <1>1, BalanceFacts, UtxoMined, RefreshBalanced
<1>3. Balanced(d, EverMined, Consumed)
  BY <1>2, BalanceFacts DEF Refreshed
<1>4. GoodDb(d)
  BY BalanceFacts, RefreshedKeeps
<1> QED
  BY <1>3, <1>4 DEF GoodDb

(* A selection takes outputs that were mined: unspent ones, as unconfirmed *)
(* ones are not spent.                                                     *)
LEMMA SelectedBalanced ==
    ASSUME ~ZeroConf, NEW E, NEW S, NEW d, GoodDb(d), Balanced(d, E, S), active \in Acct,
           NEW n \in Nat, HasChildren(d, active, n), NEW b,
           NEW I, I \subseteq Eligible(d, b, ZeroConf),
           NEW a, NEW s \in Slates, NEW kern, NEW ttl, NEW kind
    PROVE  /\ KeysOf(I) \subseteq E
           /\ Balanced(next_child(d, active, n), E, S)
           /\ Balanced(SaveContext(next_child(d, active, n), s,
                                   Selected(d, kind, I, n, a, kern, ttl)), E, S)
<1> DEFINE d1 == next_child(d, active, n)
           c == Selected(d, kind, I, n, a, kern, ttl)
<1>1. d \in WalletDB /\ d1 \in WalletDB
  BY NextChildType DEF GoodDb
<1>2. KeysOf(I) \subseteq E
  BY DEF KeysOf, Eligible, Balanced, StatusTrue, OnChainStatus
<1>3. c.ins = I
  BY DEF Selected
<1>4. Balanced(d1, E, S)
  BY <1>1, NextChildBalanced
<1> HIDE DEF d1, c
<1>5. Balanced(SaveContext(d1, s, c), E, S)
  BY <1>1, <1>2, <1>3, <1>4, SaveContextBalanced
<1> QED
  BY <1>2, <1>4, <1>5 DEF d1, c

(* Storing a finished transaction leaves the balance alone.                *)
LEMMA StoredBalanced ==
    ASSUME NEW E, NEW S, NEW d, GoodDb(d), Balanced(d, E, S), NEW s \in Slates,
           NEW type \in {"TxSent", "TxReceived"}, NEW kern \in Kern,
           EntriesToFinish(d, s, type) # {}, active \in Acct
    PROVE  /\ Balanced(Stored(d, s, type, kern), E, S)
           /\ Balanced(Closed(d, s, type, kern), E, S)
           /\ Balanced(Finished(d, s, type, kern), E, S)
<1> DEFINE d1 == Stored(d, s, type, kern)
           d2 == Closed(d, s, type, kern)
<1>1. d \in WalletDB /\ d1 \in WalletDB /\ d2 \in WalletDB
  BY StoredKeeps DEF Keeps, GoodDb
<1>2. Balanced(d1, E, S)
  BY <1>1, SaveEntryBalanced DEF Stored, update_stored_tx
<1>3. d2 = DeleteContext(d1, s)
  BY DEF Closed
<1>4. Finished(d, s, type, kern) = update_tx_slate_state(d2, active, s)
  BY DEF Finished
<1> HIDE DEF d1, d2
<1>5. Balanced(d2, E, S)
  BY <1>1, <1>2, <1>3, DeleteContextBalanced
<1>6. Balanced(update_tx_slate_state(d2, active, s), E, S)
  BY <1>1, <1>5, SaveEntryBalanced DEF update_tx_slate_state
<1> QED
  BY <1>2, <1>4, <1>5, <1>6 DEF d1, d2

(* init_send_tx saves a context with mined inputs.                         *)
LEMMA SendBalance ==
    ASSUME ~ZeroConf, BalanceInv, reorgs = 0,
           NEW s \in SendSlates, NEW a \in Acct, init_send_tx(s, a)
    PROVE  BalanceKept
<1>1. PICK d \in Refreshed(db, a), n \in 0 .. MaxChange, b \in Ttls :
      \E I \in (SUBSET Eligible(d, a, ZeroConf)) \ {{}} :
          /\ HasChildren(d, active, n)
          /\ LET d1 == next_child(d, active, n)
                 c == Selected(d, "Send", I, n, a, NoKern, Expiry(b))
             IN  Call({d, d1}, SaveContext(d1, s, c),
                      /\ issued' = issued \cup {s}
                      /\ UNCHANGED <<chain, signed, reorgs>>)
  BY DEF init_send_tx
<1>2. PICK I \in (SUBSET Eligible(d, a, ZeroConf)) \ {{}} :
          /\ HasChildren(d, active, n)
          /\ LET d1 == next_child(d, active, n)
                 c == Selected(d, "Send", I, n, a, NoKern, Expiry(b))
             IN  Call({d, d1}, SaveContext(d1, s, c),
                      /\ issued' = issued \cup {s}
                      /\ UNCHANGED <<chain, signed, reorgs>>)
  BY <1>1
<1> DEFINE d1 == next_child(d, active, n)
           d2 == SaveContext(d1, s, Selected(d, "Send", I, n, a, NoKern, Expiry(b)))
<1>3. Balanced(d, EverMined, Consumed) /\ GoodDb(d)
  BY CallRefreshBalanced
<1>4. n \in Nat /\ s \in Slates
  BY RolesTyped, CoreAssumption
<1>5. Balanced(d1, EverMined, Consumed) /\ Balanced(d2, EverMined, Consumed)
  BY <1>2, <1>3, <1>4, BalanceFacts, SelectedBalanced
<1>6. db' \in {d, d1, d2}
  BY <1>2 DEF Call
<1> HIDE DEF d1, d2
<1> QED
  BY <1>3, <1>5, <1>6 DEF BalanceKept

(* init_send_tx with late locking saves a context without inputs.          *)
LEMMA SendLateBalance ==
    ASSUME BalanceInv, reorgs = 0, NEW s \in SendSlates, NEW a \in Acct, init_send_tx_late(s, a)
    PROVE  BalanceKept
<1>1. PICK d \in Refreshed(db, a), b \in Ttls :
          LET c == [NoContext EXCEPT !.kind = "Late", !.acct = a, !.ttl = Expiry(b)]
          IN  Call({d}, SaveContext(d, s, c),
                   /\ issued' = issued \cup {s}
                   /\ UNCHANGED <<chain, signed, reorgs>>)
  BY DEF init_send_tx_late
<1> DEFINE c == [NoContext EXCEPT !.kind = "Late", !.acct = a, !.ttl = Expiry(b)]
           d1 == SaveContext(d, s, c)
<1>2. Balanced(d, EverMined, Consumed) /\ d \in WalletDB
  BY CallRefreshBalanced
<1>3. s \in Slates /\ KeysOf(c.ins) = {}
  BY RolesTyped DEF NoContext, KeysOf
<1>4. db' \in {d, d1}
  BY <1>1 DEF Call
<1> HIDE DEF c
<1>5. Balanced(d1, EverMined, Consumed)
  BY <1>2, <1>3, SaveContextBalanced
<1> HIDE DEF d1
<1> QED
  BY <1>2, <1>4, <1>5 DEF BalanceKept

(* A failed selection: at most a refresh happened.                         *)
LEMMA FailBalance ==
    ASSUME BalanceInv, reorgs = 0, NEW a \in Acct, SelectionFails(a)
    PROVE  BalanceKept
<1>1. PICK d \in Refreshed(db, a) : db' = d
  BY DEF SelectionFails, Call
<1> QED
  BY <1>1, CallRefreshBalanced DEF BalanceKept

(* tx_lock_outputs locks inputs that were mined.                           *)
LEMMA TxLockBalance ==
    ASSUME BalanceInv, reorgs = 0, NEW s \in Slates, tx_lock_outputs(s)
    PROVE  BalanceKept
  BY BalanceFacts, LockBalanced DEF tx_lock_outputs, BalanceKept

(* Finishing a slate leaves the balance alone.                             *)
LEMMA FinishBalance ==
    ASSUME BalanceInv, NEW d, GoodDb(d), Balanced(d, EverMined, Consumed), NEW s \in Slates,
           NEW type \in {"TxSent", "TxReceived"}, NEW kern \in Kern,
           EntriesToFinish(d, s, type) # {}, Finish(d, s, type, kern)
    PROVE  BalanceKept
  BY BalanceFacts, StoredBalanced DEF Finish, BalanceKept

(* finalize_tx of a payment or an invoice.                                 *)
LEMMA FinalizeBalance ==
    ASSUME BalanceInv, reorgs = 0, NEW s \in Slates, finalize_tx(s) \/ finalize_invoice(s)
    PROVE  BalanceKept
<1>1. CASE finalize_tx(s)
  <2>1. SendKern(s) \in Kern
    BY DEF SendKern, Kern
  <2> QED
    BY <1>1, <2>1, BalanceFacts, FinishBalance DEF finalize_tx, CanFinish
<1>2. CASE finalize_invoice(s)
  <2>1. db.ctxs[s] \in Context
    BY BalanceFacts DEF WalletDB
  <2>2. <<s, db.ctxs[s].outs>> \in Kern
    BY <2>1 DEF Kern, Context
  <2> QED
    BY <1>2, <2>2, BalanceFacts, FinishBalance DEF finalize_invoice
<1> QED
  BY <1>1, <1>2

(* finalize_tx of a late-locked payment: selection, lock and finish.       *)
LEMMA FinalizeLateBalance ==
    ASSUME ~ZeroConf, BalanceInv, reorgs = 0, NEW s \in Slates, finalize_tx_late(s)
    PROVE  BalanceKept
<1> DEFINE a == db.ctxs[s].acct
           ttl == db.ctxs[s].ttl
           d1(n) == next_child(db, active, n)
           d2(n, S) == SaveContext(d1(n), s, Selected(db, "Send", S, n, a, NoKern, ttl))
           d3(n, S) == lock_tx_context(d2(n, S), s)
<1>1. PICK n \in 0 .. MaxChange : \E S \in (SUBSET Eligible(db, active, ZeroConf)) \ {{}} :
          /\ HasChildren(db, active, n) /\ HasIds(db, a, 1)
          /\ \/ CanFinish(d3(n, S), s) /\ Finish(d3(n, S), s, "TxSent", SendKern(s))
             \/ ~CanFinish(d3(n, S), s) /\ Call({}, d3(n, S), UNCHANGED world)
             \/ db' \in {d1(n), d2(n, S), d3(n, S)} /\ Restart /\ UNCHANGED world
             \/ Call({}, d1(n), UNCHANGED world)
  BY DEF finalize_tx_late
<1>2. PICK S \in (SUBSET Eligible(db, active, ZeroConf)) \ {{}} :
          /\ HasChildren(db, active, n) /\ HasIds(db, a, 1)
          /\ \/ CanFinish(d3(n, S), s) /\ Finish(d3(n, S), s, "TxSent", SendKern(s))
             \/ ~CanFinish(d3(n, S), s) /\ Call({}, d3(n, S), UNCHANGED world)
             \/ db' \in {d1(n), d2(n, S), d3(n, S)} /\ Restart /\ UNCHANGED world
             \/ Call({}, d1(n), UNCHANGED world)
  BY <1>1
<1> DEFINE c == Selected(db, "Send", S, n, a, NoKern, ttl)
           e1 == d1(n)
           e2 == d2(n, S)
           e3 == d3(n, S)
<1>3. n \in Nat /\ NoKern \in Kern /\ a \in Acct /\ ttl \in Nat
  <2>1. db.ctxs[s] \in Context
    BY BalanceFacts DEF WalletDB
  <2> QED
    BY <2>1, NothingTyped, CoreAssumption DEF Context
<1>4. Keeps(db, e2)
  BY <1>2, <1>3, BalanceFacts, SelectedKeeps
<1>5. Balanced(e1, EverMined, Consumed) /\ Balanced(e2, EverMined, Consumed)
  <2>1. HasChildren(db, active, n) /\ S \subseteq Eligible(db, active, ZeroConf)
    BY <1>2
  <2>2. /\ GoodDb(db) /\ active \in Acct
        /\ Balanced(db, EverMined, Consumed)
    BY BalanceFacts
  <2> HIDE DEF a, ttl
  <2>3. Balanced(next_child(db, active, n), EverMined, Consumed)
    BY <2>2, NextChildBalanced DEF GoodDb
  <2>4. Balanced(SaveContext(next_child(db, active, n), s,
                             Selected(db, "Send", S, n, a, NoKern, ttl)), EverMined, Consumed)
    BY <1>3, <2>1, <2>2, SelectedBalanced
  <2> QED
    BY <2>3, <2>4
<1>6. GoodDb(e2) /\ e2 \in WalletDB /\ e2.ctxs[s].acct = a /\ e2.nextTx = db.nextTx
  <2>1. e1 \in WalletDB /\ GoodDb(e2) /\ e2 \in WalletDB
    BY <1>2, <1>3, <1>4, BalanceFacts, SelectedKeeps DEF Keeps, GoodDb
  <2>2. e1.nextTx = db.nextTx
    BY BalanceFacts DEF next_child, WalletDB
  <2>3. c.acct = a
    BY DEF Selected
  <2> HIDE DEF e1, c
  <2>4. e2 = SaveContext(e1, s, c)
    BY DEF e1, c
  <2> QED
    BY <2>1, <2>2, <2>3, <2>4 DEF SaveContext, WalletDB
<1>7. Balanced(e3, EverMined, Consumed) /\ GoodDb(e3)
  <2> HIDE DEF d2
  <2>1. Balanced(e3, EverMined, Consumed)
    BY <1>5, <1>6, LockBalanced
  <2>2. Keeps(e2, e3)
    BY <1>2, <1>6, LockKeeps DEF HasIds
  <2> QED
    BY <2>1, <2>2 DEF Keeps
<1>8. CASE CanFinish(e3, s) /\ Finish(e3, s, "TxSent", SendKern(s))
  <2>1. SendKern(s) \in Kern
    BY DEF SendKern, Kern
  <2> HIDE DEF d3
  <2> QED
    BY <1>7, <1>8, <2>1, FinishBalance DEF CanFinish
<1>9. CASE db' \in {e1, e2, e3}
  <2> HIDE DEF d1, d2, d3
  <2> QED
    BY <1>5, <1>7, <1>9 DEF BalanceKept
<1> QED
  <2> HIDE DEF d1, d2, d3
  <2> QED
    BY <1>2, <1>8, <1>9 DEF Call

(* receive_tx writes a record that is not on the chain.                    *)
LEMMA ReceiveBalance ==
    ASSUME BalanceInv, reorgs = 0, NEW s \in Slates, NEW a \in Acct, receive_tx(s, a)
    PROVE  BalanceKept
<1> DEFINE k == <<active, db.nextChild[active]>>
           d1 == next_child(db, active, 1)
           i == db.nextTx[a]
           tx == [EmptyBlock EXCEPT !.outs = {k}, !.kern = <<s, {k}>>]
           d2(b) == build_recipient_output(d1, s, k, a, Expiry(b))
           d3(b) == [d2(b) EXCEPT !.txlog[a][i].kern = <<s, {k}>>]
<1>1. HasChildren(db, active, 1) /\ HasIds(db, a, 1)
  BY DEF receive_tx
<1>2. PICK b \in Ttls :
        Call({d1, d2(b), d3(b)}, update_tx_slate_state(d3(b), a, s), Sign(tx))
  BY DEF receive_tx
<1>3. k \in Key /\ d1 \in WalletDB /\ Balanced(d1, EverMined, Consumed) /\ d1.nextTx = db.nextTx
  BY <1>1, BalanceFacts, OneChild, NextChildBalanced DEF GoodDb
<1> HIDE DEF d1, k
<1> DEFINE e2 == d2(b)
           e3 == d3(b)
           e4 == update_tx_slate_state(e3, a, s)
<1>4. Balanced(e2, EverMined, Consumed) /\ e2 \in WalletDB
  <2>1. Expiry(b) \in Nat /\ HasIds(d1, a, 1)
    BY <1>1, <1>3, BalanceFacts, ExpiryNat DEF HasIds
  <2> QED
    BY <1>3, <2>1, RecipientBalanced, RecipientType
<1>5. Balanced(e3, EverMined, Consumed) /\ e3 \in WalletDB
  <2>1. i \in Ids
    BY <1>1, BalanceFacts, SizesAssumption DEF WalletDB, HasIds, Ids
  <2>2. <<s, {k}>> \in Kern
    BY <1>3 DEF Kern
  <2> HIDE DEF d2
  <2>3. e2.txlog[a][i] \in TxLogEntry
    BY <1>4, <2>1 DEF WalletDB
  <2> DEFINE f == [e2.txlog[a][i] EXCEPT !.kern = <<s, {k}>>]
             log == [e2.txlog EXCEPT ![a][i] = f]
  <2>4. f \in TxLogEntry
    BY <2>2, <2>3 DEF TxLogEntry
  <2>5. log \in [Acct -> [Ids -> TxLogEntry]]
    <3> HIDE DEF f
    <3> QED
      BY <1>4, <2>4 DEF WalletDB
  <2>6. e3 = [e2 EXCEPT !.txlog = log]
    BY <1>4, <2>1 DEF WalletDB
  <2> HIDE DEF log, d3
  <2>7. e3 \in WalletDB /\ e3.outs = e2.outs /\ e3.ctxs = e2.ctxs
    BY <1>4, <2>5, <2>6 DEF WalletDB
  <2> QED
    BY <1>4, <2>7, OtherBalanced
<1> HIDE DEF d2, d3
<1>6. Balanced(e4, EverMined, Consumed)
  BY <1>5, SaveEntryBalanced DEF update_tx_slate_state
<1>7. db' \in {d1, e2, e3, e4}
  BY <1>2 DEF Call
<1> HIDE DEF e4
<1> QED
  BY <1>3, <1>4, <1>5, <1>6, <1>7 DEF BalanceKept

(* issue_invoice_tx writes a record that is not on the chain.              *)
LEMMA IssueBalance ==
    ASSUME BalanceInv, reorgs = 0, NEW s \in Slates, NEW a \in Acct, issue_invoice_tx(s, a)
    PROVE  BalanceKept
<1> DEFINE k == <<active, db.nextChild[active]>>
           d1 == next_child(db, active, 1)
           d2 == build_recipient_output(d1, s, k, a, 0)
           c == [NoContext EXCEPT !.kind = "Invoice", !.outs = {k}, !.acct = a]
           d3 == SaveContext(d2, s, c)
<1>1. /\ HasChildren(db, active, 1) /\ HasIds(db, a, 1)
      /\ Call({d1, d2}, d3, /\ issued' = issued \cup {s}
                            /\ UNCHANGED <<chain, signed, reorgs>>)
  BY DEF issue_invoice_tx
<1>2. k \in Key /\ d1 \in WalletDB /\ Balanced(d1, EverMined, Consumed) /\ d1.nextTx = db.nextTx
  BY <1>1, BalanceFacts, OneChild, NextChildBalanced DEF GoodDb
<1> HIDE DEF d1, k
<1>3. Balanced(d2, EverMined, Consumed) /\ d2 \in WalletDB
  BY <1>1, <1>2, RecipientBalanced, RecipientType DEF HasIds
<1> HIDE DEF d2
<1>4. KeysOf(c.ins) = {}
  BY DEF NoContext, KeysOf
<1> HIDE DEF c
<1>5. Balanced(d3, EverMined, Consumed)
  BY <1>3, <1>4, SaveContextBalanced
<1>6. db' \in {d1, d2, d3}
  BY <1>1 DEF Call
<1> HIDE DEF d3
<1> QED
  BY <1>2, <1>3, <1>5, <1>6 DEF BalanceKept

(* process_invoice_tx saves a context with mined inputs.                   *)
LEMMA PayBalance ==
    ASSUME ~ZeroConf, BalanceInv, reorgs = 0,
           NEW s \in Slates, NEW a \in Acct, process_invoice_tx(s, a)
    PROVE  BalanceKept
<1> DEFINE kern(d, n, S) == <<s, KeysOf(S) \cup NewKeys(d, active, n)>>
           c(d, n, b, S) == Selected(d, "Pay", S, n, a, kern(d, n, S), Expiry(b))
<1>1. PICK d \in Refreshed(db, a), n \in 0 .. MaxChange, b \in Ttls :
      \E S \in (SUBSET Eligible(d, a, ZeroConf)) \ {{}} :
          /\ HasChildren(d, active, n)
          /\ Call({d, next_child(d, active, n)},
                  SaveContext(next_child(d, active, n), s, c(d, n, b, S)),
                  Sign(SignedTx(c(d, n, b, S), kern(d, n, S))))
  BY DEF process_invoice_tx
<1>2. PICK S \in (SUBSET Eligible(d, a, ZeroConf)) \ {{}} :
          /\ HasChildren(d, active, n)
          /\ Call({d, next_child(d, active, n)},
                  SaveContext(next_child(d, active, n), s, c(d, n, b, S)),
                  Sign(SignedTx(c(d, n, b, S), kern(d, n, S))))
  BY <1>1
<1> DEFINE d1 == next_child(d, active, n)
           e == kern(d, n, S)
           d2 == SaveContext(d1, s, c(d, n, b, S))
<1>3. Balanced(d, EverMined, Consumed) /\ GoodDb(d)
  BY CallRefreshBalanced
<1>4. n \in Nat
  BY CoreAssumption
<1> HIDE DEF kern
<1>5. Balanced(d1, EverMined, Consumed) /\ Balanced(d2, EverMined, Consumed)
  BY <1>2, <1>3, <1>4, BalanceFacts, SelectedBalanced
<1>6. db' \in {d, d1, d2}
  BY <1>2 DEF Call
<1> HIDE DEF d1, d2
<1> QED
  BY <1>3, <1>5, <1>6 DEF BalanceKept

(* build_coinbase writes a record that is not on the chain.                *)
LEMMA CoinbaseBalance ==
    ASSUME BalanceInv, reorgs = 0, NEW n \in 1 .. MaxHeight, build_coinbase(n)
    PROVE  BalanceKept
<1> DEFINE old == KeysOf({x \in Slot : /\ ~x[2] /\ db.outs[x].cb > 0
                                       /\ db.outs[x].status = "Unconfirmed"})
           isnew(k) == k \in NewKeys(db, active, 1)
           d1(k) == IF isnew(k) THEN next_child(db, active, 1) ELSE db
           o == [root |-> active, status |-> "Unconfirmed", tx |-> -1, cb |-> n]
           tx(k) == [ins |-> {}, outs |-> {k}, kern |-> <<NoSlate, {k}>>, cb |-> n]
<1>1. PICK k \in old \cup NewKeys(db, active, 1) :
        /\ isnew(k) => HasChildren(db, active, 1)
        /\ Call({d1(k)}, SaveOutput(d1(k), <<k, FALSE>>, o), Sign(tx(k)))
  BY DEF build_coinbase
<1> DEFINE e1 == d1(k)
           e2 == SaveOutput(e1, <<k, FALSE>>, o)
<1>2. k \in Key /\ e1 \in WalletDB /\ Balanced(e1, EverMined, Consumed)
  <2>1. CASE isnew(k)
    BY <1>1, <2>1, BalanceFacts, OneChild, NextChildBalanced DEF GoodDb
  <2>2. CASE ~isnew(k)
    <3>1. PICK x \in Slot : x[1] = k
      BY <1>1, <2>2 DEF KeysOf
    <3> QED
      BY <2>2, <3>1, BalanceFacts DEF Slot
  <2> QED
    BY <2>1, <2>2
<1> HIDE DEF d1
<1>3. o.status = "Unconfirmed" /\ <<k, FALSE>> \in Slot
  BY <1>2 DEF Slot
<1> HIDE DEF o
<1>4. Balanced(e2, EverMined, Consumed)
  BY <1>2, <1>3, OffChainTrue, SaveOutputBalanced
<1> HIDE DEF e1, e2
<1>5. db' \in {e1, e2}
  BY <1>1 DEF Call, e1, e2
<1> QED
  BY <1>2, <1>4, <1>5 DEF BalanceKept

(* Every API call keeps the balance.                                       *)
LEMMA ApiCallBalance ==
    ASSUME ~ZeroConf, BalanceInv, reorgs = 0, ApiCall
    PROVE  BalanceKept
<1>1. ASSUME NEW a \in Acct, set_active_account(a)
      PROVE  BalanceKept
  BY <1>1, BalanceFacts DEF set_active_account, BalanceKept
<1> QED
  BY <1>1, RolesTyped, SendBalance, SendLateBalance, FailBalance, TxLockBalance,
     FinalizeBalance, FinalizeLateBalance, ReceiveBalance, IssueBalance, PayBalance,
     CoinbaseBalance
  DEF ApiCall

(* API calls hold the mutex, leave the chain alone and touch no thread,    *)
(* unless the process restarts.                                            *)
LEMMA ApiCallShape ==
    ASSUME ApiCall
    PROVE  /\ Free /\ UNCHANGED <<chain, reorgs>>
           /\ UNCHANGED <<lock, th>> \/ Restart
<1> DEFINE Shape == /\ Free /\ UNCHANGED <<chain, reorgs>>
                    /\ UNCHANGED <<lock, th>> \/ Restart
<1>1. ASSUME NEW s, NEW a, init_send_tx(s, a) PROVE Shape
  BY <1>1 DEF init_send_tx, Call, world
<1>2. ASSUME NEW s, NEW a, init_send_tx_late(s, a) PROVE Shape
  BY <1>2 DEF init_send_tx_late, Call, world
<1>3. ASSUME NEW a, SelectionFails(a) PROVE Shape
  BY <1>3 DEF SelectionFails, Call, world
<1>4. ASSUME NEW s, tx_lock_outputs(s) PROVE Shape
  BY <1>4 DEF tx_lock_outputs, world
<1>5. ASSUME NEW s, finalize_tx(s) \/ finalize_invoice(s) PROVE Shape
  BY <1>5 DEF finalize_tx, finalize_invoice, Finish, Sign
<1>6. ASSUME NEW s, finalize_tx_late(s) PROVE Shape
  BY <1>6 DEF finalize_tx_late, Finish, Sign, Call, world
<1>7. ASSUME NEW s, NEW a, receive_tx(s, a) PROVE Shape
  BY <1>7 DEF receive_tx, Sign, Call, world
<1>8. ASSUME NEW s, NEW a, issue_invoice_tx(s, a) PROVE Shape
  BY <1>8 DEF issue_invoice_tx, Call, world
<1>9. ASSUME NEW s, NEW a, process_invoice_tx(s, a) PROVE Shape
  BY <1>9 DEF process_invoice_tx, Sign, Call, world
<1>10. ASSUME NEW n, build_coinbase(n) PROVE Shape
  BY <1>10 DEF build_coinbase, Sign, Call, world
<1>11. ASSUME NEW a, set_active_account(a) PROVE Shape
  BY <1>11 DEF set_active_account, world
<1> HIDE DEF Shape
<1>12. Shape
  BY <1>1, <1>2, <1>3, <1>4, <1>5, <1>6, <1>7, <1>8, <1>9, <1>10, <1>11 DEF ApiCall
<1> QED
  BY <1>12 DEF Shape

(* An idle thread has heard nothing.                                       *)
LEMMA IdleHeard == \A d, E, S : Heard(d, Idle, E, S)
  BY DEF Heard, Idle

(* What a thread that does not wait for the node has heard does not depend *)
(* on the records.                                                         *)
LEMMA HeardStays ==
    ASSUME NEW d, NEW e, NEW r, NEW E, NEW S, Heard(d, r, E, S), ~Refreshing(r) \/ d = e
    PROVE  Heard(e, r, E, S)
  BY DEF Heard, Refreshing

(* As long as the chain stays, so do what was mined and what was spent.    *)
LEMMA SameChain ==
    ASSUME UNCHANGED chain
    PROVE  /\ EverMined' = EverMined /\ Consumed' = Consumed
           /\ Utxo' = Utxo /\ Height' = Height
<1>1. Height' = Height /\ \A h : Blocks(h)' = Blocks(h)
  BY DEF Height, Blocks
<1>2. Blocks(Height)' = Blocks(Height)
  BY <1>1 DEF Height, Blocks
<1> QED
  BY <1>1, <1>2 DEF EverMined, Consumed, Utxo

(* A step that is not a thread's and keeps the balance, on a free mutex or *)
(* without touching the records.                                           *)
LEMMA CallBalanceInv ==
    ASSUME BalanceInv, Inv', UNCHANGED <<chain, reorgs>>,
           UNCHANGED <<lock, th>> \/ Restart, Free \/ db' = db,
           reorgs = 0 => BalanceKept
    PROVE  BalanceInv'
<1>1. EverMined' = EverMined /\ Consumed' = Consumed
  BY SameChain
<1>2. CASE UNCHANGED <<lock, th>>
  <2>1. \A t \in Threads : Refreshing(th'[t]) => lock' = t
    BY <1>2 DEF BalanceInv
  <2>2. ASSUME reorgs = 0, NEW t \in Threads
        PROVE  Heard(db', th'[t], EverMined, Consumed)
    BY <1>2, <2>2, BalanceFacts, HeardStays
  <2> QED
    BY <1>1, <2>1, <2>2 DEF BalanceInv, BalanceKept
<1>3. CASE Restart
  <2>1. \A t \in Threads : th'[t] = Idle
    BY <1>3 DEF Restart
  <2>2. ~Refreshing(Idle)
    BY DEF Refreshing, Idle
  <2> QED
    BY <1>1, <2>1, <2>2, IdleHeard DEF BalanceInv, BalanceKept
<1> QED
  BY <1>2, <1>3

-----------------------------------------------------------------------------
(* Balance: threads                                                        *)

(* A step of thread t into state r; the other threads stay, and none of    *)
(* them is refreshing if the records change.                               *)
LEMMA ThreadBalanceInv ==
    ASSUME BalanceInv, Inv', NEW t \in Threads, NEW r, Become(t, r), UNCHANGED world,
           Refreshing(r) => lock' = t,
           lock' = lock \/ lock \in {t, NoThread},
           lock \in {t, NoThread} \/ db' = db,
           reorgs = 0 => BalanceKept /\ Heard(db', r, EverMined, Consumed)
    PROVE  BalanceInv'
<1>1. UNCHANGED <<chain, reorgs>>
  BY DEF world
<1>2. EverMined' = EverMined /\ Consumed' = Consumed
  BY <1>1, SameChain
<1>3. \A u \in Threads : th'[u] = IF u = t THEN r ELSE th[u]
  BY BalanceFacts DEF Become, Inv, TypeOK
<1>4. \A u \in Threads \ {t} : Refreshing(th[u]) => lock = u /\ lock \notin {t, NoThread}
  BY CoreAssumption DEF BalanceInv
<1>5. \A u \in Threads : Refreshing(th'[u]) => lock' = u
  BY <1>3, <1>4
<1>6. ASSUME reorgs = 0, NEW u \in Threads
      PROVE  Heard(db', th'[u], EverMined, Consumed)
  <2>1. CASE u = t
    BY <1>3, <1>6, <2>1
  <2>2. CASE u # t
    BY <1>3, <1>4, <1>6, <2>2, BalanceFacts, HeardStays
  <2> QED
    BY <2>1, <2>2
<1> QED
  BY <1>1, <1>2, <1>5, <1>6 DEF BalanceInv, BalanceKept

(* A step of a section, or without the database; the thread is not         *)
(* refreshing afterwards.                                                  *)
LEMMA SectionBalance ==
    ASSUME BalanceInv, Inv', NEW t \in Threads, NEW r, Become(t, r), UNCHANGED world,
           UNCHANGED lock, Free \/ db' = db, ~Refreshing(r),
           reorgs = 0 => BalanceKept /\ Heard(db', r, EverMined, Consumed)
    PROVE  BalanceInv'
  BY ThreadBalanceInv DEF Free

(* Starting a job.                                                         *)
LEMMA StartBalance ==
    ASSUME BalanceInv, Inv', NEW t \in Threads, NEW job, NEW del, NEW s, NEW i,
           Start(t, job, del, s, i)
    PROVE  BalanceInv'
<1> DEFINE r == [Idle EXCEPT !.pc = "refresh", !.job = job, !.del = del,
                             !.target = s, !.id = i, !.acct = active]
<1>1. r.api = {} /\ r.found = {} /\ r.pc = "refresh"
  BY DEF Idle
<1>2. Become(t, r) /\ db' = db /\ UNCHANGED lock /\ UNCHANGED world
  BY DEF Start, NoDbStep
<1> HIDE DEF r
<1>3. ~Refreshing(r) /\ \A d, E, S : Heard(d, r, E, S)
  BY <1>1 DEF Refreshing, Heard
<1>4. reorgs = 0 => BalanceKept
  BY <1>2, BalanceFacts DEF BalanceKept
<1> QED
  BY <1>2, <1>3, <1>4, SectionBalance

(* The refresh of an update or a scan: the mutex is held from the question *)
(* for the outputs until its answer is applied.                            *)
LEMMA RefreshStepBalance ==
    ASSUME BalanceInv, Inv', NEW t \in Threads, RefreshStep(t)
    PROVE  BalanceInv'
<1> DEFINE E == EverMined
           S == Consumed
<1>1. th[t] \in ThreadState /\ (reorgs = 0 => Heard(db, th[t], E, S))
  BY BalanceFacts
<1>2. reorgs = 0 => Balanced(db, E, S)
  BY BalanceFacts
<1>3. CASE RefreshTip(t)
  <2> DEFINE r == [Goto(t, "outputs") EXCEPT !.h = Height]
  <2>1. r.api = th[t].api /\ r.found = th[t].found /\ r.pc = "outputs"
    BY <1>1 DEF ThreadState, Goto
  <2>2. Become(t, r) /\ db' = db /\ UNCHANGED world /\ lock' = t /\ lock = NoThread
    BY <1>3 DEF RefreshTip, Free
  <2> HIDE DEF r
  <2>3. reorgs = 0 => BalanceKept /\ Heard(db', r, E, S)
    BY <1>1, <1>2, <2>1, <2>2 DEF Heard, BalanceKept
  <2> QED
    BY <2>2, <2>3, ThreadBalanceInv
<1>4. CASE RefreshOutputs(t)
  <2> DEFINE r == [Goto(t, "apply") EXCEPT !.api = Utxo]
  <2>1. r.api = Utxo /\ r.found = th[t].found /\ r.pc = "apply"
    BY <1>1 DEF ThreadState, Goto
  <2>2. Become(t, r) /\ db' = db /\ UNCHANGED world /\ UNCHANGED lock /\ lock = t
    BY <1>4 DEF RefreshOutputs, NoDbStep, At, BalanceInv, Refreshing
  <2> HIDE DEF r
  <2>3. ASSUME reorgs = 0
        PROVE  Heard(db', r, E, S)
    <3>1. \A x \in Slot :
            db.outs[x].status \in {"Unspent", "Locked"} => x[1] \in Utxo \cup S
      BY <1>2, <2>3, UtxoMined DEF Balanced, StatusTrue, OnChainStatus
    <3>2. r.api \subseteq E /\ r.found \subseteq E
      BY <1>1, <2>1, <2>3, UtxoMined DEF Heard
    <3> HIDE DEF E, S
    <3> QED
      BY <2>1, <2>2, <3>1, <3>2 DEF Heard
  <2>4. reorgs = 0 => BalanceKept
    BY <1>2, <2>2 DEF BalanceKept
  <2> QED
    BY <2>2, <2>3, <2>4, ThreadBalanceInv
<1>5. CASE RefreshApply(t)
  <2> DEFINE all == th[t].job = "scan"
             pc == IF all THEN "tip" ELSE "txs"
             r == [Goto(t, pc) EXCEPT !.api = {}, !.h = 0]
  <2>1. pc \in {"tip", "txs"}
    OBVIOUS
  <2>2. /\ db' = refresh_output_state(db, active, all, th[t].h, th[t].api, Kernels)
        /\ Become(t, r) /\ UNCHANGED world /\ lock' = NoThread
        /\ th[t].pc = "apply"
    BY <1>5 DEF RefreshApply, At
  <2> HIDE DEF all, pc
  <2>3. r.api = {} /\ r.found = th[t].found /\ r.pc = pc
    BY <1>1 DEF ThreadState, Goto
  <2> HIDE DEF r
  <2>4. lock = t
    BY <2>2 DEF BalanceInv, Refreshing
  <2>5. ASSUME reorgs = 0
        PROVE  BalanceKept /\ Heard(db', r, E, S)
    <3>1. /\ th[t].api \subseteq E /\ th[t].found \subseteq E
          /\ \A x \in Slot : db.outs[x].status \in {"Unspent", "Locked"} =>
                                x[1] \in th[t].api \cup S
      BY <1>1, <2>2, <2>5 DEF Heard
    <3>2. Balanced(db', E, S)
      BY <1>2, <2>2, <2>5, <3>1, BalanceFacts, RefreshBalanced
    <3> QED
      BY <2>1, <2>3, <3>1, <3>2 DEF Heard, BalanceKept
  <2>6. ~Refreshing(r)
    BY <2>1, <2>3 DEF Refreshing
  <2> QED
    BY <2>2, <2>4, <2>5, <2>6, ThreadBalanceInv
<1> QED
  BY <1>3, <1>4, <1>5 DEF RefreshStep

(* A thread that heard nothing new, and is not about to save anything it   *)
(* heard.                                                                  *)
LEMMA ForgetHeard ==
    ASSUME NEW d, NEW e, NEW q, NEW r, NEW E, NEW S, Heard(d, q, E, S),
           r.api \subseteq q.api, r.found \subseteq q.found,
           r.pc \notin {"apply", "spent", "spentSave", "locked", "lockedSave"}
    PROVE  Heard(e, r, E, S)
  BY DEF Heard

(* A section after which the thread has heard nothing new.                 *)
LEMMA QuietSection ==
    ASSUME BalanceInv, Inv', NEW t \in Threads, NEW r, Become(t, r), UNCHANGED world,
           UNCHANGED lock, Free \/ db' = db, reorgs = 0 => BalanceKept,
           r.api \subseteq th[t].api, r.found \subseteq th[t].found,
           r.pc \notin {"outputs", "apply", "spent", "spentSave", "locked", "lockedSave"}
    PROVE  BalanceInv'
<1>1. reorgs = 0 => Heard(db', r, EverMined, Consumed)
  BY BalanceFacts, ForgetHeard
<1> QED
  BY <1>1, SectionBalance DEF Refreshing

(* A step without the database after which the thread has heard nothing    *)
(* new.                                                                    *)
LEMMA QuietStep ==
    ASSUME BalanceInv, Inv', NEW t \in Threads, NEW r, Become(t, r), NoDbStep,
           r.api \subseteq th[t].api, r.found \subseteq th[t].found,
           r.pc \notin {"outputs", "apply", "spent", "spentSave", "locked", "lockedSave"}
    PROVE  BalanceInv'
<1>1. db' = db /\ UNCHANGED lock /\ UNCHANGED world
  BY DEF NoDbStep
<1>2. reorgs = 0 => BalanceKept
  BY <1>1, BalanceFacts DEF BalanceKept
<1> QED
  BY <1>1, <1>2, QuietSection

(* An idle thread has heard nothing.                                       *)
LEMMA IdleQuiet == Idle.api = {} /\ Idle.found = {} /\ Idle.pc = "idle"
  BY DEF Idle

(* The kernel lookups of an update save log entries only.                  *)
LEMMA KernelStepBalance ==
    ASSUME BalanceInv, Inv', NEW t \in Threads, KernelStep(t)
    PROVE  BalanceInv'
<1>1. th[t] \in ThreadState /\ db \in WalletDB
  BY BalanceFacts
<1>2. CASE SnapshotTxs(t)
  <2> DEFINE r == [Goto(t, "kernels") EXCEPT !.txs = OutstandingTxs(db, th[t].acct)]
  <2>1. r.api = th[t].api /\ r.found = th[t].found /\ r.pc = "kernels"
    BY <1>1 DEF ThreadState, Goto
  <2>2. Become(t, r) /\ NoDbStep
    BY <1>2 DEF SnapshotTxs
  <2> HIDE DEF r
  <2> QED
    BY <2>1, <2>2, QuietStep
<1>3. CASE StartKernels(t)
  <2> DEFINE todo == {e \in th[t].txs : ~(e.debit /\ e.credit) /\ e.kern # NoKern}
             r == [Goto(t, "kernel") EXCEPT !.acct = active, !.h = Height, !.todo = todo]
  <2>1. Become(t, r) /\ NoDbStep
    BY <1>3 DEF StartKernels
  <2> HIDE DEF todo
  <2>2. r.api = th[t].api /\ r.found = th[t].found /\ r.pc = "kernel"
    BY <1>1 DEF ThreadState, Goto
  <2> HIDE DEF r
  <2> QED
    BY <2>1, <2>2, QuietStep
<1>4. CASE KernelsDone(t)
  <2> DEFINE r == [Goto(t, "tip") EXCEPT !.h = 0]
  <2>1. r.api = th[t].api /\ r.found = th[t].found /\ r.pc = "tip"
    BY <1>1 DEF ThreadState, Goto
  <2>2. Become(t, r) /\ NoDbStep
    BY <1>4 DEF KernelsDone
  <2> HIDE DEF r
  <2> QED
    BY <2>1, <2>2, QuietStep
<1>5. ASSUME NEW e \in th[t].todo, LookupKernel(t, e)
      PROVE  BalanceInv'
  <2> DEFINE todo == (th[t].todo \ {e}) \cup {[e EXCEPT !.confirmed = TRUE]}
             r1 == [Goto(t, "confirm") EXCEPT !.todo = todo]
             r2 == [th[t] EXCEPT !.todo = @ \ {e}]
  <2>1. (Become(t, r1) \/ Become(t, r2)) /\ NoDbStep /\ th[t].pc = "kernel"
    <3>1. r1 = [Goto(t, "confirm") EXCEPT
                  !.todo = (@ \ {e}) \cup {[e EXCEPT !.confirmed = TRUE]}]
      BY <1>1 DEF ThreadState, Goto
    <3> QED
      BY <1>5, <3>1 DEF LookupKernel, At
  <2> HIDE DEF todo
  <2>2. /\ r1.api = th[t].api /\ r1.found = th[t].found /\ r1.pc = "confirm"
        /\ r2.api = th[t].api /\ r2.found = th[t].found /\ r2.pc = "kernel"
    BY <1>1, <2>1 DEF ThreadState, Goto
  <2> HIDE DEF r1, r2
  <2> QED
    BY <2>1, <2>2, QuietStep
<1>6. ASSUME NEW e \in th[t].todo, SaveConfirmed(t, e)
      PROVE  BalanceInv'
  <2> DEFINE r == [Goto(t, "kernel") EXCEPT !.todo = @ \ {e}]
  <2>1. r.api = th[t].api /\ r.found = th[t].found /\ r.pc = "kernel"
    BY <1>1 DEF ThreadState, Goto
  <2>2. /\ Become(t, r) /\ Free /\ UNCHANGED lock /\ UNCHANGED world
        /\ db' = SaveEntry(db, th[t].acct, e)
    BY <1>6 DEF SaveConfirmed, Section
  <2> HIDE DEF r
  <2>3. reorgs = 0 => BalanceKept
    BY <2>2, BalanceFacts, SaveEntryBalanced DEF BalanceKept
  <2> QED
    BY <2>1, <2>2, <2>3, QuietSection
<1> QED
  BY <1>2, <1>3, <1>4, <1>5, <1>6 DEF KernelStep

(* The outputs a scan repairs are the chain's.                             *)
LEMMA MatchedKeys ==
    ASSUME NEW w, NEW C, NEW status
    PROVE  KeysOf(Matched(w, C, status)) \subseteq C /\ Missing(w, C) \subseteq C
<1>1. \A k : Match(w, k)[1] = k
  BY DEF Match
<1>2. \A x \in Matched(w, C, status) : \E k \in C : x = Match(w, k)
  BY DEF Matched
<1>3. Missing(w, C) \subseteq C
  BY DEF Missing
<1> QED
  BY <1>1, <1>2, <1>3 DEF KeysOf

(* Repairing an output, first half: its entry is cancelled.                *)
LEMMA FixEntryBalance ==
    ASSUME BalanceInv, Inv', NEW t \in Threads, NEW x \in th[t].fix, NEW pc, NEW next,
           FixEntry(t, x, pc, next),
           <<pc, next>> \in {<<"spent", "spentSave">>, <<"locked", "lockedSave">>,
                             <<"unconfirmed", "unconfirmedDelete">>}
    PROVE  BalanceInv'
<1> DEFINE r == [Goto(t, next) EXCEPT !.cur = {x}]
<1>1. th[t] \in ThreadState /\ db \in WalletDB
  BY BalanceFacts
<1>2. /\ r.api = th[t].api /\ r.found = th[t].found /\ r.pc = next
      /\ r.fix = th[t].fix /\ r.cur = {x}
  BY <1>1 DEF ThreadState, Goto
<1>3. /\ Become(t, r) /\ th[t].pc = pc /\ Free /\ UNCHANGED lock /\ UNCHANGED world
      /\ db' = cancel_tx_log_entry(db, x, th[t].outs[x])
  BY DEF FixEntry, Section, At
<1> HIDE DEF r
<1>4. reorgs = 0 => BalanceKept
  BY <1>1, <1>3, BalanceFacts, SaveEntryBalanced DEF cancel_tx_log_entry, BalanceKept
<1>5. reorgs = 0 => Heard(db', r, EverMined, Consumed)
  <2> SUFFICES ASSUME reorgs = 0 PROVE Heard(db', r, EverMined, Consumed)
    OBVIOUS
  <2>1. Heard(db, th[t], EverMined, Consumed)
    BY BalanceFacts
  <2>2. pc \in {"spent", "locked"} =>
            KeysOf(r.fix) \subseteq EverMined /\ KeysOf(r.cur) \subseteq EverMined
    BY <1>2, <1>3, <2>1 DEF Heard, KeysOf
  <2> QED
    BY <1>2, <2>1, <2>2 DEF Heard
<1>6. ~Refreshing(r)
  BY <1>2 DEF Refreshing
<1> QED
  BY <1>3, <1>4, <1>5, <1>6, SectionBalance

(* Second half: the record is written back as unspent, or it is removed.   *)
LEMMA FixOutputBalance ==
    ASSUME BalanceInv, Inv', NEW t \in Threads, NEW x \in th[t].cur, NEW pc, NEW next,
           NEW o, FixOutput(t, x, pc, next, o),
           \/ <<pc, next>> \in {<<"spentSave", "spent">>, <<"lockedSave", "locked">>}
              /\ o.status = "Unspent"
           \/ <<pc, next>> = <<"unconfirmedDelete", "unconfirmed">> /\ o.status = "None"
    PROVE  BalanceInv'
<1> DEFINE r == [Goto(t, next) EXCEPT !.cur = {}, !.fix = @ \ {x}]
<1>1. th[t] \in ThreadState /\ db \in WalletDB
  BY BalanceFacts
<1>2. /\ r.api = th[t].api /\ r.found = th[t].found /\ r.pc = next
      /\ r.fix = th[t].fix \ {x}
  BY <1>1 DEF ThreadState, Goto
<1>3. /\ Become(t, r) /\ th[t].pc = pc /\ Free /\ UNCHANGED lock /\ UNCHANGED world
      /\ db' = SaveOutput(db, x, o)
  BY DEF FixOutput, Section, At
<1> HIDE DEF r
<1>4. x \in Slot
  BY <1>1 DEF ThreadState
<1>5. ASSUME reorgs = 0
      PROVE  BalanceKept /\ Heard(db', r, EverMined, Consumed)
  <2>1. Heard(db, th[t], EverMined, Consumed) /\ Balanced(db, EverMined, Consumed)
    BY <1>5, BalanceFacts
  <2>2. StatusTrue(x[1], o, EverMined, Consumed)
    BY <1>3, <2>1 DEF StatusTrue, OnChainStatus, Heard, KeysOf
  <2>3. Balanced(db', EverMined, Consumed)
    BY <1>1, <1>3, <1>4, <2>1, <2>2, SaveOutputBalanced
  <2>4. next \in {"spent", "locked"} => KeysOf(r.fix) \subseteq EverMined
    BY <1>2, <1>3, <2>1 DEF Heard, KeysOf
  <2> QED
    BY <1>2, <2>1, <2>3, <2>4 DEF Heard, BalanceKept
<1>6. ~Refreshing(r)
  BY <1>2 DEF Refreshing
<1> QED
  BY <1>3, <1>5, <1>6, SectionBalance

(* The readings of a scan: what it collects has been mined.                *)
LEMMA ScanReadBalance ==
    ASSUME BalanceInv, Inv', NEW t \in Threads,
           ScanTip(t) \/ collect_chain_outputs(t) \/ SnapshotOutputs(t)
    PROVE  BalanceInv'
<1>1. th[t] \in ThreadState
  BY BalanceFacts
<1>2. CASE ScanTip(t)
  <2> DEFINE r == [Goto(t, "collect") EXCEPT !.h = Height]
  <2>1. r.api = th[t].api /\ r.found = th[t].found /\ r.pc = "collect"
    BY <1>1 DEF ThreadState, Goto
  <2>2. Become(t, r) /\ NoDbStep
    BY <1>2 DEF ScanTip
  <2> HIDE DEF r
  <2> QED
    BY <2>1, <2>2, QuietStep
<1>3. CASE collect_chain_outputs(t)
  <2> DEFINE r == [Goto(t, "snapshot") EXCEPT !.found = UtxoUpTo(th[t].h)]
  <2>1. r.api = th[t].api /\ r.found = UtxoUpTo(th[t].h) /\ r.pc = "snapshot"
    BY <1>1 DEF ThreadState, Goto
  <2>2. Become(t, r) /\ db' = db /\ UNCHANGED lock /\ UNCHANGED world
    BY <1>3 DEF collect_chain_outputs, NoDbStep
  <2> HIDE DEF r
  <2>3. reorgs = 0 => BalanceKept /\ Heard(db', r, EverMined, Consumed)
    BY <2>1, <2>2, BalanceFacts, UtxoMined DEF Heard, BalanceKept
  <2>4. ~Refreshing(r)
    BY <2>1 DEF Refreshing
  <2> QED
    BY <2>2, <2>3, <2>4, SectionBalance
<1>4. CASE SnapshotOutputs(t)
  <2> DEFINE F == Matched(db.outs, th[t].found, "Spent")
             r == [Goto(t, "spent") EXCEPT !.outs = db.outs, !.fix = F]
  <2>1. Become(t, r) /\ db' = db /\ UNCHANGED lock /\ UNCHANGED world
    BY <1>4 DEF SnapshotOutputs, NoDbStep
  <2>2. KeysOf(F) \subseteq th[t].found
    BY MatchedKeys
  <2> HIDE DEF F
  <2>3. r.api = th[t].api /\ r.found = th[t].found /\ r.pc = "spent" /\ r.fix = F
    BY <1>1 DEF ThreadState, Goto
  <2> HIDE DEF r
  <2>4. reorgs = 0 => BalanceKept /\ Heard(db', r, EverMined, Consumed)
    BY <2>1, <2>2, <2>3, BalanceFacts DEF Heard, BalanceKept
  <2>5. ~Refreshing(r)
    BY <2>3 DEF Refreshing
  <2> QED
    BY <2>1, <2>4, <2>5, SectionBalance
<1> QED
  BY <1>2, <1>3, <1>4

(* The turns of a scan from one phase to the next.                         *)
LEMMA ScanTurnBalance ==
    ASSUME BalanceInv, Inv', NEW t \in Threads,
           \/ SpentDone(t) \/ LockedDone(t) \/ UnconfirmedDone(t)
           \/ RestoreMissing(t) \/ ScanDone(t)
    PROVE  BalanceInv'
<1> DEFINE K == Missing(th[t].outs, th[t].found)
<1>1. th[t] \in ThreadState /\ db \in WalletDB
  BY BalanceFacts
<1>2. K \subseteq th[t].found
  BY MatchedKeys
<1>3. CASE SpentDone(t) \/ UnconfirmedDone(t)
  <2>1. PICK pc \in {"restore", "children"} : Become(t, Goto(t, pc)) /\ NoDbStep
    BY <1>3 DEF SpentDone, UnconfirmedDone
  <2> DEFINE r == Goto(t, pc)
  <2>2. r.api = th[t].api /\ r.found = th[t].found /\ r.pc = pc
    BY <1>1 DEF ThreadState, Goto
  <2>3. Become(t, r)
    BY <2>1
  <2> HIDE DEF r
  <2> QED
    BY <2>1, <2>2, <2>3, QuietStep
<1>4. CASE LockedDone(t)
  <2> DEFINE F == {x \in Slot : th[t].outs[x].status = "Unconfirmed"}
             r == [Goto(t, "unconfirmed") EXCEPT !.fix = F]
  <2>1. Become(t, r) /\ NoDbStep
    BY <1>4 DEF LockedDone
  <2> HIDE DEF F
  <2>2. r.api = th[t].api /\ r.found = th[t].found /\ r.pc = "unconfirmed"
    BY <1>1 DEF ThreadState, Goto
  <2> HIDE DEF r
  <2> QED
    BY <2>1, <2>2, QuietStep
<1>5. CASE RestoreMissing(t)
  <2> DEFINE F == IF th[t].del THEN Matched(th[t].outs, th[t].found, "Locked") ELSE {}
             next == IF th[t].del THEN "locked" ELSE "children"
             r == [Goto(t, next) EXCEPT !.fix = F]
  <2>1. /\ Become(t, r) /\ Free /\ UNCHANGED lock /\ UNCHANGED world
        /\ db' = restore_missing_outputs(db, K, CoinbaseHeight)
    BY <1>5 DEF RestoreMissing, Section
  <2>2. KeysOf(F) \subseteq th[t].found
    <3>1. KeysOf({}) = {}
      BY DEF KeysOf
    <3> QED
      BY <3>1, MatchedKeys
  <2>3. next \in {"locked", "children"}
    OBVIOUS
  <2> HIDE DEF F, K, next
  <2>4. /\ r.api = th[t].api /\ r.found = th[t].found /\ r.fix = F
        /\ r.pc = next
    BY <1>1 DEF ThreadState, Goto
  <2> HIDE DEF r
  <2>5. ASSUME reorgs = 0
        PROVE  BalanceKept /\ Heard(db', r, EverMined, Consumed)
    <3>1. Heard(db, th[t], EverMined, Consumed) /\ Balanced(db, EverMined, Consumed)
      BY <2>5, BalanceFacts
    <3>2. K \subseteq EverMined /\ KeysOf(F) \subseteq EverMined
      BY <1>2, <2>2, <3>1 DEF Heard, K
    <3>3. Balanced(db', EverMined, Consumed)
      BY <1>1, <2>1, <3>1, <3>2, RestoreBalanced
    <3> QED
      BY <2>3, <2>4, <3>1, <3>2, <3>3 DEF Heard, BalanceKept
  <2>6. ~Refreshing(r)
    BY <2>3, <2>4 DEF Refreshing
  <2> QED
    BY <2>1, <2>5, <2>6, SectionBalance
<1>6. CASE ScanDone(t)
  <2> DEFINE E == {e \in th[t].txs : e.ttl # 0 /\ th[t].h >= e.ttl}
             r == [Goto(t, "ttl") EXCEPT !.found = {}, !.outs = NoOutputs, !.todo = E]
  <2>1. /\ Become(t, Idle) \/ Become(t, r)
        /\ Free /\ UNCHANGED lock /\ UNCHANGED world
        /\ db' = restore_child_indices(db, K)
    BY <1>6 DEF ScanDone, Section
  <2> HIDE DEF E, K
  <2>2. r.api = th[t].api /\ r.found = {} /\ r.pc = "ttl"
    BY <1>1 DEF ThreadState, Goto
  <2> HIDE DEF r
  <2>3. db'.outs = db.outs /\ db'.ctxs = db.ctxs
    BY <1>1, <2>1 DEF restore_child_indices, WalletDB
  <2>4. reorgs = 0 => BalanceKept
    BY <2>3, BalanceFacts, OtherBalanced DEF BalanceKept
  <2>5. CASE Become(t, r)
    BY <2>1, <2>2, <2>4, <2>5, QuietSection
  <2>6. CASE Become(t, Idle)
    BY <2>1, <2>4, <2>6, IdleQuiet, QuietSection
  <2> QED
    BY <2>1, <2>5, <2>6
<1> QED
  BY <1>3, <1>4, <1>5, <1>6

(* Every step of a scan.                                                   *)
LEMMA ScanStepBalance ==
    ASSUME BalanceInv, Inv', NEW t \in Threads, ScanStep(t)
    PROVE  BalanceInv'
<1>1. ASSUME NEW x \in th[t].fix,
             SpentEntry(t, x) \/ LockedEntry(t, x) \/ UnconfirmedEntry(t, x)
      PROVE  BalanceInv'
  BY <1>1, FixEntryBalance DEF SpentEntry, LockedEntry, UnconfirmedEntry
<1>2. ASSUME NEW x \in th[t].cur,
             SpentOutput(t, x) \/ LockedOutput(t, x) \/ UnconfirmedOutput(t, x)
      PROVE  BalanceInv'
  <2> DEFINE o == CopyUnspent(t, x)
  <2>1. th[t] \in ThreadState
    BY BalanceFacts
  <2>2. o.status = "Unspent"
    BY <2>1 DEF ThreadState, CopyUnspent, OutputData
  <2>3. NoOutput.status = "None"
    BY DEF NoOutput
  <2>4. CASE SpentOutput(t, x)
    BY <2>2, <2>4, FixOutputBalance DEF SpentOutput
  <2>5. CASE LockedOutput(t, x)
    BY <2>2, <2>5, FixOutputBalance DEF LockedOutput
  <2>6. CASE UnconfirmedOutput(t, x)
    BY <2>3, <2>6, FixOutputBalance DEF UnconfirmedOutput
  <2> QED
    BY <1>2, <2>4, <2>5, <2>6
<1> QED
  BY <1>1, <1>2, ScanReadBalance, ScanTurnBalance DEF ScanStep

(* Cancelling, by time-to-live or on request.                              *)
LEMMA CancelStepBalance ==
    ASSUME BalanceInv, Inv', NEW t \in Threads, CancelStep(t)
    PROVE  BalanceInv'
<1>1. th[t] \in ThreadState /\ db \in WalletDB
  BY BalanceFacts
<1>2. ASSUME NEW P, reorgs = 0,
             db' = (IF CanCancel(db, P) THEN cancel_tx_and_outputs(db, active, P) ELSE db)
      PROVE  BalanceKept
  BY <1>1, <1>2, BalanceFacts, CancelBalanced DEF BalanceKept
<1>3. ASSUME NEW e \in th[t].todo, CancelExpired(t, e)
      PROVE  BalanceInv'
  <2> DEFINE P == TxsWithId(db, active, e.id)
             r == [th[t] EXCEPT !.todo = @ \ {e}]
  <2>1. /\ Become(t, r) \/ Become(t, Idle)
        /\ th[t].pc = "ttl" /\ Free /\ UNCHANGED lock /\ UNCHANGED world
        /\ db' = (IF CanCancel(db, P) THEN cancel_tx_and_outputs(db, active, P) ELSE db)
    BY <1>3 DEF CancelExpired, Section, At
  <2>2. r.api = th[t].api /\ r.found = th[t].found /\ r.pc = "ttl"
    BY <1>1, <2>1 DEF ThreadState
  <2> HIDE DEF r, P
  <2>3. reorgs = 0 => BalanceKept
    BY <1>2, <2>1
  <2>4. CASE Become(t, r)
    BY <2>1, <2>2, <2>3, <2>4, QuietSection
  <2>5. CASE Become(t, Idle)
    BY <2>1, <2>3, <2>5, IdleQuiet, QuietSection
  <2> QED
    BY <2>1, <2>4, <2>5
<1>4. CASE UpdateDone(t)
  <2> DEFINE r == [Idle EXCEPT !.pc = "cancel", !.job = "cancel",
                               !.target = th[t].target, !.id = th[t].id]
  <2>1. r.api = {} /\ r.found = {} /\ r.pc = "cancel"
    BY DEF Idle
  <2>2. (Become(t, r) \/ Become(t, Idle)) /\ NoDbStep
    BY <1>4 DEF UpdateDone
  <2> HIDE DEF r
  <2> QED
    BY <2>1, <2>2, IdleQuiet, QuietStep
<1>5. CASE CancelTx(t)
  <2> DEFINE P == IF th[t].id # -1
                  THEN TxsWithId(db, active, th[t].id)
                  ELSE {p \in TxsWithSlate(db, th[t].target) : Entry(db, p).acct = active}
  <2>1. /\ Become(t, Idle) /\ Free /\ UNCHANGED lock /\ UNCHANGED world
        /\ db' = (IF CanCancel(db, P) THEN cancel_tx_and_outputs(db, active, P) ELSE db)
    BY <1>5 DEF CancelTx, Section
  <2> HIDE DEF P
  <2>2. reorgs = 0 => BalanceKept
    BY <1>2, <2>1
  <2> QED
    BY <2>1, <2>2, IdleQuiet, QuietSection
<1> QED
  BY <1>3, <1>4, <1>5 DEF CancelStep

(* A failed call to the node: the thread lets go of the mutex, and forgets *)
(* what it heard.                                                          *)
LEMMA NodeFailureBalance ==
    ASSUME BalanceInv, Inv', NEW t \in Threads, NodeFailure(t)
    PROVE  BalanceInv'
<1> DEFINE r == [Goto(t, "tip") EXCEPT !.api = {}, !.h = 0]
<1>1. r.api = {} /\ r.found = th[t].found /\ r.pc = "tip"
  BY BalanceFacts DEF ThreadState, Goto
<1>2. /\ Become(t, r) \/ Become(t, Idle)
      /\ db' = db /\ UNCHANGED world
      /\ lock' = lock \/ lock = t
  BY DEF NodeFailure
<1> HIDE DEF r
<1>3. reorgs = 0 => /\ BalanceKept /\ Heard(db', r, EverMined, Consumed)
                    /\ Heard(db', Idle, EverMined, Consumed)
  BY <1>1, <1>2, BalanceFacts, ForgetHeard, IdleHeard DEF BalanceKept
<1>4. ~Refreshing(r) /\ ~Refreshing(Idle)
  BY <1>1, IdleQuiet DEF Refreshing
<1>5. CASE Become(t, r)
  BY <1>2, <1>3, <1>4, <1>5, ThreadBalanceInv
<1>6. CASE Become(t, Idle)
  BY <1>2, <1>3, <1>4, <1>6, ThreadBalanceInv
<1> QED
  BY <1>2, <1>5, <1>6

-----------------------------------------------------------------------------
(* Balance: all steps                                                      *)

(* More is mined and more is spent.                                        *)
LEMMA BalanceGrows ==
    ASSUME NEW d, NEW r, NEW E, NEW S, NEW F, NEW U, E \subseteq F, S \subseteq U
    PROVE  /\ Balanced(d, E, S) => Balanced(d, F, U)
           /\ Heard(d, r, E, S) => Heard(d, r, F, U)
<1>1. ASSUME NEW k, NEW o, StatusTrue(k, o, E, S) PROVE StatusTrue(k, o, F, U)
  BY <1>1 DEF StatusTrue
<1>2. Balanced(d, E, S) => Balanced(d, F, U)
  BY <1>1 DEF Balanced
<1>3. Heard(d, r, E, S) => Heard(d, r, F, U)
  BY DEF Heard
<1> QED
  BY <1>2, <1>3

(* A block only adds to what was mined and what was spent.                 *)
LEMMA BlocksAdded ==
    ASSUME TypeOK, NEW b, AddBlock(b)
    PROVE  /\ EverMined \subseteq EverMined' /\ Consumed \subseteq Consumed'
           /\ Blocks(Height)' = Blocks(Height) \cup {b}
<1>1. chain \in Seq(Tx) /\ chain' = Append(chain, b) /\ Len(chain) \in Nat
  BY DEF AddBlock, TypeOK
<1>2. Height = Len(chain) /\ Height' = Len(chain) + 1
  BY <1>1 DEF Height
<1>3. /\ \A n \in 1 .. Len(chain) : chain'[n] = chain[n]
      /\ chain'[Len(chain) + 1] = b
  BY <1>1
<1>4. /\ Blocks(Height) = {chain[n] : n \in 1 .. Len(chain)}
      /\ Blocks(Height)' = {chain'[n] : n \in 1 .. Len(chain) + 1}
  BY <1>1, <1>2 DEF Blocks
<1>5. Blocks(Height)' = Blocks(Height) \cup {b}
  <2>1. 1 .. Len(chain) + 1 = (1 .. Len(chain)) \cup {Len(chain) + 1}
    BY <1>1
  <2> QED
    BY <1>3, <1>4, <2>1
<1> QED
  BY <1>5 DEF EverMined, Consumed

(* The chain grows, or it loses a block, which ends the claim.             *)
LEMMA ChainStepBalance ==
    ASSUME BalanceInv, Inv', ChainStep
    PROVE  BalanceInv'
<1>1. db' = db /\ lock' = lock /\ th' = th
  BY DEF ChainStep, Mine, MineEmpty, AddBlock, Reorg, wallet
<1>2. CASE \E b : AddBlock(b)
  <2>1. reorgs' = reorgs
    BY <1>2 DEF AddBlock
  <2>2. EverMined \subseteq EverMined' /\ Consumed \subseteq Consumed'
    BY <1>2, BlocksAdded DEF BalanceInv, Inv
  <2>3. ASSUME reorgs = 0
        PROVE  /\ Balanced(db', EverMined', Consumed')
               /\ \A t \in Threads : Heard(db', th'[t], EverMined', Consumed')
    BY <1>1, <2>2, <2>3, BalanceFacts, BalanceGrows
  <2> QED
    BY <1>1, <2>1, <2>3 DEF BalanceInv
<1>3. CASE Reorg
  <2>1. reorgs' # 0
    BY <1>3 DEF Reorg, BalanceInv, Inv, TypeOK
  <2> QED
    BY <1>1, <2>1 DEF BalanceInv
<1> QED
  BY <1>2, <1>3 DEF ChainStep, Mine, MineEmpty

(* The invariant is inductive.                                             *)
LEMMA NextBalance ==
    ASSUME ~ZeroConf, BalanceInv, [Next]_vars
    PROVE  BalanceInv'
<1>1. Inv'
  BY NextInv DEF BalanceInv
<1>2. CASE UNCHANGED vars
  <2>1. UNCHANGED <<chain, reorgs, lock, th, db>>
    BY <1>2 DEF vars
  <2> QED
    BY <1>1, <2>1, BalanceFacts, CallBalanceInv DEF BalanceKept
<1>3. CASE ApiCall
  BY <1>1, <1>3, ApiCallShape, ApiCallBalance, CallBalanceInv
<1>4. ASSUME NEW t \in Threads, ThreadStep(t)
      PROVE  BalanceInv'
  <2>1. CASE StartJob(t)
    BY <1>1, <2>1, StartBalance DEF StartJob
  <2>2. CASE JobStep(t)
    BY <1>1, <2>2, RefreshStepBalance, KernelStepBalance, ScanStepBalance, CancelStepBalance
    DEF JobStep
  <2>3. CASE NodeFailure(t)
    BY <1>1, <2>3, NodeFailureBalance
  <2> QED
    BY <1>4, <2>1, <2>2, <2>3 DEF ThreadStep
<1>5. CASE ChainStep
  BY <1>1, <1>5, ChainStepBalance
<1>6. CASE Crash
  <2>1. UNCHANGED <<chain, reorgs, db>> /\ Restart
    BY <1>6 DEF Crash, world
  <2> QED
    BY <1>1, <2>1, BalanceFacts, CallBalanceInv DEF BalanceKept
<1> QED
  BY <1>2, <1>3, <1>4, <1>5, <1>6 DEF Next

(* The wallet starts in balance: its unspent outputs are the chain's.      *)
LEMMA InitBalance ==
    ASSUME Init
    PROVE  BalanceInv
<1>1. \A t \in Threads : th[t] = Idle
  BY DEF Init
<1>2. ~Refreshing(Idle)
  BY DEF Refreshing, Idle
<1>3. ASSUME NEW x \in Slot
      PROVE  StatusTrue(x[1], InitDB.outs[x], EverMined, Consumed)
  <2>1. CASE x \in Genesis \X {TRUE}
    <3>1. InitDB.outs[x].status = "Unspent" /\ x[1] \in EverMined
      BY <2>1 DEF InitDB, EverMined
    <3> QED
      BY <3>1 DEF StatusTrue
  <2>2. CASE x \notin Genesis \X {TRUE}
    <3>1. InitDB.outs[x] = NoOutput
      BY <2>2 DEF InitDB
    <3> QED
      BY <3>1, OffChainTrue DEF NoOutput
  <2> QED
    BY <2>1, <2>2
<1>4. \A s \in Slates : KeysOf(InitDB.ctxs[s].ins) \subseteq EverMined
  BY DEF InitDB, NoContext, KeysOf
<1>5. Balanced(db, EverMined, Consumed)
  BY <1>3, <1>4 DEF Init, Balanced
<1> QED
  BY <1>1, <1>2, <1>5, InitInv, IdleHeard DEF BalanceInv

(* As long as the chain loses no block and unconfirmed outputs are not     *)
(* spent, what the wallet counts as spent cannot be spent, and what it     *)
(* counts as unspent, locked or spent has been mined (refresh_output_state,*)
(* scan, cancel_tx), for any number of accounts, slates and threads and    *)
(* with crashes, late locking and failing nodes.                           *)
THEOREM BalanceHolds == ~ZeroConf => (Spec => []BalanceOK)
<1> SUFFICES ASSUME ~ZeroConf PROVE Spec => []BalanceOK
  OBVIOUS
<1>1. Init => BalanceInv
  BY InitBalance
<1>2. BalanceInv /\ [Next]_vars => BalanceInv'
  BY NextBalance
<1>3. BalanceInv => BalanceOK
  <2> SUFFICES ASSUME BalanceInv, reorgs = 0, NEW x \in Slot
               PROVE  /\ db.outs[x].status = "Spent" => x[1] \notin Utxo
                      /\ db.outs[x].status \in {"Unspent", "Locked", "Spent"} => x[1] \in EverMined
    BY DEF BalanceOK
  <2>1. StatusTrue(x[1], db.outs[x], EverMined, Consumed)
    BY BalanceFacts DEF Balanced
  <2>2. Consumed \cap Utxo = {}
    BY DEF Consumed, Utxo
  <2> QED
    BY <2>1, <2>2 DEF StatusTrue, OnChainStatus
<1> QED
  BY <1>1, <1>2, <1>3, PTL DEF Spec

-----------------------------------------------------------------------------
(* Confirmation: what stays true                                           *)

(* A home is not lost by what happens in one step.                         *)
HomesStay(d, T, e, U) ==
    \A k, s : s \in Slates /\ Home(d, T, k, s) => Home(e, U, k, s)

(* A record or a copy of one stays sound when the entry it names is kept.  *)
LEMMA RecordStays ==
    ASSUME NEW d \in WalletDB, NEW e, NEW T, NEW U, T \subseteq U, HomesStay(d, T, e, U),
           Kept(d, e), NEW k, NEW o, NEW yet, RecordSound(d, T, k, o, yet),
           o.tx # -1 => <<o.root, o.tx>> \in Written(d)
    PROVE  RecordSound(e, U, k, o, yet)
<1> DEFINE f == OwnerOf(d, o)
           g == OwnerOf(e, o)
<1>1. o.cb > 0 => CoinKey(U, k)
  BY DEF RecordSound, CoinKey
<1>2. ASSUME o.cb = 0, o.tx # -1, g.slate # NoSlate, Incoming(g) \/ o.status \in yet
      PROVE  Home(e, U, k, g.slate)
  <2>1. <<o.root, o.tx>> \in Written(d)
    BY <1>2
  <2>2. f.slate = g.slate /\ f.debit = g.debit /\ f.credit = g.credit
    BY <2>1 DEF Kept, SameEntry, OwnerOf
  <2>3. f \in TxLogEntry
    BY <2>1, EntryTyped DEF Written, OwnerOf
  <2>4. f.slate \in Slates
    BY <1>2, <2>2, <2>3 DEF TxLogEntry
  <2> HIDE DEF f, g
  <2>5. Incoming(f) \/ o.status \in yet
    BY <1>2, <2>2 DEF Incoming
  <2>6. Home(d, T, k, f.slate)
    <3>1. f.slate # NoSlate
      BY <1>2, <2>2
    <3> QED
      BY <1>2, <2>5, <3>1 DEF RecordSound, f
  <2> QED
    BY <2>2, <2>4, <2>6 DEF HomesStay
<1> HIDE DEF g
<1>3. RecordSound(e, U, k, o, yet)
  BY <1>1, <1>2 DEF RecordSound, g
<1> QED
  BY <1>3

(* An entry stays sound when more is mined.                                *)
LEMMA EntryStays ==
    ASSUME NEW C, NEW D, C \subseteq D, NEW e, EntrySound(e, C)
    PROVE  EntrySound(e, D)
  BY DEF EntrySound

(* A context stays sound.                                                  *)
LEMMA ContextStays ==
    ASSUME NEW d, NEW e, NEW T, NEW U, HomesStay(d, T, e, U), NEW s \in Slates,
           ContextSound(d, T, s), e.ctxs[s] = d.ctxs[s]
    PROVE  ContextSound(e, U, s)
  BY DEF ContextSound, HomesStay

(* The database stays sound when what is written to it is sound.           *)
LEMMA DbStays ==
    ASSUME NEW d, GoodLog(d), NEW e, NEW T, NEW U, T \subseteq U, HomesStay(d, T, e, U),
           NEW C, NEW D, C \subseteq D, DbSound(d, T, C), Kept(d, e),
           \A p \in Written(e) : \/ p \in Written(d) /\ Entry(e, p) = Entry(d, p)
                                 \/ EntrySound(Entry(e, p), D),
           \A x \in Slot : \/ e.outs[x] = d.outs[x]
                           \/ RecordSound(e, U, x[1], e.outs[x], Yet),
           \A s \in Slates : e.ctxs[s] = d.ctxs[s] \/ ContextSound(e, U, s)
    PROVE  DbSound(e, U, D)
<1>1. \A p \in Written(e) : EntrySound(Entry(e, p), D)
  BY EntryStays DEF DbSound
<1>2. ASSUME NEW x \in Slot
      PROVE  RecordSound(e, U, x[1], e.outs[x], Yet)
  <2>1. CASE e.outs[x] = d.outs[x]
    <3>1. /\ RecordSound(d, T, x[1], d.outs[x], Yet)
          /\ d.outs[x].tx # -1 => <<d.outs[x].root, d.outs[x].tx>> \in Written(d)
      BY DEF DbSound, GoodLog, LogOK
    <3>2. RecordSound(e, U, x[1], d.outs[x], Yet)
      BY <3>1, RecordStays DEF GoodLog
    <3> QED
      BY <2>1, <3>2
  <2>2. CASE e.outs[x] # d.outs[x]
    BY <2>2
  <2> QED
    BY <2>1, <2>2
<1>3. \A s \in Slates : ContextSound(e, U, s)
  BY ContextStays DEF DbSound
<1> QED
  BY <1>1, <1>2, <1>3 DEF DbSound

(* What a thread remembers stays sound.                                    *)
LEMMA ThreadStays ==
    ASSUME NEW d \in WalletDB, NEW e, NEW T, NEW U, T \subseteq U, HomesStay(d, T, e, U),
           NEW C, NEW D, C \subseteq D, Kept(d, e),
           NEW r, ThreadLog(d, r), ThreadSound(d, r, T, C)
    PROVE  ThreadSound(e, r, U, D)
<1>1. \A f \in r.txs \cup r.todo : EntrySound(f, D)
  BY EntryStays DEF ThreadSound
<1>2. \A x \in Slot : RecordSound(e, U, x[1], r.outs[x], {})
  <2> TAKE x \in Slot
  <2>1. /\ RecordSound(d, T, x[1], r.outs[x], {})
        /\ r.outs[x].tx # -1 => <<r.outs[x].root, r.outs[x].tx>> \in Written(d)
    BY DEF ThreadSound, ThreadLog
  <2> QED
    BY <2>1, RecordStays
<1>3. Seen(U, D, r.api)
  BY DEF ThreadSound, Seen
<1>4. r.pc \in {"kernel", "confirm"} => \A f \in r.todo : f.kern # NoKern
  BY DEF ThreadSound
<1> QED
  BY <1>1, <1>2, <1>3, <1>4 DEF ThreadSound

(* Homes do not depend on records and entries; deriving keys and dropping  *)
(* contexts keep them.                                                     *)
LEMMA HomesKept ==
    ASSUME NEW d \in WalletDB, NEW e \in WalletDB, NEW T,
           \A a \in Acct : d.nextChild[a] <= e.nextChild[a],
           \A s \in Slates : e.ctxs[s].outs \subseteq d.ctxs[s].outs
    PROVE  HomesStay(d, T, e, T)
<1> SUFFICES ASSUME NEW k, NEW s \in Slates, Home(d, T, k, s)
             PROVE  Home(e, T, k, s)
  BY DEF HomesStay
<1>1. k \in Key /\ k[1] \in Acct /\ k[2] \in Int
  BY DEF Home, Key
<1>2. d.nextChild[k[1]] \in Int /\ e.nextChild[k[1]] \in Int
  BY <1>1 DEF WalletDB
<1>3. k[2] < e.nextChild[k[1]]
  BY <1>1, <1>2 DEF Home
<1> QED
  BY <1>3 DEF Home

(* The same, when neither changes.                                         *)
LEMMA HomesSame ==
    ASSUME NEW d \in WalletDB, NEW e, NEW T, e.nextChild = d.nextChild, e.ctxs = d.ctxs
    PROVE  HomesStay(d, T, e, T)
  BY DEF HomesStay, Home

(* A signed transaction keeps the homes of its own slate's keys and of     *)
(* those it does not pay to.                                               *)
LEMMA HomesSigned ==
    ASSUME NEW d, NEW T, NEW tx,
           \A k \in tx.outs : \A s \in Slates : Home(d, T, k, s) => tx.kern[1] = s
    PROVE  HomesStay(d, T, d, T \cup {tx})
  BY DEF HomesStay, Home

(* So a signed transaction keeps the database sound.                       *)
LEMMA SignedSound ==
    ASSUME NEW d, GoodLog(d), NEW T, NEW C, DbSound(d, T, C), NEW tx,
           \A k \in tx.outs : \A s \in Slates : Home(d, T, k, s) => tx.kern[1] = s
    PROVE  DbSound(d, T \cup {tx}, C)
<1>1. HomesStay(d, T, d, T \cup {tx})
  BY HomesSigned
<1>2. Kept(d, d)
  BY QuietSelf, QuietFacts
<1> QED
  BY <1>1, <1>2, DbStays DEF DbSound


-----------------------------------------------------------------------------
(* Confirmation: the database operators                                    *)

(* e is sound and what d knows stays true in it, when U are the signed     *)
(* transactions and C the slates in the chain.                             *)
SoundChange(d, e, U, C) ==
    /\ GoodLog(e) /\ Kept(d, e)
    /\ HomesStay(d, U, e, U)
    /\ DbSound(e, U, C)

(* Sound changes compose.                                                  *)
LEMMA SoundThen ==
    ASSUME NEW U, NEW C, NEW d, NEW e, NEW f, SoundChange(d, e, U, C), SoundChange(e, f, U, C)
    PROVE  SoundChange(d, f, U, C)
<1>1. Kept(d, f)
  BY DEF SoundChange, Kept, SameEntry
<1>2. HomesStay(d, U, f, U)
  BY DEF SoundChange, HomesStay
<1> QED
  BY <1>1, <1>2 DEF SoundChange

(* No change is a sound change.                                            *)
LEMMA SoundSelf ==
    ASSUME NEW U, NEW C, NEW d, GoodLog(d), DbSound(d, U, C)
    PROVE  SoundChange(d, d, U, C)
<1>1. Kept(d, d)
  BY QuietSelf, QuietFacts
<1> QED
  BY <1>1 DEF SoundChange, HomesStay

(* A record with another status is sound if it does not become one that is *)
(* yet to be seen.                                                         *)
LEMMA RestatedSound ==
    ASSUME NEW d, NEW T, NEW k, NEW o, NEW yet, RecordSound(d, T, k, o, yet),
           NEW p, p.root = o.root, p.tx = o.tx, p.cb = o.cb, NEW more,
           p.status \in more => o.status \in yet
    PROVE  RecordSound(d, T, k, p, more)
  BY DEF RecordSound, OwnerOf

(* No record is a sound record.                                            *)
LEMMA NoOutputSound == \A d, T, k, yet : RecordSound(d, T, k, NoOutput, yet)
  BY DEF RecordSound, NoOutput

(* A change is sound if what it writes is, whether this is clear before or *)
(* after it.                                                               *)
LEMMA SoundWrite ==
    ASSUME NEW U, NEW C, NEW d, GoodLog(d), DbSound(d, U, C), NEW e, GoodLog(e), Kept(d, e),
           HomesStay(d, U, e, U),
           \A p \in Written(e) : \/ p \in Written(d) /\ Entry(e, p) = Entry(d, p)
                                 \/ EntrySound(Entry(e, p), C),
           \A x \in Slot : LET o == e.outs[x] IN
                \/ o = d.outs[x]
                \/ o = NoOutput
                \/ RecordSound(e, U, x[1], o, Yet)
                \/ /\ RecordSound(d, U, x[1], o, Yet)
                   /\ o.tx # -1 => <<o.root, o.tx>> \in Written(d),
           \A s \in Slates : e.ctxs[s] = d.ctxs[s] \/ ContextSound(e, U, s)
    PROVE  SoundChange(d, e, U, C)
<1>1. ASSUME NEW x \in Slot
      PROVE  e.outs[x] = d.outs[x] \/ RecordSound(e, U, x[1], e.outs[x], Yet)
  <2> DEFINE o == e.outs[x]
  <2>1. CASE /\ RecordSound(d, U, x[1], o, Yet)
             /\ o.tx # -1 => <<o.root, o.tx>> \in Written(d)
    BY <2>1, RecordStays DEF GoodLog
  <2>2. CASE o = NoOutput
    BY <2>2, NoOutputSound
  <2> QED
    BY <2>1, <2>2
<1>2. DbSound(e, U, C)
  BY <1>1, DbStays
<1> QED
  BY <1>2 DEF SoundChange

(* A key that has not been derived yet.                                    *)
Drawn(d, k) == k \in Key /\ ~(k[2] < d.nextChild[k[1]])

(* A drawn key is at home with the slate it is drawn for.                  *)
LEMMA DrawnHome ==
    ASSUME NEW d, Derived(d, Genesis), GoodDb(d), NEW e, NEW k, Drawn(d, k),
           k[2] < e.nextChild[k[1]], NEW s \in Slates, NEW U,
           \A tx \in U : k \in tx.outs => tx.kern[1] = s,
           \A u \in Slates \ {s} : e.ctxs[u].outs = d.ctxs[u].outs
    PROVE  Home(e, U, k, s)
  BY DEF Home, Drawn, Derived, GoodDb, ContextsDerived

(* No transaction signed so far pays to a drawn key.                       *)
LEMMA DrawnUnsigned ==
    ASSUME NEW d, NEW T, TxsDerived(d, T), NEW k, Drawn(d, k)
    PROVE  \A tx \in T : k \notin tx.outs
  BY DEF TxsDerived, Derived, Drawn

(* Keys are drawn for a slate: a context and an output may be written.     *)
LEMMA DrawnSound ==
    ASSUME NEW U, NEW C, NEW d, GoodLog(d), GoodDb(d), Derived(d, Genesis), DbSound(d, U, C),
           NEW e, GoodLog(e), Kept(d, e), Grows(d, e), NEW s \in Slates, NEW K,
           \A k \in K : /\ Drawn(d, k) /\ k[2] < e.nextChild[k[1]]
                        /\ \A tx \in U : k \in tx.outs => tx.kern[1] = s,
           \A p \in Written(e) : \/ p \in Written(d) /\ Entry(e, p) = Entry(d, p)
                                 \/ EntrySound(Entry(e, p), C),
           \A x \in Slot : LET o == e.outs[x] IN
                \/ o = d.outs[x]
                \/ x[1] \in K /\ o.cb = 0 /\ OwnerOf(e, o).slate = s,
           \A u \in Slates \ {s} : e.ctxs[u] = d.ctxs[u],
           LET c == e.ctxs[s] IN
                \/ c = d.ctxs[s]
                \/ /\ c.outs \subseteq K
                   /\ c.kern # NoKern => c.kern[1] = s
    PROVE  SoundChange(d, e, U, C)
<1>1. \A k \in K : Home(e, U, k, s)
  BY DrawnHome
<1>2. HomesStay(d, U, e, U)
  <2> SUFFICES ASSUME NEW k, NEW u \in Slates, Home(d, U, k, u)
               PROVE  Home(e, U, k, u)
    BY DEF HomesStay
  <2>1. k \in Key /\ k[1] \in Acct /\ k[2] \in Int /\ k[2] < d.nextChild[k[1]]
    BY DEF Home, Key
  <2>2. d.nextChild[k[1]] \in Int /\ e.nextChild[k[1]] \in Int
    BY <2>1 DEF GoodLog, WalletDB
  <2>3. k[2] < e.nextChild[k[1]]
    BY <2>1, <2>2 DEF Grows
  <2>4. k \notin K
    BY <2>1 DEF Drawn
  <2>5. \A v \in Slates \ {u} : k \notin e.ctxs[v].outs
    BY <2>4 DEF Home
  <2> QED
    BY <2>3, <2>5 DEF Home
<1>3. \A x \in Slot : e.outs[x] = d.outs[x] \/ RecordSound(e, U, x[1], e.outs[x], Yet)
  BY <1>1 DEF RecordSound
<1>4. \A u \in Slates : e.ctxs[u] = d.ctxs[u] \/ ContextSound(e, U, u)
  BY <1>1 DEF ContextSound
<1> QED
  BY <1>2, <1>3, <1>4, SoundWrite

(* Keys are drawn.                                                         *)
LEMMA NextChildSound ==
    ASSUME NEW U, NEW C, NEW d, GoodLog(d), DbSound(d, U, C), NEW a \in Acct,
           NEW n \in Nat, HasChildren(d, a, n)
    PROVE  SoundChange(d, next_child(d, a, n), U, C)
<1> DEFINE e == next_child(d, a, n)
<1>1. QuietChange(d, e)
  BY NextChildLog
<1>2. GoodLog(e) /\ Kept(d, e) /\ e \in WalletDB
  BY <1>1, QuietFacts DEF QuietChange, GoodLog
<1>3. /\ e.txlog = d.txlog /\ e.outs = d.outs /\ e.ctxs = d.ctxs
      /\ \A b \in Acct : e.nextChild[b] = IF b = a THEN d.nextChild[a] + n ELSE d.nextChild[b]
      /\ \A b \in Acct : d.nextChild[b] \in Nat
  BY DEF next_child, GoodLog, WalletDB
<1> HIDE DEF e
<1>4. HomesStay(d, U, e, U)
  <2>1. \A b \in Acct : d.nextChild[b] <= e.nextChild[b]
    BY <1>3
  <2> QED
    BY <1>2, <1>3, <2>1, HomesKept DEF GoodLog
<1>5. Written(e) = Written(d) /\ \A p : Entry(e, p) = Entry(d, p)
  BY <1>3 DEF Written, Entry
<1>6. SoundChange(d, e, U, C)
  BY <1>2, <1>3, <1>4, <1>5, SoundWrite
<1> QED
  BY <1>6 DEF e

(* A record is saved.                                                      *)
LEMMA SaveOutputSound ==
    ASSUME NEW U, NEW C, NEW d, GoodLog(d), DbSound(d, U, C), NEW x \in Slot,
           NEW o \in OutputData, RecordSound(d, U, x[1], o, Yet),
           o.tx = -1 \/ <<o.root, o.tx>> \in Written(d)
    PROVE  SoundChange(d, SaveOutput(d, x, o), U, C)
<1> DEFINE e == SaveOutput(d, x, o)
<1>1. QuietChange(d, e)
  BY SaveOutputLog
<1>2. GoodLog(e) /\ Kept(d, e)
  BY <1>1, QuietFacts
<1>3. /\ e.txlog = d.txlog /\ e.nextChild = d.nextChild /\ e.ctxs = d.ctxs
      /\ \A y \in Slot : e.outs[y] = IF y = x THEN o ELSE d.outs[y]
  BY DEF SaveOutput, GoodLog, WalletDB
<1> HIDE DEF e
<1>4. HomesStay(d, U, e, U)
  BY <1>3, HomesSame DEF GoodLog
<1>5. Written(e) = Written(d) /\ \A p : Entry(e, p) = Entry(d, p)
  BY <1>3 DEF Written, Entry
<1>6. SoundChange(d, e, U, C)
  BY <1>2, <1>3, <1>4, <1>5, SoundWrite
<1> QED
  BY <1>6 DEF e

(* A sound entry is saved.                                                 *)
LEMMA SaveEntrySound ==
    ASSUME NEW U, NEW C, NEW d, GoodLog(d), DbSound(d, U, C), NEW a \in Acct,
           NEW f \in TxLogEntry, f.type # "None", EntrySound(f, C),
           GoodLog(SaveEntry(d, a, f)), Kept(d, SaveEntry(d, a, f))
    PROVE  SoundChange(d, SaveEntry(d, a, f), U, C)
<1> DEFINE e == SaveEntry(d, a, f)
<1>1. /\ e.outs = d.outs /\ Entry(e, <<a, f.id>>) = f
      /\ \A q \in Pos : q # <<a, f.id>> => Entry(e, q) = Entry(d, q)
      /\ Written(e) = Written(d) \cup {<<a, f.id>>}
  BY SaveEffect DEF GoodLog
<1>2. e.nextChild = d.nextChild /\ e.ctxs = d.ctxs
  BY DEF SaveEntry, GoodLog, WalletDB
<1> HIDE DEF e
<1>3. HomesStay(d, U, e, U)
  BY <1>2, HomesSame DEF GoodLog
<1>4. \A p \in Written(e) : \/ p \in Written(d) /\ Entry(e, p) = Entry(d, p)
                            \/ EntrySound(Entry(e, p), C)
  <2> TAKE p \in Written(e)
  <2>1. CASE p = <<a, f.id>>
    BY <1>1, <2>1
  <2>2. CASE p # <<a, f.id>>
    <3>1. p \in Pos
      BY DEF Written
    <3> QED
      BY <1>1, <2>2, <3>1
  <2> QED
    BY <2>1, <2>2
<1>5. GoodLog(e) /\ Kept(d, e)
  BY DEF e
<1>6. SoundChange(d, e, U, C)
  BY <1>1, <1>2, <1>3, <1>4, <1>5, SoundWrite
<1> QED
  BY <1>6 DEF e

(* update_tx_slate_state saves an entry as it is: in a wallet with one     *)
(* account nothing changes.                                                *)
LEMMA SlateStateSame ==
    ASSUME OneAccount, NEW d, GoodLog(d), NEW a \in Acct, NEW s, TxsWithSlate(d, s) # {}
    PROVE  update_tx_slate_state(d, a, s) = d
<1> DEFINE P == TxsWithSlate(d, s)
           p == First(P)
           f == Entry(d, p)
<1>1. P \subseteq Pos /\ P \subseteq Written(d)
  BY DEF TxsWithSlate, Written
<1>2. p \in Written(d) /\ p \in Pos
  BY <1>1, FirstIn
<1>3. a = p[1] /\ f.id = p[2] /\ p[2] \in Ids /\ f = d.txlog[a][p[2]]
  BY <1>2, Places, OnlyAccount DEF GoodLog, LogOK
<1>4. update_tx_slate_state(d, a, s) = SaveEntry(d, a, f)
  BY DEF update_tx_slate_state
<1> HIDE DEF f, p
<1>5. SaveEntry(d, a, f) = [d EXCEPT !.txlog[a][f.id] = f]
  BY DEF SaveEntry
<1>6. [d EXCEPT !.txlog[a][f.id] = f] = d
  BY <1>3 DEF GoodLog, WalletDB
<1> QED
  BY <1>4, <1>5, <1>6

(* Locking: the change is at home with the slate.                          *)
LEMMA LockSound ==
    ASSUME OneAccount, NEW U, NEW C, NEW d, GoodLog(d), DbSound(d, U, C), NEW s \in Slates,
           HasIds(d, d.ctxs[s].acct, 1)
    PROVE  SoundChange(d, lock_tx_context(d, s), U, C)
<1> DEFINE e == lock_tx_context(d, s)
           c == d.ctxs[s]
           i == d.nextTx[c.acct]
           f == SentEntry(d, s)
           p == <<c.acct, i>>
<1>0. d \in WalletDB /\ c \in Context /\ c.acct \in Acct
  BY DEF GoodLog, WalletDB, Context
<1>1. GoodLog(e) /\ Kept(d, e)
  BY LockLog, QuietFacts
<1>2. i \in Ids
  BY <1>0, SizesAssumption DEF WalletDB, HasIds, Ids
<1>3. /\ f \in TxLogEntry /\ f.type = "TxSent" /\ f.id = i /\ f.slate = s
      /\ f.kern = c.kern /\ ~f.confirmed /\ f.debit = (c.ins # {})
  BY <1>0, <1>2 DEF SentEntry, TxLogEntry, TxLogEntryType, Context
<1> HIDE DEF f
<1>4. /\ e.txlog = SaveEntry(d, c.acct, f).txlog
      /\ e.outs = LockedOutputs(d, s) /\ e.ctxs = d.ctxs /\ e.nextChild = d.nextChild
  <2>1. e = [SaveEntry(d, c.acct, f) EXCEPT !.outs = LockedOutputs(d, s),
                                            !.nextTx[c.acct] = @ + 1]
    BY DEF lock_tx_context, f
  <2>2. SaveEntry(d, c.acct, f) \in WalletDB
    BY <1>0, <1>3, SaveEntryType
  <2>3. SaveEntry(d, c.acct, f).ctxs = d.ctxs /\ SaveEntry(d, c.acct, f).nextChild = d.nextChild
    BY <1>0 DEF SaveEntry, WalletDB
  <2> QED
    BY <2>1, <2>2, <2>3 DEF WalletDB
<1>5. /\ Entry(e, p) = f
      /\ \A q \in Written(e) : q = p \/ (q \in Written(d) /\ Entry(e, q) = Entry(d, q))
  <2> DEFINE g == SaveEntry(d, c.acct, f)
  <2>1. /\ Entry(g, p) = f
        /\ \A q \in Pos : q # p => Entry(g, q) = Entry(d, q)
        /\ Written(g) = Written(d) \cup {p}
    BY <1>0, <1>3, SaveEffect
  <2>2. Written(e) = Written(g) /\ \A q : Entry(e, q) = Entry(g, q)
    BY <1>4 DEF Written, Entry
  <2>3. Written(d) \subseteq Pos
    BY DEF Written
  <2> HIDE DEF g, p, e
  <2> QED
    BY <2>1, <2>2, <2>3
<1>6. EntrySound(f, C)
  BY <1>3 DEF EntrySound, DbSound, ContextSound
<1>7. HomesStay(d, U, e, U)
  BY <1>0, <1>4, HomesSame
<1>8. ASSUME NEW x \in Slot
      PROVE  e.outs[x] = d.outs[x] \/ RecordSound(e, U, x[1], e.outs[x], Yet)
  <2> DEFINE o == e.outs[x]
             was == d.outs[x]
  <2>1. CASE x \in c.outs \X {FALSE}
    <3>1. o = [root |-> c.acct, status |-> "Unconfirmed", tx |-> i, cb |-> 0]
      BY <1>4, <2>1 DEF LockedOutputs
    <3>2. o.cb = 0 /\ OwnerOf(e, o) = f
      BY <1>5, <3>1 DEF OwnerOf
    <3>3. Home(d, U, x[1], s)
      BY <2>1 DEF DbSound, ContextSound
    <3>4. Home(e, U, x[1], s)
      BY <1>7, <3>3 DEF HomesStay
    <3> HIDE DEF o
    <3>5. RecordSound(e, U, x[1], o, Yet)
      BY <1>3, <3>2, <3>4 DEF RecordSound
    <3> QED
      BY <3>5 DEF o
  <2>2. CASE x \notin c.outs \X {FALSE} /\ x \in c.ins
    <3>0. was \in OutputData /\ was.root \in Acct
      BY <1>0 DEF WalletDB, OutputData
    <3>1. o = [was EXCEPT !.status = "Locked", !.tx = i]
      BY <1>4, <2>2 DEF LockedOutputs
    <3>2. was.root = c.acct
      BY <1>0, <3>0, OnlyAccount
    <3> HIDE DEF was
    <3>3. o.cb = was.cb /\ o.status = "Locked" /\ o.root = c.acct /\ o.tx = i
      BY <3>0, <3>1, <3>2 DEF OutputData
    <3> HIDE DEF o
    <3>4. OwnerOf(e, o) = f
      BY <1>5, <3>3 DEF OwnerOf
    <3>5. f.debit
      BY <1>3, <2>2
    <3>6. was.cb > 0 => CoinKey(U, x[1])
      BY DEF DbSound, RecordSound, was
    <3>7. RecordSound(e, U, x[1], o, Yet)
      BY <3>3, <3>4, <3>5, <3>6 DEF RecordSound, Incoming, Yet
    <3> QED
      BY <3>7 DEF o
  <2>3. CASE x \notin c.outs \X {FALSE} /\ x \notin c.ins
    BY <1>4, <2>3 DEF LockedOutputs
  <2> QED
    BY <2>1, <2>2, <2>3
<1> HIDE DEF e
<1>9. SoundChange(d, e, U, C)
  BY <1>1, <1>4, <1>5, <1>6, <1>7, <1>8, SoundWrite
<1> QED
  BY <1>9 DEF e

(* An entry that is marked as cancelled stays sound.                       *)
LEMMA CancelledSound ==
    ASSUME NEW C, NEW e \in TxLogEntry, EntrySound(e, C), NEW y,
           y = e.type \/ y = "TxSentCancelled" \/
               (y = "TxReceivedCancelled" /\ e.type \in Received)
    PROVE  EntrySound([e EXCEPT !.type = y], C)
<1> DEFINE f == [e EXCEPT !.type = y]
<1>1. /\ f.type = y /\ f.slate = e.slate /\ f.kern = e.kern /\ f.confirmed = e.confirmed
      /\ f.debit = e.debit /\ f.credit = e.credit
  BY DEF TxLogEntry
<1> HIDE DEF f
<1>2. EntrySound(f, C)
  BY <1>1 DEF EntrySound, Incoming, Received
<1> QED
  BY <1>2 DEF f

(* Cancelling deletes records or makes locked ones unspent.                *)
LEMMA CancelSound ==
    ASSUME OneAccount, NEW U, NEW C, NEW d, GoodLog(d), DbSound(d, U, C), NEW a \in Acct,
           NEW P, P \subseteq Written(d), P # {}
    PROVE  SoundChange(d, cancel_tx_and_outputs(d, a, P), U, C)
<1> DEFINE e == cancel_tx_and_outputs(d, a, P)
           p == First(P)
           old == Entry(d, p)
           f == [old EXCEPT !.type = CancelledType(old.type)]
           g == SaveEntry(d, a, f)
           outs == FreedOutputs(d, a, old.id)
<1>1. P \subseteq Pos
  BY DEF Written
<1>2. p \in Written(d) /\ p \in Pos
  BY <1>1, FirstIn
<1>3. GoodLog(e) /\ Kept(d, e)
  BY CancelLog
<1>4. old \in TxLogEntry /\ old.id = p[2] /\ p = <<a, p[2]>> /\ old.type # "None"
  BY <1>2, Places, OnlyAccount DEF GoodLog, LogOK, Written
<1>5. EntrySound(old, C)
  BY <1>2 DEF DbSound
<1>6. e = [g EXCEPT !.outs = outs]
  BY DEF cancel_tx_and_outputs
<1> HIDE DEF p, old
<1>7. EntrySound(f, C)
  BY <1>4, <1>5, CancelledSound DEF CancelledType, Received
<1>8. f \in TxLogEntry /\ f.id = p[2] /\ f.type # "None"
  BY <1>4 DEF TxLogEntry, TxLogEntryType, CancelledType
<1> HIDE DEF f
<1>9. /\ Entry(g, p) = f /\ \A q \in Pos : q # p => Entry(g, q) = Entry(d, q)
      /\ Written(g) = Written(d) \cup {p} /\ g \in WalletDB
  BY <1>4, <1>8, SaveEffect DEF GoodLog
<1>10. g.ctxs = d.ctxs /\ g.nextChild = d.nextChild
  BY DEF SaveEntry, GoodLog, WalletDB
<1> HIDE DEF g, outs, e
<1>11. /\ e.txlog = g.txlog /\ e.outs = outs /\ e.ctxs = d.ctxs
       /\ e.nextChild = d.nextChild
  BY <1>6, <1>9, <1>10 DEF WalletDB
<1>12. \A q \in Written(e) : \/ q \in Written(d) /\ Entry(e, q) = Entry(d, q)
                             \/ EntrySound(Entry(e, q), C)
  <2>1. Written(e) = Written(g) /\ \A q : Entry(e, q) = Entry(g, q)
    BY <1>11 DEF Written, Entry
  <2>2. Written(d) \subseteq Pos
    BY DEF Written
  <2> QED
    BY <1>7, <1>9, <2>1, <2>2
<1>13. HomesStay(d, U, e, U)
  BY <1>11, HomesSame DEF GoodLog
<1>14. ASSUME NEW x \in Slot
       PROVE  LET o == e.outs[x] IN
                \/ o = d.outs[x]
                \/ o = NoOutput
                \/ /\ RecordSound(d, U, x[1], o, Yet)
                   /\ o.tx # -1 => <<o.root, o.tx>> \in Written(d)
  <2> DEFINE was == d.outs[x]
             o == e.outs[x]
             free == [was EXCEPT !.status = "Unspent"]
  <2>1. was \in OutputData
    BY DEF GoodLog, WalletDB
  <2>2. o = was \/ o = NoOutput \/ o = free
    BY <1>11 DEF outs, FreedOutputs, CancelledOutput
  <2>3. /\ RecordSound(d, U, x[1], was, Yet)
        /\ was.tx # -1 => <<was.root, was.tx>> \in Written(d)
    BY DEF DbSound, GoodLog, LogOK
  <2> HIDE DEF was
  <2>4. /\ free.root = was.root /\ free.tx = was.tx /\ free.cb = was.cb
        /\ free.status = "Unspent"
    BY <2>1 DEF OutputData
  <2> HIDE DEF free
  <2>5. RecordSound(d, U, x[1], free, Yet)
    BY <2>3, <2>4, RestatedSound DEF Yet
  <2> HIDE DEF o
  <2> QED
    BY <2>2, <2>3, <2>4, <2>5 DEF was, o
<1>15. SoundChange(d, e, U, C)
  BY <1>3, <1>11, <1>12, <1>13, <1>14, SoundWrite
<1> QED
  BY <1>15 DEF e

(* A scan's repair marks an entry as cancelled.                            *)
LEMMA CancelLogSound ==
    ASSUME OneAccount, NEW U, NEW C, NEW d, GoodLog(d), DbSound(d, U, C), NEW x \in Slot,
           NEW o
    PROVE  SoundChange(d, cancel_tx_log_entry(d, x, o), U, C)
<1> DEFINE a == x[1][1]
           P == TxsWithId(d, a, o.tx)
           p == First(P)
           old == Entry(d, p)
           y == CASE old.type = "TxSent" -> "TxSentCancelled"
                  [] old.type = "TxReceived" -> "TxReceivedCancelled"
                  [] OTHER -> old.type
           f == [old EXCEPT !.type = y]
           e == cancel_tx_log_entry(d, x, o)
<1>1. a \in Acct /\ P \subseteq Pos /\ P \subseteq Written(d)
  BY DEF Slot, Key, TxsWithId, TxsOf, Written
<1>2. GoodLog(e) /\ Kept(d, e)
  BY CancelLogLog
<1>3. CASE P # {}
  <2>1. p \in Written(d) /\ p \in Pos
    BY <1>1, <1>3, FirstIn
  <2>2. e = SaveEntry(d, a, f)
    BY <1>3 DEF cancel_tx_log_entry
  <2>3. old \in TxLogEntry /\ old.type # "None"
    BY <2>1, EntryTyped DEF Written, GoodLog
  <2>4. EntrySound(old, C)
    BY <2>1 DEF DbSound
  <2> HIDE DEF old, p, P, a
  <2>5. EntrySound(f, C)
    BY <2>3, <2>4, CancelledSound DEF Received
  <2>6. f \in TxLogEntry /\ f.type # "None"
    BY <2>3 DEF TxLogEntry, TxLogEntryType
  <2> HIDE DEF f, e
  <2> QED
    BY <1>1, <1>2, <2>2, <2>5, <2>6, SaveEntrySound DEF e
<1>4. CASE P = {}
  <2>1. e = d
    BY <1>4 DEF cancel_tx_log_entry
  <2> QED
    BY <2>1, SoundSelf
<1> QED
  BY <1>3, <1>4

(* The end of a scan moves child indices up.                               *)
LEMMA ChildIndicesSound ==
    ASSUME NEW U, NEW C, NEW d, GoodLog(d), GoodDb(d), DbSound(d, U, C), NEW K, K \subseteq Key
    PROVE  SoundChange(d, restore_child_indices(d, K), U, C)
<1> DEFINE e == restore_child_indices(d, K)
<1>1. GoodLog(e) /\ Kept(d, e)
  BY ChildIndicesLog, QuietFacts
<1>2. e.txlog = d.txlog /\ e.outs = d.outs /\ e.ctxs = d.ctxs
  BY DEF restore_child_indices, GoodLog, WalletDB
<1>3. Grows(d, e) /\ e \in WalletDB
  BY ChildIndicesKeeps DEF Keeps, GoodDb
<1> HIDE DEF e
<1>4. HomesStay(d, U, e, U)
  BY <1>2, <1>3, HomesKept DEF GoodLog, Grows
<1>5. Written(e) = Written(d) /\ \A p : Entry(e, p) = Entry(d, p)
  BY <1>2 DEF Written, Entry
<1>6. SoundChange(d, e, U, C)
  BY <1>1, <1>2, <1>4, <1>5, SoundWrite
<1> QED
  BY <1>6 DEF e

(* A restored output is a coinbase that was signed as one, or belongs to   *)
(* no slate.                                                               *)
LEMMA RestoreSound ==
    ASSUME OneAccount, NEW U, NEW C, NEW d, GoodLog(d), DbSound(d, U, C), NEW K, K \subseteq Key,
           NEW cb \in [Key -> Nat], RestoreHasIds(d, K),
           \A k \in K : cb[k] > 0 => CoinKey(U, k)
    PROVE  SoundChange(d, restore_missing_outputs(d, K, cb), U, C)
<1> DEFINE e == restore_missing_outputs(d, K, cb)
           new(a, i) == {k \in K : k[1] = a /\ RestoredId(d, K, k) = i}
           f(a, i) == [id |-> i, acct |-> a,
                       type |-> IF cb[CHOOSE k \in new(a, i) : TRUE] > 0
                                THEN "ConfirmedCoinbase" ELSE "TxReceived",
                       slate |-> NoSlate, confirmed |-> TRUE, debit |-> FALSE,
                       credit |-> TRUE, kern |-> NoKern, ttl |-> 0]
<1>0. d \in WalletDB
  BY DEF GoodLog
<1>1. GoodLog(e) /\ Kept(d, e)
  BY RestoreLog, QuietFacts
<1>2. /\ e.outs = RestoredOutputs(d, K, cb)
      /\ \A a \in Acct, i \in Ids :
            e.txlog[a][i] = IF new(a, i) = {} THEN d.txlog[a][i] ELSE f(a, i)
      /\ e.ctxs = d.ctxs /\ e.nextChild = d.nextChild
  BY <1>0 DEF restore_missing_outputs, WalletDB
<1> HIDE DEF e
<1>3. \A a, i : f(a, i).slate = NoSlate /\ EntrySound(f(a, i), C)
  BY DEF EntrySound, Incoming
<1> HIDE DEF f
<1>4. \A p \in Written(e) : \/ p \in Written(d) /\ Entry(e, p) = Entry(d, p)
                            \/ EntrySound(Entry(e, p), C)
  <2> TAKE p \in Written(e)
  <2>1. p[1] \in Acct /\ p[2] \in Ids /\ p \in Pos /\ Entry(e, p).type # "None"
    BY DEF Written, Pos
  <2>2. CASE new(p[1], p[2]) = {}
    <3>1. Entry(e, p) = Entry(d, p)
      BY <1>2, <2>1, <2>2 DEF Entry
    <3> QED
      BY <2>1, <3>1 DEF Written
  <2>3. CASE new(p[1], p[2]) # {}
    <3>1. Entry(e, p) = f(p[1], p[2])
      BY <1>2, <2>1, <2>3 DEF Entry
    <3> QED
      BY <1>3, <3>1
  <2> QED
    BY <2>2, <2>3
<1>5. HomesStay(d, U, e, U)
  BY <1>0, <1>2, HomesSame
<1>6. ASSUME NEW x \in Slot
      PROVE  e.outs[x] = d.outs[x] \/ RecordSound(e, U, x[1], e.outs[x], Yet)
  <2>1. CASE x \in K \X {TRUE}
    <3> DEFINE k == x[1]
               i == RestoredId(d, K, k)
    <3>1. k \in K /\ k[1] \in Acct /\ i \in Ids
      BY <1>0, <2>1, RestoredIdType DEF Key
    <3>2. e.outs[x].root = k[1] /\ e.outs[x].tx = i /\ e.outs[x].cb = cb[k]
      BY <1>2, <2>1 DEF RestoredOutputs
    <3>3. new(k[1], i) # {}
      BY <3>1
    <3>4. e.txlog[k[1]][i] = f(k[1], i)
      BY <1>2, <3>1, <3>3
    <3> HIDE DEF k, i, new
    <3>5. OwnerOf(e, e.outs[x]).slate = NoSlate
      BY <1>3, <3>2, <3>4 DEF OwnerOf, Entry
    <3>6. RecordSound(e, U, k, e.outs[x], Yet)
      BY <3>1, <3>2, <3>5 DEF RecordSound
    <3> QED
      BY <3>6 DEF k
  <2>2. CASE x \notin K \X {TRUE}
    BY <1>2, <2>2 DEF RestoredOutputs
  <2> QED
    BY <2>1, <2>2
<1>7. SoundChange(d, e, U, C)
  BY <1>1, <1>2, <1>4, <1>5, <1>6, SoundWrite
<1> QED
  BY <1>7 DEF e

(* An entry that is completed with the kernel of its slate stays sound.    *)
LEMMA StoredSound ==
    ASSUME OneAccount, NEW U, NEW C, NEW d, GoodLog(d), DbSound(d, U, C), NEW s \in Slates,
           NEW type \in {"TxSent", "TxReceived"}, NEW kern \in Kern, kern[1] = s,
           EntriesToFinish(d, s, type) # {}, active \in Acct
    PROVE  /\ SoundChange(d, Stored(d, s, type, kern), U, C)
           /\ SoundChange(d, Closed(d, s, type, kern), U, C)
           /\ SoundChange(d, Finished(d, s, type, kern), U, C)
<1> DEFINE P == EntriesToFinish(d, s, type)
           p == First(P)
           e == Entry(d, p)
           f == [e EXCEPT !.kern = kern]
           d1 == Stored(d, s, type, kern)
           d2 == Closed(d, s, type, kern)
           d3 == Finished(d, s, type, kern)
<1>0. d \in WalletDB
  BY DEF GoodLog
<1>1. P \subseteq Pos /\ P \subseteq Written(d)
  BY DEF EntriesToFinish, TxsWithSlate, Written
<1>2. p \in P
  BY <1>1, FirstIn
<1>3. e.type = type /\ e.slate = s /\ p \in Written(d) /\ p \in Pos
  BY <1>1, <1>2 DEF EntriesToFinish, TxsWithSlate
<1>4. e \in TxLogEntry /\ e.acct \in Acct /\ p = <<e.acct, e.id>> /\ EntrySound(e, C)
  <2> HIDE DEF p
  <2> QED
    BY <1>0, <1>3, Places, OnlyAccount DEF GoodLog, LogOK, DbSound
<1>5. d1 = SaveEntry(d, e.acct, f)
  BY DEF Stored, update_stored_tx
<1>6. QuietChange(d, d1) /\ QuietChange(d, d2)
  BY StoredLog
<1>7. GoodLog(d1) /\ Kept(d, d1) /\ GoodLog(d2) /\ Kept(d, d2)
  BY <1>6, QuietFacts
<1> HIDE DEF P, p, e
<1>8. /\ f \in TxLogEntry /\ f.type = e.type /\ f.slate = s /\ f.kern = kern
      /\ f.id = e.id
      /\ f.confirmed = e.confirmed /\ f.debit = e.debit /\ f.credit = e.credit
  BY <1>3, <1>4 DEF TxLogEntry
<1> HIDE DEF f
<1>9. EntrySound(f, C) /\ f.type # "None"
  BY <1>3, <1>4, <1>8 DEF EntrySound, Incoming
<1> HIDE DEF d1
<1>10. SoundChange(d, d1, U, C)
  BY <1>4, <1>5, <1>7, <1>8, <1>9, SaveEntrySound
<1>11. d2 = SaveContext(d1, s, NoContext)
  BY DEF Closed, DeleteContext, d1
<1> HIDE DEF d2
<1>12. /\ d2.txlog = d1.txlog /\ d2.outs = d1.outs /\ d2.nextChild = d1.nextChild
       /\ \A u \in Slates : d2.ctxs[u] = IF u = s THEN NoContext ELSE d1.ctxs[u]
  BY <1>7, <1>11 DEF SaveContext, WalletDB, GoodLog
<1>13. SoundChange(d1, d2, U, C)
  <2>1. NoContext.outs = {} /\ NoContext.kern = NoKern
    BY DEF NoContext
  <2>2. HomesStay(d1, U, d2, U)
    <3>1. \A a \in Acct : d1.nextChild[a] <= d2.nextChild[a]
      BY <1>7, <1>12 DEF GoodLog, WalletDB
    <3>2. \A u \in Slates : d2.ctxs[u].outs \subseteq d1.ctxs[u].outs
      BY <1>12, <2>1
    <3> QED
      BY <1>7, <3>1, <3>2, HomesKept DEF GoodLog
  <2>3. \A u \in Slates : d2.ctxs[u] = d1.ctxs[u] \/ ContextSound(d2, U, u)
    BY <1>12, <2>1 DEF ContextSound
  <2>4. Written(d2) = Written(d1) /\ \A q : Entry(d2, q) = Entry(d1, q)
    BY <1>12 DEF Written, Entry
  <2>5. Kept(d1, d2)
    BY <2>4 DEF Kept, SameEntry
  <2>6. DbSound(d1, U, C)
    BY <1>10 DEF SoundChange
  <2> QED
    BY <1>7, <1>12, <2>2, <2>3, <2>4, <2>5, <2>6, SoundWrite
<1>14. SoundChange(d, d2, U, C)
  BY <1>10, <1>13, SoundThen
<1>15. d3 = d2
  <2>1. e.id \in Ids
    BY <1>4 DEF TxLogEntry
  <2>2. d1.txlog[e.acct][e.id] = f
    BY <1>0, <1>4, <1>5, <1>8, <2>1 DEF SaveEntry, WalletDB
  <2>3. Entry(d2, p) = f
    BY <1>4, <1>12, <2>2 DEF Entry
  <2>4. p \in TxsWithSlate(d2, s)
    BY <1>3, <1>8, <1>9, <2>3 DEF TxsWithSlate, Written
  <2>5. d3 = update_tx_slate_state(d2, active, s)
    BY DEF Finished, d2
  <2> QED
    BY <1>7, <2>4, <2>5, SlateStateSame
<1> QED
  BY <1>10, <1>14, <1>15 DEF d1, d2

(* What is seen of a key that is at home with a slate has been mined with  *)
(* that slate.                                                             *)
LEMMA SeenHome ==
    ASSUME NEW d, NEW T, NEW C, NEW K, Seen(T, C, K), NEW k \in K, NEW s, Home(d, T, k, s)
    PROVE  s \in C
  BY DEF Seen, Home

(* An entry a refresh confirms is that of a slate in the chain; one that   *)
(* it reverts was a received payment.                                      *)
LEMMA RefreshedSound ==
    ASSUME OneAccount, NEW U, NEW C, NEW d, GoodLog(d), DbSound(d, U, C), NEW a \in Acct,
           NEW M, M \subseteq Slot, NEW api, Seen(U, C, api), NEW kernels, NEW i \in Ids
    PROVE  LET rev == find_reverted_kernels(d, a, M, api, kernels)
               f == RefreshedEntry(d, a, M, api, rev, i)
           IN  f = d.txlog[a][i] \/ EntrySound(f, C)
<1> DEFINE rev == find_reverted_kernels(d, a, M, api, kernels)
           f == RefreshedEntry(d, a, M, api, rev, i)
           N == NewCoinbases(d, M, api)
           new == {x \in N : CoinbaseId(d, a, M, api, x) = i}
           P == TxsWithId(d, a, i)
           old == d.txlog[a][i]
<1>0. d \in WalletDB
  BY DEF GoodLog
<1>1. CASE new # {}
  <2>1. f = CoinbaseEntry(a, i, (CHOOSE y \in new : TRUE)[1])
    BY <1>1 DEF RefreshedEntry
  <2>2. \A k : EntrySound(CoinbaseEntry(a, i, k), C)
    BY DEF CoinbaseEntry, EntrySound
  <2> QED
    BY <2>1, <2>2
<1>2. CASE new = {} /\ <<a, i>> \in Written(d)
  <2> DEFINE conf == [old EXCEPT !.confirmed = TRUE,
                        !.type = IF @ = "TxReverted" THEN "TxReceived" ELSE @]
             seen == i \in ConfirmedIds(d, a, M, api)
             last == IF seen /\ \A p \in P : p[1] <= a THEN conf ELSE old
             back == [last EXCEPT !.type = "TxReverted", !.confirmed = FALSE]
  <2>1. /\ P = {<<a, i>>}
        /\ Entry(d, First(P)) = old /\ Entry(d, LastOf(P)) = old
    <3>1. P = {<<a, i>>}
      BY <1>2, WithId
    <3> HIDE DEF P
    <3>2. First(P) = <<a, i>> /\ LastOf(P) = <<a, i>>
      BY <3>1, FirstWithId DEF P
    <3> QED
      BY <3>1, <3>2 DEF Entry
  <2>2. old \in TxLogEntry /\ EntrySound(old, C)
    <3>1. Entry(d, <<a, i>>) = old
      BY DEF Entry
    <3> QED
      BY <1>0, <1>2, <3>1 DEF WalletDB, DbSound
  <2>3. i \in rev => old.type = "TxReceived"
    BY <2>1 DEF find_reverted_kernels, Entry
  <2>4. seen /\ old.slate # NoSlate => old.slate \in C
    <3> SUFFICES ASSUME seen, old.slate # NoSlate PROVE old.slate \in C
      OBVIOUS
    <3>1. PICK x \in M : /\ d.outs[x].tx = i /\ d.outs[x].cb = 0
                         /\ d.outs[x].status \in {"Unconfirmed", "Reverted"}
                         /\ x[1] \in api
      BY DEF ConfirmedIds
    <3>2. d.outs[x].root = a /\ x \in Slot /\ i # -1
      BY <1>0, OnlyAccount DEF WalletDB, OutputData, Ids
    <3>3. OwnerOf(d, d.outs[x]) = old
      BY <3>1, <3>2 DEF OwnerOf, Entry
    <3>4. RecordSound(d, U, x[1], d.outs[x], Yet)
      BY <3>2 DEF DbSound
    <3> HIDE DEF old
    <3>5. Home(d, U, x[1], old.slate)
      BY <3>1, <3>2, <3>3, <3>4 DEF RecordSound, Yet
    <3> QED
      BY <3>1, <3>5, SeenHome
  <2>5. \/ i \in rev /\ f = back
        \/ f = conf /\ seen
        \/ f = old
    BY <1>2, <2>1 DEF RefreshedEntry
  <2> HIDE DEF old, rev, f, P, seen
  <2>6. /\ conf \in TxLogEntry /\ conf.confirmed /\ conf.kern = old.kern
        /\ SameEntry(old, conf)
        /\ conf.type = IF old.type = "TxReverted" THEN "TxReceived" ELSE old.type
    BY <2>2 DEF TxLogEntry, TxLogEntryType, SameEntry
  <2> HIDE DEF conf
  <2>7. /\ last \in TxLogEntry /\ SameEntry(old, last) /\ last.kern = old.kern
    BY <2>2, <2>6 DEF SameEntry
  <2> HIDE DEF last
  <2>8. /\ SameEntry(old, back) /\ back.kern = old.kern /\ back.type = "TxReverted"
        /\ ~back.confirmed
    BY <2>7 DEF TxLogEntry, SameEntry
  <2> HIDE DEF back
  <2>9. ASSUME i \in rev, f = back
        PROVE  EntrySound(f, C)
    BY <2>2, <2>3, <2>8, <2>9 DEF EntrySound, Incoming, SameEntry
  <2>10. ASSUME f = conf, seen
         PROVE  EntrySound(f, C)
    BY <2>2, <2>4, <2>6, <2>10 DEF EntrySound, Incoming, SameEntry
  <2>11. f = old \/ EntrySound(f, C)
    BY <2>5, <2>9, <2>10
  <2> QED
    BY <2>11 DEF old, rev, f
<1>3. CASE new = {} /\ <<a, i>> \notin Written(d)
  <2>1. P = {}
    BY <1>3, WithId
  <2>2. i \notin ConfirmedIds(d, a, M, api)
    BY <2>1 DEF ConfirmedIds
  <2>3. f = old
    BY <1>3, <2>1, <2>2 DEF RefreshedEntry
  <2> QED
    BY <2>3
<1> QED
  BY <1>1, <1>2, <1>3

(* A refresh: what it reverts had been received.                           *)
LEMMA ApplySound ==
    ASSUME OneAccount, NEW U, NEW C, NEW d, GoodLog(d), DbSound(d, U, C), NEW a \in Acct,
           NEW M, M \subseteq Slot, NEW api, Seen(U, C, api), NEW kernels, NEW h \in Nat,
           HasIds(d, a, Cardinality(NewCoinbases(d, M, api)))
    PROVE  SoundChange(d, apply_api_outputs(d, a, M, api,
                              find_reverted_kernels(d, a, M, api, kernels), h), U, C)
<1> DEFINE rev == find_reverted_kernels(d, a, M, api, kernels)
           e == apply_api_outputs(d, a, M, api, rev, h)
           f(i) == RefreshedEntry(d, a, M, api, rev, i)
           n == Cardinality(KeysOf(NewCoinbases(d, M, api)))
<1>0. d \in WalletDB /\ a = 0 /\ Acct = {0}
  BY OnlyAccount DEF GoodLog
<1>1. GoodLog(e) /\ Kept(d, e)
  BY ApplyLog, QuietFacts
<1>2. \A i \in Ids : f(i) = d.txlog[a][i] \/ EntrySound(f(i), C)
  BY RefreshedSound
<1>3. CASE h < d.confH[a]
  <2>1. e = d
    BY <1>3 DEF apply_api_outputs
  <2> QED
    BY <2>1, SoundSelf
<1>4. CASE ~(h < d.confH[a])
  <2> DEFINE outs == [x \in Slot |-> IF x \in M
                                     THEN RefreshedOutput(d, a, M, api, rev, x)
                                     ELSE d.outs[x]]
             log == [i \in Ids |-> f(i)]
  <2>1. e = [d EXCEPT !.outs = outs, !.txlog[a] = log, !.nextTx[a] = @ + n, !.confH[a] = h]
    BY <1>4 DEF apply_api_outputs
  <2>2. ASSUME NEW x \in Slot
        PROVE  LET o == outs[x] IN
                 \/ o = d.outs[x]
                 \/ RecordSound(e, U, x[1], o, Yet)
                 \/ /\ RecordSound(d, U, x[1], o, Yet)
                    /\ o.tx # -1 => <<o.root, o.tx>> \in Written(d)
    <3> DEFINE o == outs[x]
               was == d.outs[x]
               cbs == [was EXCEPT !.status = "Unspent", !.tx = CoinbaseId(d, a, M, api, x)]
               uns == [was EXCEPT !.status = "Unspent"]
               spt == [was EXCEPT !.status = "Spent"]
               rvt == [was EXCEPT !.status = "Reverted"]
    <3>1. /\ was \in OutputData /\ RecordSound(d, U, x[1], was, Yet)
          /\ was.tx # -1 => <<was.root, was.tx>> \in Written(d)
      BY <1>0 DEF WalletDB, DbSound, GoodLog, LogOK
    <3>2. \/ o = was
          \/ o = cbs /\ was.cb > 0
          \/ o = uns
          \/ o = spt
          \/ o = rvt /\ was.cb = 0 /\ was.tx \in rev
      BY DEF RefreshedOutput, mark_unspent, mark_spent, mark_reverted, NewCoinbases
    <3>3. was.tx \in rev => /\ was.tx # -1
                            /\ OwnerOf(d, was).type = "TxReceived"
      <4> SUFFICES ASSUME was.tx \in rev
                   PROVE  was.tx # -1 /\ OwnerOf(d, was).type = "TxReceived"
        OBVIOUS
      <4>1. PICK p \in TxsWithId(d, a, was.tx) : Entry(d, p).type = "TxReceived"
        BY DEF find_reverted_kernels
      <4>2. p = <<a, was.tx>>
        <5> HIDE DEF was
        <5>1. TxsWithId(d, a, was.tx) \subseteq {<<a, was.tx>>}
          BY WithId
        <5> QED
          BY <4>1, <5>1
      <4>3. was.root = a
        BY <1>0, <3>1 DEF OutputData
      <4>4. was.tx \in Ids
        BY DEF find_reverted_kernels
      <4> QED
        BY <4>1, <4>2, <4>3, <4>4 DEF OwnerOf, Ids
    <3> HIDE DEF was, o, rev
    <3>4. /\ cbs.cb = was.cb
          /\ uns.cb = was.cb /\ uns.root = was.root /\ uns.tx = was.tx /\ uns.status = "Unspent"
          /\ spt.cb = was.cb /\ spt.root = was.root /\ spt.tx = was.tx /\ spt.status = "Spent"
          /\ rvt.cb = was.cb /\ rvt.root = was.root /\ rvt.tx = was.tx
      BY <3>1 DEF OutputData
    <3> HIDE DEF cbs, uns, spt, rvt
    <3>5. CASE o = cbs /\ was.cb > 0
      BY <3>1, <3>4, <3>5 DEF RecordSound, o
    <3>6. CASE o = uns \/ o = spt
      <4>1. RecordSound(d, U, x[1], o, Yet) /\ o.tx = was.tx /\ o.root = was.root
        BY <3>1, <3>4, <3>6, RestatedSound DEF Yet
      <4> QED
        BY <3>1, <4>1 DEF o
    <3>7. CASE o = rvt /\ was.cb = 0 /\ was.tx \in rev
      <4>1. Incoming(OwnerOf(d, was))
        <5>1. <<was.root, was.tx>> \in Written(d)
          BY <3>1, <3>3, <3>7
        <5> QED
          BY <3>3, <3>7, <5>1 DEF DbSound, EntrySound, OwnerOf
      <4>2. OwnerOf(d, o) = OwnerOf(d, was)
        BY <3>4, <3>7 DEF OwnerOf
      <4>3. RecordSound(d, U, x[1], o, Yet) /\ o.tx = was.tx /\ o.root = was.root
        BY <3>1, <3>4, <3>7, <4>1, <4>2 DEF RecordSound
      <4> QED
        BY <3>1, <4>3 DEF o
    <3> QED
      BY <3>2, <3>5, <3>6, <3>7 DEF o, was
  <2> HIDE DEF f, outs, log, n, e
  <2>3. e.outs = outs /\ e.txlog[a] = log /\ e.ctxs = d.ctxs /\ e.nextChild = d.nextChild
    BY <1>0, <2>1 DEF WalletDB
  <2>4. \A p \in Pos : /\ p[2] \in Ids
                       /\ Entry(d, p) = d.txlog[a][p[2]] /\ Entry(e, p) = f(p[2])
    BY <1>0, <2>3 DEF Pos, Entry, log
  <2>5. \A p \in Written(e) : \/ p \in Written(d) /\ Entry(e, p) = Entry(d, p)
                              \/ EntrySound(Entry(e, p), C)
    BY <1>2, <2>4 DEF Written
  <2>6. HomesStay(d, U, e, U)
    BY <1>0, <2>3, HomesSame
  <2>7. SoundChange(d, e, U, C)
    <3>1. GoodLog(e) /\ Kept(d, e)
      BY <1>1 DEF e
    <3>2. \A x \in Slot : LET o == e.outs[x] IN
                \/ o = d.outs[x]
                \/ RecordSound(e, U, x[1], o, Yet)
                \/ /\ RecordSound(d, U, x[1], o, Yet)
                   /\ o.tx # -1 => <<o.root, o.tx>> \in Written(d)
      BY <2>2, <2>3
    <3> QED
      BY <2>3, <2>5, <2>6, <3>1, <3>2, SoundWrite
  <2> QED
    BY <2>7 DEF e
<1> QED
  BY <1>3, <1>4

(* A refresh as a whole: stale coinbases are deleted.                      *)
LEMMA RefreshSound ==
    ASSUME OneAccount, NEW U, NEW C, NEW d, GoodLog(d), DbSound(d, U, C), NEW a \in Acct,
           NEW all, NEW h \in Nat, NEW api, Seen(U, C, api), NEW kernels,
           RefreshHasIds(d, a, all, api)
    PROVE  SoundChange(d, refresh_output_state(d, a, all, h, api, kernels), U, C)
<1> DEFINE M == map_wallet_outputs(d, a, all)
           e == apply_api_outputs(d, a, M, api, find_reverted_kernels(d, a, M, api, kernels), h)
           f == clean_old_unconfirmed(e, h)
<1>1. M \subseteq Slot
  BY DEF map_wallet_outputs, Refreshable
<1>2. SoundChange(d, e, U, C)
  <2>1. HasIds(d, a, Cardinality(NewCoinbases(d, M, api)))
    BY DEF RefreshHasIds
  <2> HIDE DEF M
  <2> QED
    BY <1>1, <2>1, ApplySound
<1> HIDE DEF e
<1>3. GoodLog(e) /\ e \in WalletDB /\ f \in WalletDB /\ DbSound(e, U, C)
  BY <1>2, CleanType DEF SoundChange, GoodLog
<1>4. /\ f.txlog = e.txlog /\ f.nextTx = e.nextTx /\ f.ctxs = e.ctxs
      /\ f.nextChild = e.nextChild
      /\ \A x \in Slot : f.outs[x] = e.outs[x] \/ f.outs[x] = NoOutput
  BY <1>3 DEF clean_old_unconfirmed, WalletDB
<1>5. refresh_output_state(d, a, all, h, api, kernels) = f
  BY DEF refresh_output_state, e
<1> HIDE DEF f
<1>6. \A x \in Slot : f.outs[x].tx = -1 \/ <<f.outs[x].root, f.outs[x].tx>> \in Written(e)
  BY <1>3, <1>4 DEF NoOutput, GoodLog, LogOK
<1>7. GoodLog(f) /\ Kept(e, f)
  BY <1>3, <1>4, <1>6, SameLog, QuietFacts
<1>8. Written(f) = Written(e) /\ \A p : Entry(f, p) = Entry(e, p)
  BY <1>4 DEF Written, Entry
<1>9. HomesStay(e, U, f, U)
  BY <1>3, <1>4, HomesSame
<1>10. SoundChange(e, f, U, C)
  BY <1>3, <1>4, <1>7, <1>8, <1>9, SoundWrite
<1> QED
  BY <1>2, <1>5, <1>10, SoundThen

-----------------------------------------------------------------------------
(* Confirmation: keys are drawn and written                                *)

(* next_child hands out keys that are drawn, and has derived them after.   *)
LEMMA NewKeysDrawn ==
    ASSUME NEW d, GoodDb(d), NEW a \in Acct, NEW n \in Nat, HasChildren(d, a, n),
           NEW k \in NewKeys(d, a, n)
    PROVE  Drawn(d, k) /\ k[2] < next_child(d, a, n).nextChild[k[1]]
<1>1. k \in Key
  BY NewKeysType DEF GoodDb
<1>2. d.nextChild[a] \in Nat
  BY DEF GoodDb, WalletDB
<1>3. k[1] = a /\ ~(k[2] < d.nextChild[a])
  BY <1>2 DEF NewKeys
<1>4. k[2] < next_child(d, a, n).nextChild[k[1]]
  BY NextChildKeeps DEF Derived
<1> QED
  BY <1>1, <1>3, <1>4 DEF Drawn

(* A selection writes a context that pays to drawn keys only.              *)
LEMMA SelectedSound ==
    ASSUME NEW U, NEW C, NEW d, GoodLog(d), GoodDb(d), Derived(d, Genesis), DbSound(d, U, C),
           active \in Acct, NEW n \in Nat, HasChildren(d, active, n), NEW b,
           NEW S, S \subseteq Eligible(d, b, ZeroConf),
           NEW a \in Acct, NEW s \in Slates, NEW kern \in Kern, NEW ttl \in Nat,
           NEW kind \in {"Send", "Pay"}, kern # NoKern => kern[1] = s,
           \A k \in NewKeys(d, active, n) : \A tx \in U : k \in tx.outs => tx.kern[1] = s
    PROVE  /\ SoundChange(d, next_child(d, active, n), U, C)
           /\ SoundChange(d, SaveContext(next_child(d, active, n), s,
                                         Selected(d, kind, S, n, a, kern, ttl)), U, C)
<1> DEFINE d1 == next_child(d, active, n)
           c == Selected(d, kind, S, n, a, kern, ttl)
           e == SaveContext(d1, s, c)
<1>1. SoundChange(d, d1, U, C)
  BY NextChildSound
<1>2. QuietChange(d, e)
  BY SelectedLog
<1>3. GoodLog(e) /\ Kept(d, e)
  BY <1>2, QuietFacts
<1>4. Keeps(d, e)
  BY SelectedKeeps
<1>5. \A k \in NewKeys(d, active, n) : Drawn(d, k) /\ k[2] < d1.nextChild[k[1]]
  BY NewKeysDrawn
<1>6. d1.txlog = d.txlog /\ d1.outs = d.outs /\ d1.ctxs = d.ctxs /\ d1 \in WalletDB
  BY NextChildType DEF next_child, GoodLog, WalletDB
<1>7. c.outs = NewKeys(d, active, n) /\ c.kern = kern
  BY DEF Selected
<1> HIDE DEF d1, c
<1>8. /\ e.txlog = d.txlog /\ e.outs = d.outs /\ e.nextChild = d1.nextChild
      /\ \A u \in Slates : e.ctxs[u] = IF u = s THEN c ELSE d.ctxs[u]
  BY <1>6 DEF SaveContext, WalletDB
<1> HIDE DEF e
<1>9. Written(e) = Written(d) /\ \A p : Entry(e, p) = Entry(d, p)
  BY <1>8 DEF Written, Entry
<1>10. Grows(d, e)
  BY <1>4 DEF Keeps
<1> DEFINE K == NewKeys(d, active, n)
<1>11. \A k \in K : /\ Drawn(d, k) /\ k[2] < e.nextChild[k[1]]
                    /\ \A tx \in U : k \in tx.outs => tx.kern[1] = s
  BY <1>5, <1>8
<1> HIDE DEF K
<1>12. SoundChange(d, e, U, C)
  <2>1. \A u \in Slates \ {s} : e.ctxs[u] = d.ctxs[u]
    BY <1>8
  <2>2. e.ctxs[s].outs \subseteq K /\ (e.ctxs[s].kern # NoKern => e.ctxs[s].kern[1] = s)
    BY <1>7, <1>8 DEF K
  <2> QED
    BY <1>3, <1>8, <1>9, <1>10, <1>11, <2>1, <2>2, DrawnSound
<1> QED
  BY <1>1, <1>12 DEF d1, c, e

(* e is d with one more record o, under key k, and its entry f.            *)
WithOutput(d, e, k, o, f) ==
    /\ e.ctxs = d.ctxs /\ e.nextChild = d.nextChild
    /\ \A x \in Slot : e.outs[x] = IF x = <<k, FALSE>> THEN o ELSE d.outs[x]
    /\ \A p \in Written(e) : \/ p \in Written(d) /\ Entry(e, p) = Entry(d, p)
                             \/ Entry(e, p) = f
    /\ OwnerOf(e, o) = f

(* What build_recipient_output writes.                                     *)
LEMMA RecipientEffect ==
    ASSUME OneAccount, NEW d, GoodLog(d), NEW s \in Slates, NEW k \in Key,
           NEW a \in Acct, NEW ttl \in Nat, HasIds(d, a, 1)
    PROVE  WithOutput(d, build_recipient_output(d, s, k, a, ttl), k,
                      ReceivedOutput(d, a), ReceivedEntry(d, s, a, ttl))
<1> DEFINE e == build_recipient_output(d, s, k, a, ttl)
           o == ReceivedOutput(d, a)
           outs == [d.outs EXCEPT ![<<k, FALSE>>] = o]
           f == ReceivedEntry(d, s, a, ttl)
           i == d.nextTx[a]
           log == [d.txlog EXCEPT ![a][i] = f]
<1>0. d \in WalletDB /\ <<k, FALSE>> \in Slot
  BY DEF GoodLog, Slot
<1>1. i \in Ids
  BY <1>0, SizesAssumption DEF WalletDB, HasIds, Ids
<1>2. f.id = i
  BY DEF ReceivedEntry
<1>3. o.root = a /\ o.tx = i
  BY DEF ReceivedOutput
<1> HIDE DEF o, f
<1>4. e = [d EXCEPT !.outs = outs, !.txlog = log, !.nextTx = [d.nextTx EXCEPT ![a] = @ + 1]]
  BY <1>0, <1>2 DEF build_recipient_output, SaveEntry, SaveOutput, WalletDB, f, o
<1>5. \A x \in Slot : outs[x] = IF x = <<k, FALSE>> THEN o ELSE d.outs[x]
  BY <1>0 DEF WalletDB
<1>6. \A b \in Acct, j \in Ids : log[b][j] = IF b = a /\ j = i THEN f ELSE d.txlog[b][j]
  BY <1>0, <1>1 DEF WalletDB
<1> HIDE DEF outs, log, e, i
<1>7. e.ctxs = d.ctxs /\ e.nextChild = d.nextChild /\ e.outs = outs /\ e.txlog = log
  BY <1>0, <1>4 DEF WalletDB
<1>8. \A p \in Pos : Entry(e, p) = Entry(d, p) \/ Entry(e, p) = f
  BY <1>6, <1>7 DEF Entry, Pos
<1>9. \A p \in Written(e) : \/ p \in Written(d) /\ Entry(e, p) = Entry(d, p)
                            \/ Entry(e, p) = f
  BY <1>8 DEF Written
<1>10. OwnerOf(e, o) = f
  BY <1>1, <1>3, <1>6, <1>7 DEF OwnerOf, Entry
<1>11. WithOutput(d, e, k, o, f)
  BY <1>5, <1>7, <1>9, <1>10 DEF WithOutput
<1> QED
  BY <1>11 DEF e, o, f

(* An output is received with a drawn key, and an invoice's context names  *)
(* it.                                                                     *)
LEMMA RecipientSound ==
    ASSUME OneAccount, NEW U, NEW C, NEW d, GoodLog(d), GoodDb(d), Derived(d, Genesis),
           DbSound(d, U, C), active \in Acct, HasChildren(d, active, 1), NEW s \in Slates,
           NEW k, NewKeys(d, active, 1) = {k},
           \A tx \in U : k \in tx.outs => tx.kern[1] = s,
           NEW a \in Acct, NEW ttl \in Nat, HasIds(d, a, 1)
    PROVE  LET d1 == next_child(d, active, 1)
               e == build_recipient_output(d1, s, k, a, ttl)
           IN  /\ SoundChange(d, d1, U, C)
               /\ SoundChange(d, e, U, C)
               /\ \A c \in Context : c.outs = {k} /\ c.kern = NoKern
                     => SoundChange(d, SaveContext(e, s, c), U, C)
<1> DEFINE d1 == next_child(d, active, 1)
           e == build_recipient_output(d1, s, k, a, ttl)
           f == ReceivedEntry(d1, s, a, ttl)
           o == ReceivedOutput(d1, a)
<1>1. Drawn(d, k) /\ k[2] < d1.nextChild[k[1]] /\ k \in Key
  BY NewKeysDrawn DEF Drawn
<1>2. SoundChange(d, d1, U, C)
  BY NextChildSound
<1>3. QuietChange(d, d1) /\ GoodLog(d1) /\ Grows(d, d1)
  BY NextChildLog, NextChildKeeps DEF QuietChange, Keeps
<1>4. d1.txlog = d.txlog /\ d1.outs = d.outs /\ d1.ctxs = d.ctxs /\ d1.nextTx = d.nextTx
  BY DEF next_child, GoodLog, WalletDB
<1> HIDE DEF d1
<1>5. HasIds(d1, a, 1)
  BY <1>4 DEF HasIds
<1>6. QuietChange(d1, e)
  BY <1>1, <1>3, <1>5, RecipientLog
<1>7. /\ e.ctxs = d1.ctxs /\ e.nextChild = d1.nextChild
      /\ \A x \in Slot : e.outs[x] = IF x = <<k, FALSE>> THEN o ELSE d1.outs[x]
      /\ \A p \in Written(e) : \/ p \in Written(d1) /\ Entry(e, p) = Entry(d1, p)
                               \/ Entry(e, p) = f
      /\ OwnerOf(e, o) = f
  <2>1. WithOutput(d1, e, k, o, f)
    BY <1>1, <1>3, <1>5, RecipientEffect
  <2> QED
    BY <2>1 DEF WithOutput
<1>8. o.cb = 0 /\ f.slate = s /\ EntrySound(f, C)
  BY DEF ReceivedOutput, ReceivedEntry, EntrySound, Incoming
<1> HIDE DEF o, f, e
<1>9. QuietChange(d, e)
  BY <1>3, <1>6, QuietThen
<1>10. GoodLog(e) /\ Kept(d, e)
  BY <1>9, QuietFacts
<1>11. Written(d1) = Written(d) /\ \A p : Entry(d1, p) = Entry(d, p)
  BY <1>4 DEF Written, Entry
<1>12. ASSUME NEW g, GoodLog(g), Kept(d, g), g.txlog = e.txlog, g.outs = e.outs,
              g.nextChild = e.nextChild,
              \A u \in Slates \ {s} : g.ctxs[u] = e.ctxs[u],
              \/ g.ctxs[s] = e.ctxs[s]
              \/ g.ctxs[s].outs = {k} /\ g.ctxs[s].kern = NoKern
       PROVE  SoundChange(d, g, U, C)
  <2>1. Written(g) = Written(e) /\ \A p : Entry(g, p) = Entry(e, p)
    BY <1>12 DEF Written, Entry
  <2>2. \A q : OwnerOf(g, q) = OwnerOf(e, q)
    BY <2>1 DEF OwnerOf
  <2>3. Grows(d, g)
    BY <1>3, <1>7, <1>12 DEF Grows
  <2>4. \A p \in Written(g) : \/ p \in Written(d) /\ Entry(g, p) = Entry(d, p)
                              \/ EntrySound(Entry(g, p), C)
    BY <1>7, <1>8, <1>11, <2>1
  <2>5. \A x \in Slot : \/ g.outs[x] = d.outs[x]
                        \/ /\ x[1] \in {k} /\ g.outs[x].cb = 0
                           /\ OwnerOf(g, g.outs[x]).slate = s
    <3> TAKE x \in Slot
    <3>1. CASE x = <<k, FALSE>>
      BY <1>7, <1>8, <1>12, <2>2, <3>1
    <3>2. CASE x # <<k, FALSE>>
      BY <1>4, <1>7, <1>12, <3>2
    <3> QED
      BY <3>1, <3>2
  <2>6. \A j \in {k} : /\ Drawn(d, j) /\ j[2] < g.nextChild[j[1]]
                       /\ \A tx \in U : j \in tx.outs => tx.kern[1] = s
    BY <1>1, <1>7, <1>12
  <2>7. \A u \in Slates \ {s} : g.ctxs[u] = d.ctxs[u]
    BY <1>4, <1>7, <1>12
  <2>8. \/ g.ctxs[s] = d.ctxs[s]
        \/ g.ctxs[s].outs \subseteq {k} /\ (g.ctxs[s].kern # NoKern => g.ctxs[s].kern[1] = s)
    BY <1>4, <1>7, <1>12
  <2> QED
    BY <1>12, <2>3, <2>4, <2>5, <2>6, <2>7, <2>8, DrawnSound
<1>13. SoundChange(d, e, U, C)
  BY <1>10, <1>12
<1>14. ASSUME NEW c \in Context, c.outs = {k}, c.kern = NoKern
       PROVE  SoundChange(d, SaveContext(e, s, c), U, C)
  <2> DEFINE g == SaveContext(e, s, c)
  <2>1. QuietChange(e, g)
    BY <1>10, SaveContextLog
  <2>2. QuietChange(d, g)
    BY <1>9, <2>1, QuietThen
  <2>3. GoodLog(g) /\ Kept(d, g)
    BY <2>2, QuietFacts
  <2>4. /\ g.txlog = e.txlog /\ g.outs = e.outs /\ g.nextChild = e.nextChild
        /\ \A u \in Slates : g.ctxs[u] = IF u = s THEN c ELSE e.ctxs[u]
    BY <1>10 DEF SaveContext, GoodLog, WalletDB
  <2> HIDE DEF g
  <2>5. SoundChange(d, g, U, C)
    BY <1>12, <1>14, <2>3, <2>4
  <2> QED
    BY <2>5 DEF g
<1> QED
  BY <1>2, <1>13, <1>14 DEF d1, e

-----------------------------------------------------------------------------
(* Confirmation: API calls                                                 *)

(* What a step has to keep.                                                *)
MinedStep ==
    /\ WorldSound'
    /\ DbSound(db', signed', MinedSlates')
    /\ \A t \in Threads : ThreadSound(db', th'[t], signed', MinedSlates')

(* What the proofs of the steps start from.                                *)
LEMMA MinedFacts ==
    ASSUME MinedInv
    PROVE  /\ LogInv /\ Inv /\ TypeOK /\ GoodLog(db) /\ GoodDb(db) /\ db \in WalletDB
           /\ active \in Acct /\ Height \in Nat
           /\ DbSound(db, signed, MinedSlates)
           /\ SoundChange(db, db, signed, MinedSlates)
           /\ Derived(db, Genesis) /\ TxsDerived(db, signed)
           /\ \A t \in Threads : /\ th[t] \in ThreadState /\ ThreadLog(db, th[t])
                                 /\ ThreadSound(db, th[t], signed, MinedSlates)
<1>1. LogInv /\ DbSound(db, signed, MinedSlates)
  BY DEF MinedInv
<1>2. Inv /\ GoodLog(db)
  BY <1>1, LogFacts
<1>3. SoundChange(db, db, signed, MinedSlates)
  BY <1>1, <1>2, SoundSelf
<1> QED
  BY <1>1, <1>2, <1>3, LogFacts DEF MinedInv, Inv, ChainDerived

(* An idle thread remembers nothing.                                       *)
LEMMA IdleSound == \A d, T, C : ThreadSound(d, Idle, T, C)
<1>1. /\ Idle.txs = {} /\ Idle.todo = {} /\ Idle.api = {} /\ Idle.pc = "idle"
      /\ \A x \in Slot : Idle.outs[x] = NoOutput
  BY DEF Idle, NoOutputs
<1> HIDE DEF Idle
<1> QED
  BY <1>1, NoOutputSound DEF ThreadSound, Seen

(* The slates of the chain are known by its blocks.                        *)
LEMMA SameMined == chain' = chain => MinedSlates' = MinedSlates
  BY DEF MinedSlates, Blocks, Height

(* What the node reports unspent was there from the start or is an output  *)
(* of a signed transaction in the chain.                                   *)
LEMMA UtxoSeen ==
    ASSUME WorldSound, NEW U, signed \subseteq U
    PROVE  Seen(U, MinedSlates, Utxo)
<1>1. ASSUME NEW b \in Blocks(Height), NEW k \in b.outs
      PROVE  \E tx \in U : k \in tx.outs /\ tx.kern[1] \in MinedSlates
  <2>1. b \in signed
    BY <1>1 DEF WorldSound, EmptyBlock
  <2> QED
    BY <1>1, <2>1 DEF MinedSlates
<1> QED
  BY <1>1 DEF Seen, Utxo

(* An API call that writes what is sound, whatever it signs.               *)
LEMMA ApiSound ==
    ASSUME MinedInv, chain' = chain, signed \subseteq signed',
           \A tx \in signed' \ signed : tx.cb > 0 => tx.kern[1] = NoSlate,
           HomesStay(db, signed, db, signed'),
           SoundChange(db, db', signed', MinedSlates), WalletStep
    PROVE  MinedStep
<1>1. MinedSlates' = MinedSlates /\ Blocks(Height)' = Blocks(Height)
  BY SameMined DEF Blocks, Height
<1>2. WorldSound'
  BY <1>1 DEF MinedInv, WorldSound
<1>3. DbSound(db', signed', MinedSlates)
  BY DEF SoundChange
<1>4. HomesStay(db, signed, db', signed')
  BY DEF SoundChange, HomesStay
<1>5. ASSUME NEW t \in Threads PROVE ThreadSound(db', th'[t], signed', MinedSlates)
  <2>1. CASE UNCHANGED <<active, lock, th>>
    <3>1. ThreadSound(db', th[t], signed', MinedSlates)
      BY <1>4, MinedFacts, ThreadStays DEF SoundChange
    <3> QED
      BY <2>1, <3>1
  <2>2. CASE Restart
    <3>1. th'[t] = Idle
      BY <2>2 DEF Restart
    <3> QED
      BY <3>1, IdleSound
  <2> QED
    BY <2>1, <2>2 DEF WalletStep
<1> QED
  BY <1>1, <1>2, <1>3, <1>5 DEF MinedStep

(* An API call that signs nothing.                                         *)
LEMMA ApiQuietSound ==
    ASSUME MinedInv, signed' = signed, chain' = chain,
           SoundChange(db, db', signed, MinedSlates), WalletStep
    PROVE  MinedStep
<1>1. HomesStay(db, signed, db, signed')
  BY DEF HomesStay
<1> QED
  BY <1>1, ApiSound

(* An API call that signs a transaction.                                   *)
LEMMA ApiSignSound ==
    ASSUME MinedInv, NEW tx, Sign(tx), tx.cb > 0 => tx.kern[1] = NoSlate,
           \A k \in tx.outs : \A s \in Slates : Home(db, signed, k, s) => tx.kern[1] = s,
           SoundChange(db, db', signed \cup {tx}, MinedSlates), WalletStep
    PROVE  MinedStep
<1>1. signed' = signed \cup {tx} /\ chain' = chain
  BY DEF Sign
<1>2. HomesStay(db, signed, db, signed \cup {tx})
  BY HomesSigned
<1> QED
  BY <1>1, <1>2, ApiSound

(* The database is sound for a transaction that is about to be signed.     *)
LEMMA BeforeSigned ==
    ASSUME MinedInv, NEW tx,
           \A k \in tx.outs : \A s \in Slates : Home(db, signed, k, s) => tx.kern[1] = s
    PROVE  /\ DbSound(db, signed \cup {tx}, MinedSlates)
           /\ SoundChange(db, db, signed \cup {tx}, MinedSlates)
<1>1. DbSound(db, signed \cup {tx}, MinedSlates)
  BY MinedFacts, SignedSound
<1> QED
  BY <1>1, MinedFacts, SoundSelf

(* The refresh at the start of a call.                                     *)
LEMMA CallRefreshSound ==
    ASSUME OneAccount, MinedInv, NEW U, signed \subseteq U, DbSound(db, U, MinedSlates),
           NEW a \in Acct, NEW d \in Refreshed(db, a)
    PROVE  /\ SoundChange(db, d, U, MinedSlates)
           /\ GoodLog(d) /\ GoodDb(d) /\ Grows(db, d)
           /\ Derived(d, Genesis) /\ TxsDerived(d, signed)
<1>1. GoodLog(d) /\ GoodDb(d) /\ Keeps(db, d)
  BY MinedFacts, CallRefreshLog, RefreshedKeeps
<1>2. ChainDerived(d) /\ Grows(db, d)
  BY <1>1, MinedFacts, ChainGrows DEF Keeps, GoodDb, Inv
<1>3. Seen(U, MinedSlates, Utxo)
  BY UtxoSeen DEF MinedInv
<1>4. RefreshHasIds(db, a, FALSE, Utxo) =>
        SoundChange(db, refresh_output_state(db, a, FALSE, Height, Utxo, Kernels),
                    U, MinedSlates)
  BY <1>3, MinedFacts, RefreshSound
<1>5. SoundChange(db, db, U, MinedSlates)
  BY MinedFacts, SoundSelf
<1> QED
  BY <1>1, <1>2, <1>4, <1>5 DEF Refreshed, ChainDerived

(* init_send_tx writes a context with drawn keys.                          *)
LEMMA SendSound ==
    ASSUME OneAccount, MinedInv, NEW s \in SendSlates, NEW a \in Acct, init_send_tx(s, a)
    PROVE  MinedStep
<1>1. PICK d \in Refreshed(db, a), n \in 0 .. MaxChange, b \in Ttls :
      \E S \in (SUBSET Eligible(d, a, ZeroConf)) \ {{}} :
          /\ HasChildren(d, active, n)
          /\ LET d1 == next_child(d, active, n)
                 c == Selected(d, "Send", S, n, a, NoKern, Expiry(b))
             IN  Call({d, d1}, SaveContext(d1, s, c),
                      /\ issued' = issued \cup {s}
                      /\ UNCHANGED <<chain, signed, reorgs>>)
  BY DEF init_send_tx
<1>2. PICK S \in (SUBSET Eligible(d, a, ZeroConf)) \ {{}} :
          /\ HasChildren(d, active, n)
          /\ LET d1 == next_child(d, active, n)
                 c == Selected(d, "Send", S, n, a, NoKern, Expiry(b))
             IN  Call({d, d1}, SaveContext(d1, s, c),
                      /\ issued' = issued \cup {s}
                      /\ UNCHANGED <<chain, signed, reorgs>>)
  BY <1>1
<1> DEFINE d1 == next_child(d, active, n)
           d2 == SaveContext(d1, s, Selected(d, "Send", S, n, a, NoKern, Expiry(b)))
<1>3. /\ SoundChange(db, d, signed, MinedSlates) /\ GoodLog(d) /\ GoodDb(d)
      /\ Derived(d, Genesis) /\ TxsDerived(d, signed) /\ DbSound(d, signed, MinedSlates)
  BY MinedFacts, CallRefreshSound DEF SoundChange
<1>4. n \in Nat /\ Expiry(b) \in Nat /\ s \in Slates /\ NoKern \in Kern
  BY MinedFacts, ExpiryNat, RolesTyped, NothingTyped, CoreAssumption
<1>5. \A k \in NewKeys(d, active, n) : \A tx \in signed : k \notin tx.outs
  BY <1>2, <1>3, <1>4, MinedFacts, NewKeysDrawn, DrawnUnsigned
<1>6. SoundChange(d, d1, signed, MinedSlates) /\ SoundChange(d, d2, signed, MinedSlates)
  BY <1>2, <1>3, <1>4, <1>5, MinedFacts, SelectedSound
<1>7. db' \in {d, d1, d2} /\ WalletStep /\ UNCHANGED <<chain, signed>>
  BY <1>2 DEF Call, WalletStep, world
<1> HIDE DEF d1, d2
<1>8. SoundChange(db, db', signed, MinedSlates)
  BY <1>3, <1>6, <1>7, SoundThen
<1> QED
  BY <1>7, <1>8, ApiQuietSound

(* init_send_tx with late locking writes a context without outputs.        *)
LEMMA SendLateSound ==
    ASSUME OneAccount, MinedInv, NEW s \in SendSlates, NEW a \in Acct, init_send_tx_late(s, a)
    PROVE  MinedStep
<1>1. PICK d \in Refreshed(db, a), b \in Ttls :
          LET c == [NoContext EXCEPT !.kind = "Late", !.acct = a, !.ttl = Expiry(b)]
          IN  Call({d}, SaveContext(d, s, c),
                   /\ issued' = issued \cup {s}
                   /\ UNCHANGED <<chain, signed, reorgs>>)
  BY DEF init_send_tx_late
<1> DEFINE c == [NoContext EXCEPT !.kind = "Late", !.acct = a, !.ttl = Expiry(b)]
           d1 == SaveContext(d, s, c)
<1>2. /\ SoundChange(db, d, signed, MinedSlates) /\ GoodLog(d) /\ GoodDb(d)
      /\ Derived(d, Genesis) /\ DbSound(d, signed, MinedSlates)
  BY MinedFacts, CallRefreshSound DEF SoundChange
<1>3. s \in Slates /\ c \in Context /\ c.outs = {} /\ c.kern = NoKern
  BY MinedFacts, ExpiryNat, RolesTyped, NothingTyped DEF NoContext, Context
<1>4. db' \in {d, d1} /\ WalletStep /\ UNCHANGED <<chain, signed>>
  BY <1>1 DEF Call, WalletStep, world
<1> HIDE DEF c
<1>5. GoodLog(d1) /\ Kept(d, d1)
  BY <1>2, <1>3, SaveContextLog, QuietFacts
<1>6. /\ d1.txlog = d.txlog /\ d1.outs = d.outs /\ d1.nextChild = d.nextChild
      /\ \A u \in Slates : d1.ctxs[u] = IF u = s THEN c ELSE d.ctxs[u]
  BY <1>2 DEF SaveContext, GoodLog, WalletDB
<1> HIDE DEF d1
<1>7. Written(d1) = Written(d) /\ \A p : Entry(d1, p) = Entry(d, p)
  BY <1>6 DEF Written, Entry
<1>8. Grows(d, d1)
  BY <1>2, <1>6 DEF Grows, GoodLog, WalletDB
<1>9. /\ \A u \in Slates \ {s} : d1.ctxs[u] = d.ctxs[u]
      /\ d1.ctxs[s].outs \subseteq {} /\ d1.ctxs[s].kern = NoKern
  BY <1>3, <1>6
<1> DEFINE K == {}
<1>10. \A k \in K : /\ Drawn(d, k) /\ k[2] < d1.nextChild[k[1]]
                    /\ \A tx \in signed : k \in tx.outs => tx.kern[1] = s
  OBVIOUS
<1>11. d1.ctxs[s].outs \subseteq K
  BY <1>9
<1> HIDE DEF K
<1>12. SoundChange(d, d1, signed, MinedSlates)
  BY <1>2, <1>3, <1>5, <1>6, <1>7, <1>8, <1>9, <1>10, <1>11, DrawnSound
<1>13. SoundChange(db, db', signed, MinedSlates)
  BY <1>2, <1>4, <1>12, SoundThen
<1> QED
  BY <1>4, <1>13, ApiQuietSound

(* A failed selection: at most a refresh happened.                         *)
LEMMA FailSound ==
    ASSUME OneAccount, MinedInv, NEW a \in Acct, SelectionFails(a)
    PROVE  MinedStep
<1>1. PICK d \in Refreshed(db, a) : db' = d /\ WalletStep /\ UNCHANGED <<chain, signed>>
  BY DEF SelectionFails, Call, WalletStep, world
<1>2. SoundChange(db, d, signed, MinedSlates)
  BY MinedFacts, CallRefreshSound
<1> QED
  BY <1>1, <1>2, ApiQuietSound

(* tx_lock_outputs logs the kernel and the change of the context.          *)
LEMMA TxLockSound ==
    ASSUME OneAccount, MinedInv, NEW s \in Slates, tx_lock_outputs(s)
    PROVE  MinedStep
<1>1. /\ HasIds(db, db.ctxs[s].acct, 1) /\ db' = lock_tx_context(db, s)
      /\ WalletStep /\ UNCHANGED <<chain, signed>>
  BY DEF tx_lock_outputs, WalletStep, world
<1>2. SoundChange(db, db', signed, MinedSlates)
  BY <1>1, MinedFacts, LockSound
<1> QED
  BY <1>1, <1>2, ApiQuietSound

(* Finishing a slate in database d: the transaction pays to the outputs of *)
(* the slate's context.                                                    *)
LEMMA FinishSound ==
    ASSUME OneAccount, MinedInv, NEW d, NEW s \in Slates, NEW type \in {"TxSent", "TxReceived"},
           NEW kern \in Kern, kern[1] = s, EntriesToFinish(d, s, type) # {},
           Finish(d, s, type, kern),
           \A k \in d.ctxs[s].outs : \A u \in Slates : Home(db, signed, k, u) => u = s,
           SoundChange(db, d, signed \cup {SignedTx(d.ctxs[s], kern)}, MinedSlates)
    PROVE  MinedStep
<1> DEFINE tx == SignedTx(d.ctxs[s], kern)
           U == signed \cup {tx}
<1>1. tx.outs = d.ctxs[s].outs /\ tx.kern = kern /\ tx.cb = 0
  BY DEF SignedTx
<1>2. GoodLog(d) /\ DbSound(d, U, MinedSlates)
  BY DEF SoundChange
<1>3. Sign(tx) /\ WalletStep
  BY DEF Finish, WalletStep
<1>4. db' \in {d, Stored(d, s, type, kern), Closed(d, s, type, kern), Finished(d, s, type, kern)}
  BY DEF Finish
<1> HIDE DEF tx
<1>5. SoundChange(d, d, U, MinedSlates)
  BY <1>2, SoundSelf
<1>6. /\ SoundChange(d, Stored(d, s, type, kern), U, MinedSlates)
      /\ SoundChange(d, Closed(d, s, type, kern), U, MinedSlates)
      /\ SoundChange(d, Finished(d, s, type, kern), U, MinedSlates)
  BY <1>2, MinedFacts, StoredSound
<1>7. SoundChange(db, db', U, MinedSlates)
  <2>1. SoundChange(db, d, U, MinedSlates)
    BY DEF tx
  <2>2. SoundChange(d, db', U, MinedSlates)
    BY <1>4, <1>5, <1>6
  <2> QED
    BY <2>1, <2>2, SoundThen
<1>8. tx.cb > 0 => tx.kern[1] = NoSlate
  BY <1>1
<1>9. \A k \in tx.outs : \A u \in Slates : Home(db, signed, k, u) => tx.kern[1] = u
  BY <1>1
<1> QED
  BY <1>3, <1>7, <1>8, <1>9, ApiSignSound

(* finalize_tx of a payment or an invoice.                                 *)
LEMMA FinalizeSound ==
    ASSUME OneAccount, MinedInv, NEW s \in Slates, finalize_tx(s) \/ finalize_invoice(s)
    PROVE  MinedStep
<1>1. \A k \in db.ctxs[s].outs : \A u \in Slates : Home(db, signed, k, u) => u = s
  BY DEF Home
<1>2. ASSUME NEW kern \in Kern, kern[1] = s, NEW type \in {"TxSent", "TxReceived"},
             EntriesToFinish(db, s, type) # {}, Finish(db, s, type, kern)
      PROVE  MinedStep
  <2> DEFINE tx == SignedTx(db.ctxs[s], kern)
  <2>1. tx.outs = db.ctxs[s].outs /\ tx.kern = kern
    BY DEF SignedTx
  <2> HIDE DEF tx
  <2>2. \A k \in tx.outs : \A u \in Slates : Home(db, signed, k, u) => tx.kern[1] = u
    BY <1>1, <1>2, <2>1
  <2>3. SoundChange(db, db, signed \cup {tx}, MinedSlates)
    BY <2>2, BeforeSigned
  <2> QED
    BY <1>1, <1>2, <2>3, FinishSound DEF tx
<1>3. CASE finalize_tx(s)
  <2>1. SendKern(s) \in Kern /\ SendKern(s)[1] = s
    BY DEF SendKern, Kern
  <2> QED
    BY <1>2, <1>3, <2>1 DEF finalize_tx, CanFinish
<1>4. CASE finalize_invoice(s)
  <2> DEFINE kern == <<s, db.ctxs[s].outs>>
  <2>1. db.ctxs[s] \in Context
    BY MinedFacts DEF WalletDB
  <2>2. kern \in Kern /\ kern[1] = s
    BY <2>1 DEF Kern, Context
  <2>3. EntriesToFinish(db, s, "TxReceived") # {} /\ Finish(db, s, "TxReceived", kern)
    BY <1>4 DEF finalize_invoice
  <2> HIDE DEF kern
  <2> QED
    BY <1>2, <2>2, <2>3
<1> QED
  BY <1>3, <1>4

(* finalize_tx of a late-locked payment: selection, lock and finish.       *)
LEMMA FinalizeLateSound ==
    ASSUME OneAccount, MinedInv, NEW s \in Slates, finalize_tx_late(s)
    PROVE  MinedStep
<1> DEFINE a == db.ctxs[s].acct
           ttl == db.ctxs[s].ttl
           d1(n) == next_child(db, active, n)
           d2(n, S) == SaveContext(d1(n), s, Selected(db, "Send", S, n, a, NoKern, ttl))
           d3(n, S) == lock_tx_context(d2(n, S), s)
<1>1. PICK n \in 0 .. MaxChange : \E S \in (SUBSET Eligible(db, active, ZeroConf)) \ {{}} :
          /\ HasChildren(db, active, n) /\ HasIds(db, a, 1)
          /\ \/ CanFinish(d3(n, S), s) /\ Finish(d3(n, S), s, "TxSent", SendKern(s))
             \/ ~CanFinish(d3(n, S), s) /\ Call({}, d3(n, S), UNCHANGED world)
             \/ db' \in {d1(n), d2(n, S), d3(n, S)} /\ Restart /\ UNCHANGED world
             \/ Call({}, d1(n), UNCHANGED world)
  BY DEF finalize_tx_late
<1>2. PICK S \in (SUBSET Eligible(db, active, ZeroConf)) \ {{}} :
          /\ HasChildren(db, active, n) /\ HasIds(db, a, 1)
          /\ \/ CanFinish(d3(n, S), s) /\ Finish(d3(n, S), s, "TxSent", SendKern(s))
             \/ ~CanFinish(d3(n, S), s) /\ Call({}, d3(n, S), UNCHANGED world)
             \/ db' \in {d1(n), d2(n, S), d3(n, S)} /\ Restart /\ UNCHANGED world
             \/ Call({}, d1(n), UNCHANGED world)
  BY <1>1
<1> DEFINE c == Selected(db, "Send", S, n, a, NoKern, ttl)
           e1 == d1(n)
           e2 == d2(n, S)
           e3 == d3(n, S)
           K == NewKeys(db, active, n)
           tx == SignedTx(e3.ctxs[s], SendKern(s))
<1>3. n \in Nat /\ NoKern \in Kern /\ a \in Acct /\ ttl \in Nat
  <2>1. db.ctxs[s] \in Context
    BY MinedFacts DEF WalletDB
  <2> QED
    BY <2>1, NothingTyped, CoreAssumption DEF Context
<1>4. \A k \in K : Drawn(db, k)
  BY <1>2, <1>3, MinedFacts, NewKeysDrawn
<1>5. /\ \A k \in K : \A t \in signed : k \notin t.outs
      /\ \A k \in K : \A u : ~Home(db, signed, k, u)
  BY <1>4, MinedFacts, DrawnUnsigned DEF Drawn, Home
<1>6. /\ QuietChange(db, e1) /\ QuietChange(db, e2) /\ c.outs = K /\ c.acct = a
      /\ e2 = SaveContext(e1, s, c)
  BY <1>2, <1>3, MinedFacts, SelectedLog DEF Selected
<1>7. /\ GoodLog(e2) /\ e2.ctxs[s].acct = a /\ e2.nextTx = db.nextTx
      /\ e2.ctxs[s].outs = K /\ e3.ctxs = e2.ctxs
  <2>1. e1 \in WalletDB /\ GoodLog(e2)
    BY <1>6 DEF QuietChange, GoodLog
  <2>2. e1.nextTx = db.nextTx
    BY MinedFacts DEF next_child, WalletDB
  <2> HIDE DEF e1, c
  <2>3. e2.ctxs[s] = c /\ e2.nextTx = db.nextTx
    BY <1>6, <2>1, <2>2 DEF SaveContext, WalletDB
  <2>4. e3.ctxs = e2.ctxs
    <3> HIDE DEF d2
    <3> QED
      BY <2>1 DEF lock_tx_context, SaveEntry, GoodLog, WalletDB
  <2> QED
    BY <1>6, <2>1, <2>3, <2>4
<1>8. tx.outs = K /\ tx.kern[1] = s
  BY <1>7 DEF SignedTx, SendKern
<1> HIDE DEF K
<1>9. ASSUME NEW U, signed \subseteq U, DbSound(db, U, MinedSlates),
             \A k \in K : \A t \in U : k \in t.outs => t.kern[1] = s
      PROVE  /\ SoundChange(db, e1, U, MinedSlates)
             /\ SoundChange(db, e2, U, MinedSlates)
             /\ SoundChange(db, e3, U, MinedSlates)
  <2>1. SoundChange(db, e1, U, MinedSlates) /\ SoundChange(db, e2, U, MinedSlates)
    BY <1>2, <1>3, <1>9, MinedFacts, SelectedSound DEF K
  <2>2. HasIds(e2, e2.ctxs[s].acct, 1)
    BY <1>2, <1>7 DEF HasIds
  <2> HIDE DEF d1, d2
  <2>3. SoundChange(e2, e3, U, MinedSlates)
    BY <1>7, <2>1, <2>2, LockSound DEF SoundChange
  <2> QED
    BY <2>1, <2>3, SoundThen
<1>10. CASE CanFinish(e3, s) /\ Finish(e3, s, "TxSent", SendKern(s))
  <2>1. SendKern(s) \in Kern /\ SendKern(s)[1] = s
    BY DEF SendKern, Kern
  <2> DEFINE U == signed \cup {tx}
  <2> HIDE DEF d1, d2, d3, tx
  <2>2. DbSound(db, U, MinedSlates)
    BY <1>5, <1>8, BeforeSigned
  <2>3. \A k \in K : \A t \in U : k \in t.outs => t.kern[1] = s
    BY <1>5, <1>8
  <2>4. SoundChange(db, e3, U, MinedSlates)
    BY <1>9, <2>2, <2>3
  <2>5. \A k \in e3.ctxs[s].outs : \A u \in Slates : Home(db, signed, k, u) => u = s
    BY <1>5, <1>7
  <2> QED
    BY <1>10, <2>1, <2>4, <2>5, FinishSound DEF CanFinish, tx
<1>11. CASE db' \in {e1, e2, e3} /\ WalletStep /\ UNCHANGED world
  <2> HIDE DEF d1, d2, d3
  <2>1. SoundChange(db, db', signed, MinedSlates)
    BY <1>5, <1>9, <1>11, MinedFacts
  <2> QED
    BY <1>11, <2>1, ApiQuietSound DEF world
<1> QED
  <2> HIDE DEF d1, d2, d3
  <2> QED
    BY <1>2, <1>10, <1>11 DEF Call, WalletStep

(* receive_tx: the output and the kernel are those of the slate, wherever  *)
(* it stops.                                                               *)
LEMMA ReceiveSound ==
    ASSUME OneAccount, MinedInv, NEW s \in Slates, NEW a \in Acct, receive_tx(s, a)
    PROVE  MinedStep
<1> DEFINE k == <<active, db.nextChild[active]>>
           d1 == next_child(db, active, 1)
           i == db.nextTx[a]
           tx == [EmptyBlock EXCEPT !.outs = {k}, !.kern = <<s, {k}>>]
           d2(b) == build_recipient_output(d1, s, k, a, Expiry(b))
           d3(b) == [d2(b) EXCEPT !.txlog[a][i].kern = <<s, {k}>>]
<1>1. HasChildren(db, active, 1) /\ HasIds(db, a, 1)
  BY DEF receive_tx
<1>2. PICK b \in Ttls :
        Call({d1, d2(b), d3(b)}, update_tx_slate_state(d3(b), a, s), Sign(tx))
  BY DEF receive_tx
<1>3. /\ k \in Key /\ NewKeys(db, active, 1) = {k} /\ d1.nextTx = db.nextTx
      /\ QuietChange(db, d1) /\ GoodLog(d1) /\ Drawn(db, k)
  <2>1. k \in Key /\ NewKeys(db, active, 1) = {k} /\ d1.nextTx = db.nextTx
    BY <1>1, MinedFacts, OneChild
  <2> QED
    BY <1>1, <2>1, MinedFacts, NextChildLog, NewKeysDrawn DEF QuietChange
<1>4. /\ tx.outs = {k} /\ tx.kern[1] = s /\ tx.cb = 0
      /\ \A t \in signed : k \notin t.outs
      /\ \A u : ~Home(db, signed, k, u)
  BY <1>3, MinedFacts, DrawnUnsigned DEF EmptyBlock, Drawn, Home
<1>5. Expiry(b) \in Nat
  BY MinedFacts, ExpiryNat
<1> DEFINE e2 == d2(b)
           e3 == d3(b)
           e4 == update_tx_slate_state(e3, a, s)
           r == ReceivedEntry(d1, s, a, Expiry(b))
           f == [r EXCEPT !.kern = <<s, {k}>>]
<1>6. ASSUME NEW U, signed \subseteq U, DbSound(db, U, MinedSlates),
             \A t \in U : k \in t.outs => t.kern[1] = s
      PROVE  /\ SoundChange(db, d1, U, MinedSlates)
             /\ SoundChange(db, e2, U, MinedSlates)
  BY <1>1, <1>3, <1>5, <1>6, MinedFacts, RecipientSound
<1> HIDE DEF d1, k, tx
<1>7. /\ r \in TxLogEntry /\ r.id = i /\ r.slate = s
      /\ Entry(e2, <<a, i>>) = r /\ <<a, i>> \in Written(e2)
  <2>1. GoodLog(d1) /\ HasIds(d1, a, 1)
    BY <1>1, <1>3 DEF HasIds
  <2>2. /\ r \in TxLogEntry /\ r.id = d1.nextTx[a]
        /\ r.slate = s
        /\ Entry(e2, <<a, r.id>>) = r /\ <<a, r.id>> \in Written(e2)
    <3>1. ASSUME NEW n \in Nat
          PROVE  LET e == build_recipient_output(d1, s, k, a, n)
                     g == ReceivedEntry(d1, s, a, n)
                 IN  /\ g \in TxLogEntry /\ g.id = d1.nextTx[a] /\ g.slate = s
                     /\ Entry(e, <<a, g.id>>) = g /\ <<a, g.id>> \in Written(e)
      BY <1>3, <2>1, RecipientLog
    <3> QED
      BY <1>5, <3>1
  <2> QED
    BY <1>3, <2>2
<1>8. /\ f \in TxLogEntry /\ f.id = i /\ f.slate = s /\ f.type # "None"
      /\ SameEntry(r, f) /\ EntrySound(f, MinedSlates)
  <2>1. <<s, {k}>> \in Kern
    BY <1>3 DEF Kern
  <2>2. r.type = "TxReceived" /\ ~r.confirmed /\ Incoming(r)
    BY DEF ReceivedEntry, Incoming
  <2> HIDE DEF r
  <2>3. /\ f \in TxLogEntry /\ f.id = i /\ f.slate = s /\ f.type # "None"
        /\ SameEntry(r, f) /\ f.kern = <<s, {k}>> /\ ~f.confirmed /\ f.debit = r.debit
        /\ f.credit = r.credit
    BY <1>7, <2>1, <2>2 DEF TxLogEntry, SameEntry
  <2> HIDE DEF f
  <2> QED
    BY <2>2, <2>3 DEF EntrySound, Incoming
<1>9. GoodLog(e2) /\ e2 \in WalletDB /\ i \in Ids
  <2>1. \A t \in signed : k \in t.outs => t.kern[1] = s
    BY <1>4
  <2>2. SoundChange(db, e2, signed, MinedSlates)
    BY <1>6, <2>1, MinedFacts
  <2> QED
    BY <1>7, <2>2 DEF SoundChange, GoodLog, TxLogEntry
<1>10. e3 = SaveEntry(e2, a, f)
  <2>1. e2.txlog[a][i] = r
    BY <1>7 DEF Entry
  <2> HIDE DEF e2, r
  <2>2. e3 = [e2 EXCEPT !.txlog[a][i].kern = <<s, {k}>>]
    BY DEF e2
  <2> QED
    BY <1>8, <1>9, <2>1, <2>2 DEF SaveEntry, WalletDB
<1> HIDE DEF d2, d3, r, f
<1>11. GoodLog(e3) /\ Kept(e2, e3)
  BY <1>7, <1>8, <1>9, <1>10, SaveAgain
<1>12. e4 = e3
  <2>1. <<a, i>> \in TxsWithSlate(e3, s)
    BY <1>8, <1>9, <1>10, SaveEffect DEF TxsWithSlate
  <2> QED
    BY <1>11, <2>1, SlateStateSame
<1>13. ASSUME NEW U, signed \subseteq U, DbSound(db, U, MinedSlates),
              \A t \in U : k \in t.outs => t.kern[1] = s
       PROVE  /\ SoundChange(db, d1, U, MinedSlates)
              /\ SoundChange(db, e2, U, MinedSlates)
              /\ SoundChange(db, e3, U, MinedSlates)
  <2>1. SoundChange(db, d1, U, MinedSlates) /\ SoundChange(db, e2, U, MinedSlates)
    BY <1>6, <1>13
  <2>2. SoundChange(e2, e3, U, MinedSlates)
    BY <1>8, <1>9, <1>10, <1>11, <2>1, SaveEntrySound DEF SoundChange
  <2> QED
    BY <2>1, <2>2, SoundThen
<1>14. WalletStep /\ \/ db' \in {d1, e2, e3} /\ UNCHANGED world
                     \/ db' = e4 /\ Sign(tx)
  BY <1>2 DEF Call, WalletStep
<1> HIDE DEF e4
<1>15. CASE db' \in {d1, e2, e3} /\ UNCHANGED world
  <2>1. SoundChange(db, db', signed, MinedSlates)
    <3>1. \A t \in signed : k \in t.outs => t.kern[1] = s
      BY <1>4
    <3> QED
      BY <1>13, <1>15, <3>1, MinedFacts
  <2> QED
    BY <1>14, <1>15, <2>1, ApiQuietSound DEF world
<1>16. CASE db' = e4 /\ Sign(tx)
  <2> DEFINE U == signed \cup {tx}
  <2>1. \A j \in tx.outs : \A u \in Slates : Home(db, signed, j, u) => tx.kern[1] = u
    BY <1>4
  <2>2. DbSound(db, U, MinedSlates)
    BY <2>1, BeforeSigned
  <2>3. \A t \in U : k \in t.outs => t.kern[1] = s
    BY <1>4
  <2>4. SoundChange(db, db', U, MinedSlates)
    BY <1>12, <1>13, <1>16, <2>2, <2>3
  <2> QED
    BY <1>4, <1>14, <1>16, <2>1, <2>4, ApiSignSound
<1> QED
  BY <1>14, <1>15, <1>16

(* issue_invoice_tx: the output is that of the slate.                      *)
LEMMA IssueSound ==
    ASSUME OneAccount, MinedInv, NEW s \in Slates, NEW a \in Acct, issue_invoice_tx(s, a)
    PROVE  MinedStep
<1> DEFINE k == <<active, db.nextChild[active]>>
           d1 == next_child(db, active, 1)
           d2 == build_recipient_output(d1, s, k, a, 0)
           c == [NoContext EXCEPT !.kind = "Invoice", !.outs = {k}, !.acct = a]
           d3 == SaveContext(d2, s, c)
<1>1. /\ HasChildren(db, active, 1) /\ HasIds(db, a, 1)
      /\ Call({d1, d2}, d3, /\ issued' = issued \cup {s}
                            /\ UNCHANGED <<chain, signed, reorgs>>)
  BY DEF issue_invoice_tx
<1>2. k \in Key /\ NewKeys(db, active, 1) = {k} /\ Drawn(db, k)
  <2>1. k \in Key /\ NewKeys(db, active, 1) = {k}
    BY <1>1, MinedFacts, OneChild
  <2> QED
    BY <1>1, <2>1, MinedFacts, NewKeysDrawn
<1>3. \A tx \in signed : k \notin tx.outs
  BY <1>2, MinedFacts, DrawnUnsigned
<1> HIDE DEF k
<1>4. c \in Context /\ c.outs = {k} /\ c.kern = NoKern
  BY <1>2, NothingTyped DEF NoContext, Context
<1> HIDE DEF c
<1>5. /\ SoundChange(db, d1, signed, MinedSlates)
      /\ SoundChange(db, d2, signed, MinedSlates)
      /\ SoundChange(db, d3, signed, MinedSlates)
  BY <1>1, <1>2, <1>3, <1>4, MinedFacts, RecipientSound
<1>6. db' \in {d1, d2, d3} /\ WalletStep /\ UNCHANGED <<chain, signed>>
  BY <1>1 DEF Call, WalletStep, world
<1> HIDE DEF d1, d2, d3
<1> QED
  BY <1>5, <1>6, ApiQuietSound

(* process_invoice_tx signs a transaction that pays to drawn keys.         *)
LEMMA PaySound ==
    ASSUME OneAccount, MinedInv, NEW s \in Slates, NEW a \in Acct, process_invoice_tx(s, a)
    PROVE  MinedStep
<1> DEFINE kern(d, n, S) == <<s, KeysOf(S) \cup NewKeys(d, active, n)>>
           c(d, n, b, S) == Selected(d, "Pay", S, n, a, kern(d, n, S), Expiry(b))
<1>1. PICK d \in Refreshed(db, a), n \in 0 .. MaxChange, b \in Ttls :
      \E S \in (SUBSET Eligible(d, a, ZeroConf)) \ {{}} :
          /\ HasChildren(d, active, n)
          /\ Call({d, next_child(d, active, n)},
                  SaveContext(next_child(d, active, n), s, c(d, n, b, S)),
                  Sign(SignedTx(c(d, n, b, S), kern(d, n, S))))
  BY DEF process_invoice_tx
<1>2. PICK S \in (SUBSET Eligible(d, a, ZeroConf)) \ {{}} :
          /\ HasChildren(d, active, n)
          /\ Call({d, next_child(d, active, n)},
                  SaveContext(next_child(d, active, n), s, c(d, n, b, S)),
                  Sign(SignedTx(c(d, n, b, S), kern(d, n, S))))
  BY <1>1
<1> DEFINE d1 == next_child(d, active, n)
           e == kern(d, n, S)
           d2 == SaveContext(d1, s, c(d, n, b, S))
           tx == SignedTx(c(d, n, b, S), e)
           K == NewKeys(d, active, n)
<1>3. n \in Nat /\ Expiry(b) \in Nat
  BY MinedFacts, ExpiryNat, CoreAssumption
<1>4. ASSUME NEW U, signed \subseteq U, DbSound(db, U, MinedSlates)
      PROVE  /\ SoundChange(db, d, U, MinedSlates) /\ GoodLog(d) /\ GoodDb(d)
             /\ Grows(db, d) /\ Derived(d, Genesis) /\ TxsDerived(d, signed)
             /\ DbSound(d, U, MinedSlates)
  BY <1>4, CallRefreshSound DEF SoundChange
<1>5. /\ SoundChange(db, d, signed, MinedSlates) /\ GoodLog(d) /\ GoodDb(d)
      /\ Grows(db, d) /\ Derived(d, Genesis) /\ TxsDerived(d, signed)
  BY <1>4, MinedFacts
<1>6. e \in Kern /\ e[1] = s
  <2>1. KeysOf(S) \subseteq Key
    BY <1>5, EligibleDerived
  <2>2. NewKeys(d, active, n) \subseteq Key
    BY <1>2, <1>3, <1>5, MinedFacts, NewKeysType DEF GoodDb
  <2> QED
    BY <2>1, <2>2 DEF Kern
<1>7. \A k \in K : Drawn(d, k)
  BY <1>2, <1>3, <1>5, MinedFacts, NewKeysDrawn
<1>8. /\ \A k \in K : \A t \in signed : k \notin t.outs
      /\ \A k \in K : \A u : ~Home(db, signed, k, u)
  <2>1. \A k \in K : \A t \in signed : k \notin t.outs
    BY <1>5, <1>7, DrawnUnsigned
  <2>2. ASSUME NEW k \in K, NEW u, Home(db, signed, k, u) PROVE FALSE
    <3>1. k \in Key /\ k[1] \in Acct /\ k[2] \in Int /\ k[2] < db.nextChild[k[1]]
      BY <2>2 DEF Home, Key
    <3>2. db.nextChild[k[1]] \in Int /\ d.nextChild[k[1]] \in Int
      BY <1>5, <3>1, MinedFacts DEF GoodLog, WalletDB
    <3>3. db.nextChild[k[1]] <= d.nextChild[k[1]]
      BY <1>5, <3>1 DEF Grows
    <3> QED
      BY <1>7, <3>1, <3>2, <3>3 DEF Drawn
  <2> QED
    BY <2>1, <2>2
<1>9. tx.outs = K /\ tx.kern = e /\ tx.cb = 0
  BY DEF SignedTx, Selected
<1> HIDE DEF kern, tx
<1>10. ASSUME NEW U, signed \subseteq U, DbSound(db, U, MinedSlates),
              \A k \in K : \A t \in U : k \in t.outs => t.kern[1] = s
       PROVE  /\ SoundChange(db, d, U, MinedSlates)
              /\ SoundChange(db, d1, U, MinedSlates)
              /\ SoundChange(db, d2, U, MinedSlates)
  <2>1. SoundChange(db, d, U, MinedSlates) /\ DbSound(d, U, MinedSlates)
    BY <1>4, <1>10
  <2>2. SoundChange(d, d1, U, MinedSlates) /\ SoundChange(d, d2, U, MinedSlates)
    BY <1>2, <1>3, <1>5, <1>6, <1>10, <2>1, MinedFacts, SelectedSound
  <2> HIDE DEF d1, d2
  <2> QED
    BY <2>1, <2>2, SoundThen
<1>11. WalletStep /\ \/ db' \in {d, d1} /\ UNCHANGED world
                     \/ db' = d2 /\ Sign(tx)
  BY <1>2 DEF Call, WalletStep, tx
<1> HIDE DEF d1, d2, K
<1>12. CASE db' \in {d, d1} /\ UNCHANGED world
  <2>1. SoundChange(db, db', signed, MinedSlates)
    BY <1>8, <1>10, <1>12, MinedFacts
  <2> QED
    BY <1>11, <1>12, <2>1, ApiQuietSound DEF world
<1>13. CASE db' = d2 /\ Sign(tx)
  <2> DEFINE U == signed \cup {tx}
  <2>1. \A k \in tx.outs : \A u \in Slates : Home(db, signed, k, u) => tx.kern[1] = u
    BY <1>8, <1>9
  <2>2. DbSound(db, U, MinedSlates)
    BY <2>1, BeforeSigned
  <2>3. \A k \in K : \A t \in U : k \in t.outs => t.kern[1] = s
    BY <1>6, <1>8, <1>9
  <2>4. SoundChange(db, db', U, MinedSlates)
    BY <1>10, <1>13, <2>2, <2>3
  <2> QED
    BY <1>9, <1>11, <1>13, <2>1, <2>4, ApiSignSound
<1> QED
  BY <1>11, <1>12, <1>13

(* build_coinbase signs a coinbase with a key no slate has.                *)
LEMMA CoinbaseSound ==
    ASSUME OneAccount, MinedInv, NEW n \in 1 .. MaxHeight, build_coinbase(n)
    PROVE  MinedStep
<1> DEFINE old == KeysOf({x \in Slot : /\ ~x[2] /\ db.outs[x].cb > 0
                                       /\ db.outs[x].status = "Unconfirmed"})
           isnew(k) == k \in NewKeys(db, active, 1)
           d1(k) == IF isnew(k) THEN next_child(db, active, 1) ELSE db
           o == [root |-> active, status |-> "Unconfirmed", tx |-> -1, cb |-> n]
           cbtx(k) == [ins |-> {}, outs |-> {k}, kern |-> <<NoSlate, {k}>>, cb |-> n]
<1>1. PICK k \in old \cup NewKeys(db, active, 1) :
        /\ isnew(k) => HasChildren(db, active, 1)
        /\ Call({d1(k)}, SaveOutput(d1(k), <<k, FALSE>>, o), Sign(cbtx(k)))
  BY DEF build_coinbase
<1> DEFINE e1 == d1(k)
           e2 == SaveOutput(e1, <<k, FALSE>>, o)
           tx == cbtx(k)
<1>2. k \in Key /\ \A u \in Slates : ~Home(db, signed, k, u)
  <2>1. CASE isnew(k)
    <3>1. Drawn(db, k)
      BY <1>1, <2>1, MinedFacts, NewKeysDrawn
    <3> QED
      BY <3>1 DEF Drawn, Home
  <2>2. CASE ~isnew(k)
    <3>1. PICK x \in Slot : x[1] = k /\ db.outs[x].cb > 0
      BY <1>1, <2>2 DEF KeysOf
    <3>2. CoinKey(signed, k)
      BY <3>1, MinedFacts DEF DbSound, RecordSound
    <3>3. NoSlate \notin Slates
      BY SlateAssumption
    <3> QED
      BY <3>1, <3>2, <3>3 DEF CoinKey, Home, Slot
  <2> QED
    BY <2>1, <2>2
<1>3. tx.outs = {k} /\ tx.kern[1] = NoSlate
  OBVIOUS
<1>4. ASSUME NEW U, DbSound(db, U, MinedSlates)
      PROVE  SoundChange(db, e1, U, MinedSlates)
  BY <1>1, <1>4, MinedFacts, NextChildSound, SoundSelf
<1> HIDE DEF d1, cbtx
<1>5. /\ o \in OutputData /\ o.tx = -1 /\ o.cb > 0 /\ o.cb # 0 /\ <<k, FALSE>> \in Slot
      /\ <<k, FALSE>>[1] = k
  <2>1. n \in Nat /\ n > 0 /\ active \in Acct
    BY MinedFacts, CoreAssumption
  <2>2. o \in OutputData
    BY <2>1 DEF OutputData, OutputStatus
  <2>3. o.tx = -1 /\ o.cb = n /\ n # 0
    BY <2>1
  <2>4. <<k, FALSE>> \in Slot /\ <<k, FALSE>>[1] = k
    BY <1>2 DEF Slot
  <2> QED
    BY <2>1, <2>2, <2>3, <2>4
<1>6. /\ WalletStep
      /\ \/ db' = e1 /\ UNCHANGED world
         \/ db' = e2 /\ Sign(tx)
  BY <1>1 DEF Call, WalletStep
<1> HIDE DEF o
<1>7. CASE db' = e1 /\ UNCHANGED world
  BY <1>4, <1>6, <1>7, MinedFacts, ApiQuietSound DEF world
<1>8. CASE db' = e2 /\ Sign(tx)
  <2> DEFINE U == signed \cup {tx}
  <2>1. \A j \in tx.outs : \A u \in Slates : Home(db, signed, j, u) => tx.kern[1] = u
    BY <1>2, <1>3
  <2>2. DbSound(db, U, MinedSlates)
    BY <2>1, BeforeSigned
  <2>3. CoinKey(U, k)
    BY <1>3 DEF CoinKey
  <2> HIDE DEF U, e1
  <2>4. SoundChange(db, e1, U, MinedSlates)
    BY <1>4, <2>2
  <2>5. RecordSound(e1, U, k, o, Yet)
    BY <1>5, <2>3 DEF RecordSound
  <2>6. SoundChange(e1, e2, U, MinedSlates)
    BY <1>5, <2>4, <2>5, SaveOutputSound DEF SoundChange
  <2>7. SoundChange(db, db', U, MinedSlates)
    BY <1>8, <2>4, <2>6, SoundThen
  <2> QED
    BY <1>3, <1>6, <1>8, <2>1, <2>7, ApiSignSound DEF U
<1> QED
  BY <1>6, <1>7, <1>8

(* Every API call keeps what is confirmed in the chain.                    *)
LEMMA ApiCallSound ==
    ASSUME OneAccount, MinedInv, ApiCall
    PROVE  MinedStep
<1>1. ASSUME NEW a \in Acct, set_active_account(a)
      PROVE  MinedStep
  <2>1. UNCHANGED <<db, th, chain, signed>>
    BY <1>1 DEF set_active_account, world
  <2>2. MinedSlates' = MinedSlates /\ WorldSound'
    BY <2>1 DEF MinedInv, MinedSlates, WorldSound, Blocks, Height
  <2> QED
    BY <2>1, <2>2, MinedFacts DEF MinedStep
<1> QED
  BY <1>1, RolesTyped, SendSound, SendLateSound, FailSound, TxLockSound, FinalizeSound,
     FinalizeLateSound, ReceiveSound, IssueSound, PaySound, CoinbaseSound
  DEF ApiCall

-----------------------------------------------------------------------------
(* Confirmation: threads                                                   *)

(* A thread that only forgets, and is not about to confirm, still          *)
(* remembers what is sound.                                                *)
LEMMA ForgetSound ==
    ASSUME NEW d, NEW T, NEW C, NEW q, ThreadSound(d, q, T, C), NEW r,
           r.txs \subseteq q.txs, r.todo \subseteq q.txs \cup q.todo,
           r.outs = q.outs \/ r.outs = NoOutputs, r.api \subseteq q.api,
           r.pc \notin {"kernel", "confirm"}
    PROVE  ThreadSound(d, r, T, C)
<1>1. \A x \in Slot : NoOutputs[x] = NoOutput
  BY DEF NoOutputs
<1> HIDE DEF NoOutputs
<1>2. \A x \in Slot : RecordSound(d, T, x[1], r.outs[x], {})
  BY <1>1, NoOutputSound DEF ThreadSound
<1>3. \A e \in r.txs \cup r.todo : EntrySound(e, C)
  BY DEF ThreadSound
<1> QED
  BY <1>2, <1>3 DEF ThreadSound, Seen

(* A step of a thread.                                                     *)
LEMMA ThreadSoundStep ==
    ASSUME MinedInv, NEW t \in Threads, NEW r, Become(t, r), UNCHANGED world,
           SoundChange(db, db', signed, MinedSlates),
           ThreadSound(db', r, signed, MinedSlates)
    PROVE  MinedStep
<1>1. \A u \in Threads : th'[u] = IF u = t THEN r ELSE th[u]
  BY MinedFacts DEF Become, TypeOK
<1>2. signed' = signed /\ MinedSlates' = MinedSlates /\ Blocks(Height)' = Blocks(Height)
  BY DEF world, MinedSlates, Blocks, Height
<1>3. ASSUME NEW u \in Threads, u # t
      PROVE  ThreadSound(db', th[u], signed, MinedSlates)
  BY MinedFacts, ThreadStays DEF SoundChange
<1>4. WorldSound'
  BY <1>2 DEF MinedInv, WorldSound
<1> QED
  BY <1>1, <1>2, <1>3, <1>4 DEF MinedStep, SoundChange

(* A step of a thread that remembers no more than before.                  *)
LEMMA ThreadForgets ==
    ASSUME MinedInv, NEW t \in Threads, NEW r, Become(t, r), UNCHANGED world,
           SoundChange(db, db', signed, MinedSlates),
           r.txs \subseteq th[t].txs, r.todo \subseteq th[t].txs \cup th[t].todo,
           r.outs = th[t].outs \/ r.outs = NoOutputs, r.api \subseteq th[t].api,
           r.pc \notin {"kernel", "confirm"}
    PROVE  MinedStep
<1>1. ThreadSound(db', th[t], signed, MinedSlates)
  BY MinedFacts, ThreadStays DEF SoundChange
<1>2. ThreadSound(db', r, signed, MinedSlates)
  BY <1>1, ForgetSound
<1> QED
  BY <1>2, ThreadSoundStep

(* A thread that turns idle.                                               *)
LEMMA ThreadRests ==
    ASSUME MinedInv, NEW t \in Threads, Become(t, Idle), UNCHANGED world,
           SoundChange(db, db', signed, MinedSlates)
    PROVE  MinedStep
  BY IdleSound, ThreadSoundStep

(* Starting a job.                                                         *)
LEMMA StartSound ==
    ASSUME MinedInv, NEW t \in Threads, NEW job, NEW del, NEW s, NEW i,
           Start(t, job, del, s, i)
    PROVE  MinedStep
<1> DEFINE r == [Idle EXCEPT !.pc = "refresh", !.job = job, !.del = del,
                             !.target = s, !.id = i, !.acct = active]
<1>1. r.txs = {} /\ r.todo = {} /\ r.outs = NoOutputs /\ r.pc = "refresh" /\ r.api = {}
  BY DEF Idle
<1>2. Become(t, r) /\ db' = db /\ UNCHANGED world
  BY DEF Start, NoDbStep
<1> HIDE DEF r
<1> QED
  BY <1>1, <1>2, MinedFacts, ThreadForgets

(* The refresh of an update or a scan: what the thread hears of is in the  *)
(* chain, and stays there until it is applied.                             *)
LEMMA RefreshStepSound ==
    ASSUME OneAccount, MinedInv, NEW t \in Threads, RefreshStep(t)
    PROVE  MinedStep
<1>1. th[t] \in ThreadState
  BY MinedFacts
<1>2. CASE RefreshTip(t)
  <2> DEFINE r == [Goto(t, "outputs") EXCEPT !.h = Height]
  <2>1. /\ r.txs = th[t].txs /\ r.todo = th[t].todo /\ r.outs = th[t].outs
        /\ r.pc = "outputs" /\ r.api = th[t].api
    BY <1>1 DEF ThreadState, Goto
  <2>2. Become(t, r) /\ db' = db /\ UNCHANGED world
    BY <1>2 DEF RefreshTip
  <2> HIDE DEF r
  <2> QED
    BY <2>1, <2>2, MinedFacts, ThreadForgets
<1>3. CASE RefreshOutputs(t)
  <2> DEFINE r == [Goto(t, "apply") EXCEPT !.api = Utxo]
  <2>1. /\ r.txs = th[t].txs /\ r.todo = th[t].todo /\ r.outs = th[t].outs
        /\ r.pc = "apply" /\ r.api = Utxo
    BY <1>1 DEF ThreadState, Goto
  <2>2. Become(t, r) /\ db' = db /\ UNCHANGED world
    BY <1>3 DEF RefreshOutputs, NoDbStep
  <2> HIDE DEF r
  <2>3. Seen(signed, MinedSlates, r.api)
    BY <2>1, UtxoSeen DEF MinedInv
  <2>4. ThreadSound(db, r, signed, MinedSlates)
    BY <2>1, <2>3, MinedFacts DEF ThreadSound
  <2> QED
    BY <2>2, <2>4, MinedFacts, ThreadSoundStep
<1>4. CASE RefreshApply(t)
  <2> DEFINE all == th[t].job = "scan"
             pc == IF all THEN "tip" ELSE "txs"
             r == [Goto(t, pc) EXCEPT !.api = {}, !.h = 0]
  <2>1. pc \notin {"kernel", "confirm"}
    OBVIOUS
  <2>2. /\ RefreshHasIds(db, active, all, th[t].api)
        /\ db' = refresh_output_state(db, active, all, th[t].h, th[t].api, Kernels)
        /\ Become(t, r) /\ UNCHANGED world
    BY <1>4 DEF RefreshApply
  <2> HIDE DEF all, pc
  <2>3. /\ r.txs = th[t].txs /\ r.todo = th[t].todo /\ r.outs = th[t].outs /\ r.pc = pc
        /\ r.api = {}
    BY <1>1 DEF ThreadState, Goto
  <2>4. SoundChange(db, db', signed, MinedSlates)
    <3>1. th[t].h \in Nat
      BY <1>1 DEF ThreadState
    <3>2. Seen(signed, MinedSlates, th[t].api)
      BY MinedFacts DEF ThreadSound
    <3> QED
      BY <2>2, <3>1, <3>2, MinedFacts, RefreshSound
  <2> HIDE DEF r
  <2> QED
    BY <2>1, <2>2, <2>3, <2>4, ThreadForgets
<1> QED
  BY <1>2, <1>3, <1>4 DEF RefreshStep

(* An update copies the entries that are outstanding.                      *)
LEMMA SnapshotTxsSound ==
    ASSUME MinedInv, NEW t \in Threads, SnapshotTxs(t)
    PROVE  MinedStep
<1> DEFINE txs == OutstandingTxs(db, th[t].acct)
           r == [Goto(t, "kernels") EXCEPT !.txs = txs]
<1>1. th[t] \in ThreadState /\ ThreadSound(db, th[t], signed, MinedSlates)
  BY MinedFacts
<1>2. \A e \in txs : EntrySound(e, MinedSlates)
  BY MinedFacts DEF OutstandingTxs, TxsOf, DbSound
<1>3. Become(t, r) /\ db' = db /\ UNCHANGED world
  BY DEF SnapshotTxs, NoDbStep
<1> HIDE DEF txs
<1>4. /\ r.txs = txs /\ r.todo = th[t].todo /\ r.outs = th[t].outs /\ r.pc = "kernels"
      /\ r.api = th[t].api
  BY <1>1 DEF ThreadState, Goto
<1> HIDE DEF r
<1>5. ThreadSound(db, r, signed, MinedSlates)
  BY <1>1, <1>2, <1>4 DEF ThreadSound
<1> QED
  BY <1>3, <1>5, MinedFacts, ThreadSoundStep

(* Only entries with a kernel are looked up.                               *)
LEMMA StartKernelsSound ==
    ASSUME MinedInv, NEW t \in Threads, StartKernels(t)
    PROVE  MinedStep
<1> DEFINE todo == {e \in th[t].txs : ~(e.debit /\ e.credit) /\ e.kern # NoKern}
           r == [Goto(t, "kernel") EXCEPT !.acct = active, !.h = Height, !.todo = todo]
<1>1. th[t] \in ThreadState /\ ThreadSound(db, th[t], signed, MinedSlates)
  BY MinedFacts
<1>2. todo \subseteq th[t].txs /\ \A e \in todo : e.kern # NoKern
  OBVIOUS
<1>3. Become(t, r) /\ db' = db /\ UNCHANGED world
  BY DEF StartKernels, NoDbStep
<1> HIDE DEF todo
<1>4. /\ r.txs = th[t].txs /\ r.todo = todo /\ r.outs = th[t].outs /\ r.pc = "kernel"
      /\ r.api = th[t].api
  BY <1>1 DEF ThreadState, Goto
<1> HIDE DEF r
<1>5. ThreadSound(db, r, signed, MinedSlates)
  BY <1>1, <1>2, <1>4 DEF ThreadSound
<1> QED
  BY <1>3, <1>5, MinedFacts, ThreadSoundStep

(* A copy is marked confirmed when its kernel, that of its slate, is in    *)
(* the chain.                                                              *)
LEMMA LookupKernelSound ==
    ASSUME MinedInv, NEW t \in Threads, NEW e \in th[t].todo, LookupKernel(t, e)
    PROVE  MinedStep
<1> DEFINE f == [e EXCEPT !.confirmed = TRUE]
           r1 == [Goto(t, "confirm") EXCEPT !.todo = (@ \ {e}) \cup {f}]
           r2 == [th[t] EXCEPT !.todo = @ \ {e}]
<1>1. th[t] \in ThreadState /\ ThreadSound(db, th[t], signed, MinedSlates)
  BY MinedFacts
<1>2. /\ f.slate = e.slate /\ f.debit = e.debit /\ f.kern = e.kern
      /\ f.credit = e.credit /\ f.type = e.type
  <2>1. e \in TxLogEntry
    BY <1>1 DEF ThreadState
  <2> QED
    BY <2>1 DEF TxLogEntry
<1>3. /\ (e.kern \in KernelsUpTo(th[t].h) /\ Become(t, r1)) \/ Become(t, r2)
      /\ db' = db /\ th[t].pc = "kernel" /\ UNCHANGED world
  BY DEF LookupKernel, NoDbStep, At
<1> HIDE DEF f
<1>4. /\ r1.txs = th[t].txs /\ r1.todo = (th[t].todo \ {e}) \cup {f}
      /\ r1.outs = th[t].outs /\ r1.pc = "confirm" /\ r1.api = th[t].api
      /\ r2.txs = th[t].txs /\ r2.todo = th[t].todo \ {e}
      /\ r2.outs = th[t].outs /\ r2.pc = "kernel" /\ r2.api = th[t].api
  BY <1>1, <1>3 DEF ThreadState, Goto
<1> HIDE DEF r1, r2
<1>5. EntrySound(e, MinedSlates) /\ e.kern # NoKern
  BY <1>1, <1>3 DEF ThreadSound
<1>6. ThreadSound(db, r2, signed, MinedSlates)
  BY <1>1, <1>3, <1>4 DEF ThreadSound
<1>7. CASE e.kern \in KernelsUpTo(th[t].h) /\ Become(t, r1)
  <2>1. e.kern[1] \in MinedSlates
    <3>1. Blocks(th[t].h) \subseteq Blocks(Height)
      BY <1>1, MinedFacts DEF Blocks, Height, TypeOK
    <3> QED
      BY <1>7, <3>1 DEF KernelsUpTo, MinedSlates
  <2>2. EntrySound(f, MinedSlates)
    BY <1>2, <1>5, <2>1 DEF EntrySound, Incoming
  <2>3. f.kern # NoKern
    BY <1>2, <1>5
  <2>4. ThreadSound(db, r1, signed, MinedSlates)
    BY <1>1, <1>3, <1>4, <2>2, <2>3 DEF ThreadSound
  <2> QED
    BY <1>3, <1>7, <2>4, MinedFacts, ThreadSoundStep
<1>8. CASE Become(t, r2)
  BY <1>3, <1>6, <1>8, MinedFacts, ThreadSoundStep
<1> QED
  BY <1>3, <1>7, <1>8

(* The copy that is written back is sound, whatever happened since.        *)
LEMMA SaveConfirmedSound ==
    ASSUME OneAccount, MinedInv, NEW t \in Threads, NEW e \in th[t].todo, SaveConfirmed(t, e)
    PROVE  MinedStep
<1> DEFINE r == [Goto(t, "kernel") EXCEPT !.todo = @ \ {e}]
           a == th[t].acct
<1>1. /\ th[t] \in ThreadState /\ ThreadLog(db, th[t]) /\ GoodLog(db)
      /\ ThreadSound(db, th[t], signed, MinedSlates)
  BY MinedFacts
<1>2. e \in TxLogEntry /\ a \in Acct /\ e.acct = a
  <2>1. e \in TxLogEntry /\ a \in Acct
    BY <1>1 DEF ThreadState
  <2> QED
    BY <2>1, OnlyAccount DEF TxLogEntry
<1>3. Become(t, r) /\ db' = SaveEntry(db, a, e) /\ th[t].pc = "confirm" /\ UNCHANGED world
  BY DEF SaveConfirmed, Section, At
<1>4. /\ r.txs = th[t].txs /\ r.todo = th[t].todo \ {e} /\ r.outs = th[t].outs
      /\ r.pc = "kernel" /\ r.api = th[t].api
  BY <1>1 DEF ThreadState, Goto
<1> HIDE DEF r
<1>5. Copy(db, e)
  BY <1>1 DEF ThreadLog
<1>6. /\ e.type # "None" /\ <<a, e.id>> \in Written(db)
      /\ SameEntry(Entry(db, <<a, e.id>>), e)
  BY <1>2, <1>5 DEF Copy, Place
<1>7. EntrySound(e, MinedSlates)
  BY <1>1 DEF ThreadSound
<1> HIDE DEF a
<1>8. GoodLog(db') /\ Kept(db, db')
  BY <1>1, <1>2, <1>3, <1>6, SaveAgain
<1>9. SoundChange(db, db', signed, MinedSlates)
  BY <1>2, <1>3, <1>6, <1>7, <1>8, MinedFacts, SaveEntrySound
<1>10. ThreadSound(db', th[t], signed, MinedSlates)
  BY <1>9, MinedFacts, ThreadStays DEF SoundChange
<1>11. ThreadSound(db', r, signed, MinedSlates)
  BY <1>3, <1>4, <1>10 DEF ThreadSound
<1> QED
  BY <1>3, <1>9, <1>11, ThreadSoundStep

(* The kernel lookups of an update.                                        *)
LEMMA KernelStepSound ==
    ASSUME OneAccount, MinedInv, NEW t \in Threads, KernelStep(t)
    PROVE  MinedStep
<1>1. CASE KernelsDone(t)
  <2> DEFINE r == [Goto(t, "tip") EXCEPT !.h = 0]
  <2>1. th[t] \in ThreadState
    BY MinedFacts
  <2>2. /\ r.txs = th[t].txs /\ r.todo = th[t].todo /\ r.outs = th[t].outs /\ r.pc = "tip"
        /\ r.api = th[t].api
    BY <2>1 DEF ThreadState, Goto
  <2>3. Become(t, r) /\ db' = db /\ UNCHANGED world
    BY <1>1 DEF KernelsDone, NoDbStep
  <2> HIDE DEF r
  <2> QED
    BY <2>2, <2>3, MinedFacts, ThreadForgets
<1> QED
  BY <1>1, SnapshotTxsSound, StartKernelsSound, LookupKernelSound, SaveConfirmedSound
  DEF KernelStep

(* The repair of one output of a scan.  First half: its entry.             *)
LEMMA FixEntrySound ==
    ASSUME OneAccount, MinedInv, NEW t \in Threads, NEW x \in th[t].fix, NEW pc, NEW next,
           FixEntry(t, x, pc, next), next \notin {"kernel", "confirm"}
    PROVE  MinedStep
<1> DEFINE r == [Goto(t, next) EXCEPT !.cur = {x}]
<1>1. th[t] \in ThreadState
  BY MinedFacts
<1>2. /\ r.txs = th[t].txs /\ r.todo = th[t].todo /\ r.outs = th[t].outs /\ r.pc = next
      /\ r.api = th[t].api
  BY <1>1 DEF ThreadState, Goto
<1>3. /\ Become(t, r) /\ UNCHANGED world
      /\ db' = cancel_tx_log_entry(db, x, th[t].outs[x])
  BY DEF FixEntry, Section
<1> HIDE DEF r
<1>4. x \in Slot
  BY <1>1 DEF ThreadState
<1>5. SoundChange(db, db', signed, MinedSlates)
  BY <1>3, <1>4, MinedFacts, CancelLogSound
<1> QED
  BY <1>2, <1>3, <1>5, ThreadForgets

(* Second half: the copied record is written back, or the record removed.  *)
LEMMA FixOutputSound ==
    ASSUME MinedInv, NEW t \in Threads, NEW x \in th[t].cur, NEW pc, NEW next,
           NEW o \in OutputData, FixOutput(t, x, pc, next, o),
           o.tx = -1 \/ <<o.root, o.tx>> \in Written(db),
           RecordSound(db, signed, x[1], o, Yet), next \notin {"kernel", "confirm"}
    PROVE  MinedStep
<1> DEFINE r == [Goto(t, next) EXCEPT !.cur = {}, !.fix = @ \ {x}]
<1>1. th[t] \in ThreadState
  BY MinedFacts
<1>2. /\ r.txs = th[t].txs /\ r.todo = th[t].todo /\ r.outs = th[t].outs /\ r.pc = next
      /\ r.api = th[t].api
  BY <1>1 DEF ThreadState, Goto
<1>3. Become(t, r) /\ db' = SaveOutput(db, x, o) /\ UNCHANGED world
  BY DEF FixOutput, Section
<1> HIDE DEF r
<1>4. x \in Slot
  BY <1>1 DEF ThreadState
<1>5. SoundChange(db, db', signed, MinedSlates)
  BY <1>3, <1>4, MinedFacts, SaveOutputSound
<1> QED
  BY <1>2, <1>3, <1>5, ThreadForgets

(* The readings of a scan: the tip, the chain's outputs, the records.      *)
LEMMA ScanReadSound ==
    ASSUME MinedInv, NEW t \in Threads,
           ScanTip(t) \/ collect_chain_outputs(t) \/ SnapshotOutputs(t)
    PROVE  MinedStep
<1>1. th[t] \in ThreadState /\ ThreadSound(db, th[t], signed, MinedSlates)
  BY MinedFacts
<1>2. CASE ScanTip(t)
  <2> DEFINE r == [Goto(t, "collect") EXCEPT !.h = Height]
  <2>1. /\ r.txs = th[t].txs /\ r.todo = th[t].todo /\ r.outs = th[t].outs
        /\ r.pc = "collect" /\ r.api = th[t].api
    BY <1>1 DEF ThreadState, Goto
  <2>2. Become(t, r) /\ db' = db /\ UNCHANGED world
    BY <1>2 DEF ScanTip, NoDbStep
  <2> HIDE DEF r
  <2> QED
    BY <2>1, <2>2, MinedFacts, ThreadForgets
<1>3. CASE collect_chain_outputs(t)
  <2> DEFINE r == [Goto(t, "snapshot") EXCEPT !.found = UtxoUpTo(th[t].h)]
  <2>1. /\ r.txs = th[t].txs /\ r.todo = th[t].todo /\ r.outs = th[t].outs
        /\ r.pc = "snapshot" /\ r.api = th[t].api
    BY <1>1 DEF ThreadState, Goto
  <2>2. Become(t, r) /\ db' = db /\ UNCHANGED world
    BY <1>3 DEF collect_chain_outputs, NoDbStep
  <2> HIDE DEF r
  <2> QED
    BY <2>1, <2>2, MinedFacts, ThreadForgets
<1>4. CASE SnapshotOutputs(t)
  <2> DEFINE r == [Goto(t, "spent") EXCEPT
                      !.outs = db.outs, !.fix = Matched(db.outs, th[t].found, "Spent")]
  <2>1. /\ r.txs = th[t].txs /\ r.todo = th[t].todo /\ r.outs = db.outs
        /\ r.pc = "spent" /\ r.api = th[t].api
    BY <1>1 DEF ThreadState, Goto
  <2>2. Become(t, r) /\ db' = db /\ UNCHANGED world
    BY <1>4 DEF SnapshotOutputs, NoDbStep
  <2> HIDE DEF r
  <2>3. \A x \in Slot : RecordSound(db, signed, x[1], db.outs[x], {})
    BY MinedFacts, RestatedSound DEF DbSound
  <2>4. ThreadSound(db, r, signed, MinedSlates)
    BY <1>1, <2>1, <2>3 DEF ThreadSound
  <2> QED
    BY <2>2, <2>4, MinedFacts, ThreadSoundStep
<1> QED
  BY <1>2, <1>3, <1>4

(* A coinbase on the chain was signed as one.                              *)
LEMMA ChainCoinbase ==
    ASSUME WorldSound, NEW k \in Key, CoinbaseHeight[k] > 0
    PROVE  CoinKey(signed, k)
<1>1. CoinbaseHeight[k] = 0 \/ \E tx \in signed : tx.cb > 0 /\ k \in tx.outs
  BY DEF CoinbaseHeight
<1> HIDE DEF CoinbaseHeight
<1>2. PICK tx \in signed : tx.cb > 0 /\ k \in tx.outs
  BY <1>1
<1> QED
  BY <1>2 DEF CoinKey, WorldSound

(* The turns of a scan from one phase to the next.                         *)
LEMMA ScanTurnSound ==
    ASSUME OneAccount, MinedInv, NEW t \in Threads,
           \/ SpentDone(t) \/ LockedDone(t) \/ UnconfirmedDone(t)
           \/ RestoreMissing(t) \/ ScanDone(t)
    PROVE  MinedStep
<1>1. th[t] \in ThreadState
  BY MinedFacts
<1> DEFINE K == Missing(th[t].outs, th[t].found)
<1>2. K \subseteq Key
  BY <1>1, MatchedTyped DEF ThreadState
<1>3. CASE SpentDone(t) \/ UnconfirmedDone(t)
  <2>1. PICK pc \in {"restore", "children"} :
            Become(t, Goto(t, pc)) /\ db' = db /\ UNCHANGED world
    BY <1>3 DEF SpentDone, UnconfirmedDone, NoDbStep
  <2> DEFINE r == Goto(t, pc)
  <2>2. /\ r.txs = th[t].txs /\ r.todo = th[t].todo /\ r.outs = th[t].outs
        /\ r.pc = pc /\ r.api = th[t].api
    BY <1>1 DEF ThreadState, Goto
  <2>3. Become(t, r)
    BY <2>1
  <2> HIDE DEF r
  <2> QED
    BY <2>1, <2>2, <2>3, MinedFacts, ThreadForgets
<1>4. CASE LockedDone(t)
  <2> DEFINE F == {x \in Slot : th[t].outs[x].status = "Unconfirmed"}
             r == [Goto(t, "unconfirmed") EXCEPT !.fix = F]
  <2>1. Become(t, r) /\ db' = db /\ UNCHANGED world
    BY <1>4 DEF LockedDone, NoDbStep
  <2> HIDE DEF F
  <2>2. /\ r.txs = th[t].txs /\ r.todo = th[t].todo /\ r.outs = th[t].outs
        /\ r.pc = "unconfirmed" /\ r.api = th[t].api
    BY <1>1 DEF ThreadState, Goto
  <2> HIDE DEF r
  <2> QED
    BY <2>1, <2>2, MinedFacts, ThreadForgets
<1>5. CASE RestoreMissing(t)
  <2> DEFINE F == IF th[t].del THEN Matched(th[t].outs, th[t].found, "Locked") ELSE {}
             next == IF th[t].del THEN "locked" ELSE "children"
             r == [Goto(t, next) EXCEPT !.fix = F]
  <2>1. /\ Become(t, r) /\ RestoreHasIds(db, K) /\ UNCHANGED world
        /\ db' = restore_missing_outputs(db, K, CoinbaseHeight)
    BY <1>5 DEF RestoreMissing, Section
  <2> HIDE DEF F, K
  <2>2. /\ r.txs = th[t].txs /\ r.todo = th[t].todo /\ r.outs = th[t].outs
        /\ r.pc \in {"locked", "children"} /\ r.api = th[t].api
    BY <1>1 DEF ThreadState, Goto
  <2> HIDE DEF r
  <2>3. \A k \in K : CoinbaseHeight[k] > 0 => CoinKey(signed, k)
    BY <1>2, ChainCoinbase DEF MinedInv
  <2>4. CoinbaseHeight \in [Key -> Nat]
    BY MinedFacts, ChainTyped
  <2>5. SoundChange(db, db', signed, MinedSlates)
    BY <1>2, <2>1, <2>3, <2>4, MinedFacts, RestoreSound
  <2> QED
    BY <2>1, <2>2, <2>5, ThreadForgets
<1>6. CASE ScanDone(t)
  <2> DEFINE E == {e \in th[t].txs : e.ttl # 0 /\ th[t].h >= e.ttl}
             r == [Goto(t, "ttl") EXCEPT !.found = {}, !.outs = NoOutputs, !.todo = E]
  <2>1. /\ Become(t, Idle) \/ Become(t, r)
        /\ db' = restore_child_indices(db, K) /\ UNCHANGED world
    BY <1>6 DEF ScanDone, Section
  <2>2. E \subseteq th[t].txs
    OBVIOUS
  <2> HIDE DEF E, K
  <2>3. /\ r.txs = th[t].txs /\ r.todo = E /\ r.outs = NoOutputs /\ r.pc = "ttl"
        /\ r.api = th[t].api
    BY <1>1 DEF ThreadState, Goto
  <2> HIDE DEF r
  <2>4. SoundChange(db, db', signed, MinedSlates)
    BY <1>2, <2>1, MinedFacts, ChildIndicesSound
  <2>5. CASE Become(t, r)
    BY <2>1, <2>2, <2>3, <2>4, <2>5, ThreadForgets
  <2>6. CASE Become(t, Idle)
    BY <2>1, <2>4, <2>6, ThreadRests
  <2> QED
    BY <2>1, <2>5, <2>6
<1> QED
  BY <1>3, <1>4, <1>5, <1>6

(* Every step of a scan.                                                   *)
LEMMA ScanStepSound ==
    ASSUME OneAccount, MinedInv, NEW t \in Threads, ScanStep(t)
    PROVE  MinedStep
<1>1. ASSUME NEW x \in th[t].fix,
             SpentEntry(t, x) \/ LockedEntry(t, x) \/ UnconfirmedEntry(t, x)
      PROVE  MinedStep
  BY <1>1, FixEntrySound DEF SpentEntry, LockedEntry, UnconfirmedEntry
<1>2. ASSUME NEW x \in th[t].cur,
             SpentOutput(t, x) \/ LockedOutput(t, x) \/ UnconfirmedOutput(t, x)
      PROVE  MinedStep
  <2> DEFINE o == CopyUnspent(t, x)
             q == th[t].outs[x]
  <2>1. /\ th[t] \in ThreadState /\ ThreadLog(db, th[t])
        /\ ThreadSound(db, th[t], signed, MinedSlates)
    BY MinedFacts
  <2>2. q \in OutputData /\ x \in Slot
    BY <2>1 DEF ThreadState
  <2>3. /\ o \in OutputData /\ o.root = q.root /\ o.tx = q.tx /\ o.cb = q.cb
        /\ o.status = "Unspent"
    BY <2>2 DEF CopyUnspent, OutputData, OutputStatus
  <2>4. o.tx = -1 \/ <<o.root, o.tx>> \in Written(db)
    BY <2>1, <2>2, <2>3 DEF ThreadLog
  <2>5. RecordSound(db, signed, x[1], q, {})
    BY <2>1, <2>2 DEF ThreadSound
  <2>6. NoOutput \in OutputData /\ NoOutput.tx = -1
    BY NothingTyped DEF NoOutput
  <2>7. CASE UnconfirmedOutput(t, x)
    <3>1. PICK pc, next : /\ FixOutput(t, x, pc, next, NoOutput)
                          /\ next \notin {"kernel", "confirm"}
      BY <2>7 DEF UnconfirmedOutput
    <3>2. RecordSound(db, signed, x[1], NoOutput, Yet)
      BY NoOutputSound
    <3> HIDE DEF o, q
    <3> QED
      BY <2>6, <3>1, <3>2, FixOutputSound
  <2>8. CASE SpentOutput(t, x) \/ LockedOutput(t, x)
    <3>1. PICK pc, next : /\ FixOutput(t, x, pc, next, o)
                          /\ next \notin {"kernel", "confirm"}
      BY <2>8 DEF SpentOutput, LockedOutput
    <3> HIDE DEF o, q
    <3>2. o.status \notin Yet
      BY <2>3 DEF Yet
    <3>3. RecordSound(db, signed, x[1], o, Yet)
      BY <2>3, <2>5, <3>2, RestatedSound
    <3> QED
      BY <2>3, <2>4, <3>1, <3>3, FixOutputSound
  <2> QED
    BY <1>2, <2>7, <2>8
<1> QED
  BY <1>1, <1>2, ScanReadSound, ScanTurnSound DEF ScanStep

(* Cancelling, by time-to-live or on request.                              *)
LEMMA CancelStepSound ==
    ASSUME OneAccount, MinedInv, NEW t \in Threads, CancelStep(t)
    PROVE  MinedStep
<1>1. th[t] \in ThreadState
  BY MinedFacts
<1>2. ASSUME NEW P, P \subseteq Written(db), NEW d,
             d = (IF CanCancel(db, P) THEN cancel_tx_and_outputs(db, active, P) ELSE db)
      PROVE  SoundChange(db, d, signed, MinedSlates)
  <2>1. CASE CanCancel(db, P)
    <3>1. P # {}
      BY <2>1, FS_EmptySet DEF CanCancel
    <3> QED
      BY <1>2, <2>1, <3>1, MinedFacts, CancelSound
  <2>2. CASE ~CanCancel(db, P)
    BY <1>2, <2>2, MinedFacts
  <2> QED
    BY <2>1, <2>2
<1>3. ASSUME NEW e \in th[t].todo, CancelExpired(t, e)
      PROVE  MinedStep
  <2> DEFINE P == TxsWithId(db, active, e.id)
             r == [th[t] EXCEPT !.todo = @ \ {e}]
  <2>1. P \subseteq Written(db)
    BY DEF TxsWithId, TxsOf
  <2>2. /\ Become(t, r) \/ Become(t, Idle)
        /\ th[t].pc = "ttl" /\ UNCHANGED world
        /\ db' = (IF CanCancel(db, P) THEN cancel_tx_and_outputs(db, active, P) ELSE db)
    BY <1>3 DEF CancelExpired, Section, At
  <2>3. /\ r.txs = th[t].txs /\ r.todo \subseteq th[t].todo /\ r.outs = th[t].outs
        /\ r.pc = "ttl" /\ r.api = th[t].api
    BY <1>1, <2>2 DEF ThreadState
  <2> HIDE DEF r, P
  <2>4. SoundChange(db, db', signed, MinedSlates)
    BY <1>2, <2>1, <2>2
  <2>5. CASE Become(t, r)
    BY <2>2, <2>3, <2>4, <2>5, ThreadForgets
  <2>6. CASE Become(t, Idle)
    BY <2>2, <2>4, <2>6, ThreadRests
  <2> QED
    BY <2>2, <2>5, <2>6
<1>4. CASE UpdateDone(t)
  <2> DEFINE r == [Idle EXCEPT !.pc = "cancel", !.job = "cancel",
                               !.target = th[t].target, !.id = th[t].id]
  <2>1. r.txs = {} /\ r.todo = {} /\ r.outs = NoOutputs /\ r.pc = "cancel" /\ r.api = {}
    BY DEF Idle
  <2>2. (Become(t, r) \/ Become(t, Idle)) /\ db' = db /\ UNCHANGED world
    BY <1>4 DEF UpdateDone, NoDbStep
  <2> HIDE DEF r
  <2>3. CASE Become(t, r)
    BY <2>1, <2>2, <2>3, MinedFacts, ThreadForgets
  <2>4. CASE Become(t, Idle)
    BY <2>2, <2>4, MinedFacts, ThreadRests
  <2> QED
    BY <2>2, <2>3, <2>4
<1>5. CASE CancelTx(t)
  <2> DEFINE P == IF th[t].id # -1
                  THEN TxsWithId(db, active, th[t].id)
                  ELSE {p \in TxsWithSlate(db, th[t].target) : Entry(db, p).acct = active}
  <2>1. P \subseteq Written(db)
    BY DEF TxsWithId, TxsOf, TxsWithSlate
  <2>2. /\ Become(t, Idle) /\ UNCHANGED world
        /\ db' = (IF CanCancel(db, P) THEN cancel_tx_and_outputs(db, active, P) ELSE db)
    BY <1>5 DEF CancelTx, Section
  <2> HIDE DEF P
  <2>3. SoundChange(db, db', signed, MinedSlates)
    BY <1>2, <2>1, <2>2
  <2> QED
    BY <2>2, <2>3, ThreadRests
<1> QED
  BY <1>3, <1>4, <1>5 DEF CancelStep

(* A failed call to the node.                                              *)
LEMMA NodeFailureSound ==
    ASSUME MinedInv, NEW t \in Threads, NodeFailure(t)
    PROVE  MinedStep
<1> DEFINE r == [Goto(t, "tip") EXCEPT !.api = {}, !.h = 0]
<1>1. /\ r.txs = th[t].txs /\ r.todo = th[t].todo /\ r.outs = th[t].outs /\ r.pc = "tip"
      /\ r.api = {}
  BY MinedFacts DEF ThreadState, Goto
<1>2. (Become(t, r) \/ Become(t, Idle)) /\ db' = db /\ UNCHANGED world
  BY DEF NodeFailure
<1> HIDE DEF r
<1>3. CASE Become(t, r)
  BY <1>1, <1>2, <1>3, MinedFacts, ThreadForgets
<1>4. CASE Become(t, Idle)
  BY <1>2, <1>4, MinedFacts, ThreadRests
<1> QED
  BY <1>2, <1>3, <1>4

-----------------------------------------------------------------------------
(* Confirmation: all steps                                                 *)

(* The chain grows.                                                        *)
LEMMA ChainStepSound ==
    ASSUME MaxReorg = 0, MinedInv, ChainStep
    PROVE  MinedStep
<1>1. db' = db /\ th' = th /\ signed' = signed
  BY DEF ChainStep, Mine, MineEmpty, AddBlock, Reorg, wallet
<1>2. ~Reorg
  BY MinedFacts DEF Reorg, TypeOK
<1>3. PICK b \in signed \cup {EmptyBlock} : AddBlock(b)
  BY <1>2 DEF ChainStep, Mine, MineEmpty
<1>4. Blocks(Height)' = Blocks(Height) \cup {b}
  BY <1>3, MinedFacts, BlocksAdded
<1>5. MinedSlates \subseteq MinedSlates'
  BY <1>4 DEF MinedSlates
<1>6. WorldSound'
  BY <1>1, <1>3, <1>4 DEF MinedInv, WorldSound
<1>7. HomesStay(db, signed, db, signed) /\ Kept(db, db)
  BY MinedFacts DEF SoundChange
<1> DEFINE C == MinedSlates
           D == MinedSlates'
<1>8. C \subseteq D
  BY <1>5
<1>9. DbSound(db, signed, C) /\ GoodLog(db) /\ db \in WalletDB
  BY MinedFacts
<1>10. \A t \in Threads : ThreadSound(db, th[t], signed, C) /\ ThreadLog(db, th[t])
  BY MinedFacts
<1> HIDE DEF C, D
<1>11. DbSound(db, signed, D)
  BY <1>7, <1>8, <1>9, DbStays
<1>12. \A t \in Threads : ThreadSound(db, th[t], signed, D)
  BY <1>7, <1>8, <1>9, <1>10, ThreadStays
<1> QED
  BY <1>1, <1>6, <1>11, <1>12 DEF MinedStep, D

(* Every step keeps what is confirmed in the chain.                        *)
LEMMA NextMined ==
    ASSUME OneAccount, MaxReorg = 0, MinedInv, [Next]_vars
    PROVE  MinedStep
<1>1. CASE UNCHANGED vars
  <2>1. UNCHANGED <<db, th, chain, signed>>
    BY <1>1 DEF vars
  <2>2. MinedSlates' = MinedSlates /\ WorldSound'
    BY <2>1 DEF MinedInv, MinedSlates, WorldSound, Blocks, Height
  <2> QED
    BY <2>1, <2>2, MinedFacts DEF MinedStep
<1>2. ASSUME NEW t \in Threads, ThreadStep(t)
      PROVE  MinedStep
  <2>1. CASE StartJob(t)
    BY <2>1, StartSound DEF StartJob
  <2>2. CASE JobStep(t)
    BY <2>2, RefreshStepSound, KernelStepSound, ScanStepSound, CancelStepSound DEF JobStep
  <2>3. CASE NodeFailure(t)
    BY <2>3, NodeFailureSound
  <2> QED
    BY <1>2, <2>1, <2>2, <2>3 DEF ThreadStep
<1>3. CASE Crash
  BY <1>3, MinedFacts, ApiQuietSound DEF Crash, WalletStep, world
<1>4. CASE ApiCall
  BY <1>4, ApiCallSound
<1>5. CASE ChainStep
  BY <1>5, ChainStepSound
<1> QED
  BY <1>1, <1>2, <1>3, <1>4, <1>5 DEF Next

(* Nothing has been signed or received at the start.                       *)
LEMMA InitMined ==
    ASSUME OneAccount, Init
    PROVE  MinedInv
<1>1. LogInv /\ db = InitDB /\ signed = {} /\ chain = <<>>
  BY InitLog DEF Init
<1>2. WorldSound
  BY <1>1 DEF WorldSound, Blocks, Height
<1>3. ASSUME NEW p \in Pos
      PROVE  /\ Entry(InitDB, p).slate = NoSlate
             /\ EntrySound(Entry(InitDB, p), MinedSlates)
  <2>1. Entry(InitDB, p) = InitEntry(p[1], p[2])
    BY DEF Pos, Entry, InitDB
  <2>2. /\ InitEntry(p[1], p[2]).slate = NoSlate
        /\ EntrySound(InitEntry(p[1], p[2]), MinedSlates)
    BY DEF InitEntry, NoEntry, EntrySound, Incoming
  <2> QED
    BY <2>1, <2>2
<1>4. ASSUME NEW x \in Slot
      PROVE  RecordSound(InitDB, {}, x[1], InitDB.outs[x], Yet)
  <2> DEFINE o == InitDB.outs[x]
  <2>1. CASE x \in Genesis \X {TRUE}
    <3>1. o.cb = 0 /\ o.root = x[1][1] /\ o.tx = x[1][2]
      BY <2>1 DEF InitDB
    <3>2. <<o.root, o.tx>> \in Pos
      BY <2>1, <3>1, CoreAssumption, SizesAssumption DEF Genesis, Ids, Pos
    <3> HIDE DEF o
    <3>3. OwnerOf(InitDB, o).slate = NoSlate
      BY <1>3, <3>2 DEF OwnerOf
    <3>4. RecordSound(InitDB, {}, x[1], o, Yet)
      BY <3>1, <3>3 DEF RecordSound
    <3> QED
      BY <3>4 DEF o
  <2>2. CASE x \notin Genesis \X {TRUE}
    <3>1. InitDB.outs[x] = NoOutput
      BY <2>2 DEF InitDB
    <3> QED
      BY <3>1, NoOutputSound
  <2> QED
    BY <2>1, <2>2
<1>5. \A s \in Slates : ContextSound(InitDB, {}, s)
  BY DEF InitDB, NoContext, ContextSound
<1>6. DbSound(InitDB, {}, MinedSlates)
  BY <1>3, <1>4, <1>5 DEF DbSound, Written
<1> QED
  BY <1>1, <1>2, <1>6, IdleSound DEF MinedInv, Init

(* What the wallet shows as confirmed for a slate is in the chain, as long *)
(* as the chain loses no block: a kernel is only taken as found when it is *)
(* the slate's own, and an output only makes its entry confirmed if no     *)
(* other slate's transaction has it (refresh_output_state,                 *)
(* update_txs_via_kernel, scan, receive_tx, finalize_tx), for a wallet     *)
(* with one account and any number of slates and threads, with crashes,    *)
(* late locking and failing nodes.                                         *)
THEOREM ConfirmedHolds == OneAccount /\ MaxReorg = 0 => (Spec => []ConfirmedMined)
<1> SUFFICES ASSUME OneAccount, MaxReorg = 0 PROVE Spec => []ConfirmedMined
  OBVIOUS
<1>1. Init => MinedInv
  BY InitMined
<1>2. MinedInv /\ [Next]_vars => MinedInv'
  <2> SUFFICES ASSUME MinedInv, [Next]_vars PROVE MinedInv'
    OBVIOUS
  <2>1. MinedStep
    BY NextMined
  <2>2. LogStep
    BY NextLog DEF MinedInv
  <2>3. Inv'
    BY NextInv DEF MinedInv, LogInv
  <2>4. LogInv'
    BY <2>2, <2>3 DEF LogStep, LogInv
  <2> QED
    BY <2>1, <2>4 DEF MinedStep, MinedInv
<1>3. MinedInv => ConfirmedMined
  BY MinedFacts DEF ConfirmedMined, DbSound, EntrySound, MinedSlates, OnChain
<1> QED
  BY <1>1, <1>2, <1>3, PTL DEF Spec

=============================================================================
