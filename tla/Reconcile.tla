----------------------------- MODULE Reconcile -----------------------------
(***************************************************************************)
(* How the wallet's database is brought in line with what a node reports:  *)
(* the output refresh of libwallet/src/internal/updater.rs and the repair  *)
(* steps of libwallet/src/internal/scan.rs, as operators on the database.  *)
(* api is the set of keys whose outputs the node reports unspent, kernels  *)
(* the set of kernels it finds, h the height of its chain.                 *)
(***************************************************************************)
EXTENDS WalletDb

(* A strict order on keys, for the places where the code walks a hash map: *)
(* the ids handed out depend on the order but nothing else does.           *)
Before(j, k) == j[1] < k[1] \/ (j[1] = k[1] /\ j[2] < k[2])

Rank(K, k) == Cardinality({j \in K : Before(j, k)})

-----------------------------------------------------------------------------
(* refresh_output_state                                                    *)

(* map_wallet_outputs: outputs of account a that are not spent, restricted *)
(* to those of outstanding transactions unless all is set.  The map is     *)
(* keyed by commitment, so of two records with one key the later wins.     *)
Refreshable(d, a, all) ==
    {x \in Slot :
        LET o == d.outs[x] IN
          /\ o.root = a
          /\ o.status \notin {"None", "Spent"}
          /\ \/ all
             \/ o.tx = -1
             \/ \E e \in OutstandingTxs(d, a) : e.id = o.tx}

map_wallet_outputs(d, a, all) ==
    LET R == Refreshable(d, a, all)
    IN  {x \in R : x[2] \/ <<x[1], TRUE>> \notin R}

(* Ids of received transactions whose output has left the UTXO set and     *)
(* whose kernel the node does not find.                                    *)
find_reverted_kernels(d, a, M, api, kernels) ==
    {i \in Ids :
        /\ \E x \in M : /\ d.outs[x].tx = i
                        /\ d.outs[x].status = "Unspent"
                        /\ x[1] \notin api
        /\ \E p \in TxsWithId(d, a, i) :
              /\ Entry(d, p).type = "TxReceived"
              /\ Entry(d, p).kern # NoKern
              /\ Entry(d, p).kern \notin kernels}

(* OutputData::mark_unspent, mark_spent and mark_reverted.                 *)
mark_unspent(o) ==
    IF o.status \in {"Unconfirmed", "Reverted"}
    THEN [o EXCEPT !.status = "Unspent"] ELSE o

(* Mutant: whatever is not reported counts as spent.                       *)
mark_spent_any(o) == [o EXCEPT !.status = "Spent"]

mark_spent(o) ==
    IF o.status \in {"Unspent", "Locked"}
    THEN [o EXCEPT !.status = "Spent"] ELSE o

mark_reverted(o) ==
    IF o.status = "Unspent" THEN [o EXCEPT !.status = "Reverted"] ELSE o

(* Coinbase outputs seen on the chain for the first time; each gets a log  *)
(* entry of its own.                                                       *)
NewCoinbases(d, M, api) ==
    {x \in M : x[1] \in api /\ d.outs[x].cb > 0 /\ d.outs[x].status = "Unconfirmed"}

(* Mutant: the batch numbers its entries without advancing.                *)
CoinbaseId_shared(d, a, M, api, x) == d.nextTx[a]

CoinbaseId(d, a, M, api, x) ==
    d.nextTx[a] + Rank(KeysOf(NewCoinbases(d, M, api)), x[1])

CoinbaseEntry(a, i, k) ==
    [id |-> i, acct |-> a, type |-> "ConfirmedCoinbase", slate |-> NoSlate,
     confirmed |-> TRUE, debit |-> FALSE, credit |-> TRUE,
     kern |-> <<NoSlate, {k}>>, ttl |-> 0]

(* Ids of the entries confirmed because one of their outputs is seen.      *)
ConfirmedIds(d, a, M, api) ==
    {i \in Ids :
        /\ TxsWithId(d, a, i) # {}
        /\ \E x \in M : /\ d.outs[x].tx = i
                        /\ d.outs[x].cb = 0
                        /\ d.outs[x].status \in {"Unconfirmed", "Reverted"}
                        /\ x[1] \in api}

RefreshedOutput(d, a, M, api, rev, x) ==
    LET o == d.outs[x] IN
    IF x \in NewCoinbases(d, M, api)
    THEN [o EXCEPT !.status = "Unspent", !.tx = CoinbaseId(d, a, M, api, x)]
    ELSE IF x[1] \in api THEN mark_unspent(o)
    ELSE IF o.cb = 0 /\ o.tx \in rev THEN mark_reverted(o)
    ELSE mark_spent(o)

(* The account's log: new coinbase entries, then confirmations, then       *)
(* reverts, all stored under a.  A confirmation is read from the first     *)
(* entry with the id, a revert from the last one, by then confirmed if it  *)
(* is the one stored under a.                                              *)
RefreshedEntry(d, a, M, api, rev, i) ==
    LET new == {x \in NewCoinbases(d, M, api) : CoinbaseId(d, a, M, api, x) = i}
        P == TxsWithId(d, a, i)
        old == IF P = {} THEN d.txlog[a][i] ELSE Entry(d, First(P))
        conf == [old EXCEPT !.confirmed = TRUE,
                            !.type = IF @ = "TxReverted" THEN "TxReceived" ELSE @]
        seen == i \in ConfirmedIds(d, a, M, api)
        last == IF seen /\ \A p \in P : p[1] <= a THEN conf ELSE Entry(d, LastOf(P))
    IN  IF new # {} THEN CoinbaseEntry(a, i, (CHOOSE x \in new : TRUE)[1])
        ELSE IF i \in rev /\ P # {}
        THEN [last EXCEPT !.type = "TxReverted", !.confirmed = FALSE]
        ELSE IF seen THEN conf
        ELSE d.txlog[a][i]

apply_api_outputs(d, a, M, api, rev, h) ==
    IF h < d.confH[a]
    THEN d
    ELSE [d EXCEPT
            !.outs = [x \in Slot |-> IF x \in M
                                     THEN RefreshedOutput(d, a, M, api, rev, x)
                                     ELSE d.outs[x]],
            !.txlog[a] = [i \in Ids |-> RefreshedEntry(d, a, M, api, rev, i)],
            !.nextTx[a] = @ + Cardinality(KeysOf(NewCoinbases(d, M, api))),
            !.confH[a] = h]

(* clean_old_unconfirmed: over all accounts; the deletion names no MMR     *)
(* index.                                                                  *)
clean_old_unconfirmed(d, h) ==
    LET stale == {x \in Slot : LET o == d.outs[x] IN
                     /\ o.status = "Unconfirmed"
                     /\ 0 < o.cb
                     /\ o.cb < h - StaleAge}
    IN  IF h < StaleAge
        THEN d
        ELSE [d EXCEPT !.outs = [x \in Slot |->
                 IF x \in KeysOf(stale) \X {FALSE} THEN NoOutput ELSE d.outs[x]]]

(* What is left of a refresh once the node has answered both queries.      *)
refresh_output_state(d, a, all, h, api, kernels) ==
    LET M == map_wallet_outputs(d, a, all)
        rev == find_reverted_kernels(d, a, M, api, kernels)
    IN  clean_old_unconfirmed(apply_api_outputs(d, a, M, api, rev, h), h)

(* The log ids a refresh needs.                                            *)
RefreshHasIds(d, a, all, api) ==
    HasIds(d, a, Cardinality(NewCoinbases(d, map_wallet_outputs(d, a, all), api)))

-----------------------------------------------------------------------------
(* scan                                                                    *)

(* cancel_tx_log_entry: the entry is looked up in the account of the       *)
(* output's key path, and only its type changes.                           *)
cancel_tx_log_entry(d, x, o) ==
    LET a == x[1][1]
        P == TxsWithId(d, a, o.tx)
        e == Entry(d, First(P))
    IN  IF P = {}
        THEN d
        ELSE SaveEntry(d, a, [e EXCEPT !.type =
                 CASE @ = "TxSent" -> "TxSentCancelled"
                   [] @ = "TxReceived" -> "TxReceivedCancelled"
                   [] OTHER -> @])

(* The record of wallet snapshot w that matches a chain output: the one    *)
(* without MMR index comes first in the database.                          *)
Match(w, k) == IF w[<<k, FALSE>>].status # "None" THEN <<k, FALSE>> ELSE <<k, TRUE>>

(* Chain outputs C that have no record, and the matched records with a     *)
(* given status, in snapshot w.                                            *)
Missing(w, C) == {k \in C : w[Match(w, k)].status = "None"}

Matched(w, C, status) ==
    {x \in {Match(w, k) : k \in C} : w[x].status = status}

(* restore_missing_outputs for keys K; cb gives the height of a coinbase.  *)
RestoreHasIds(d, K) ==
    \A a \in Acct : HasIds(d, a, Cardinality({k \in K : k[1] = a}))

RestoredId(d, K, k) == d.nextTx[k[1]] + Rank({j \in K : j[1] = k[1]}, k)

RestoredOutputs(d, K, cb) ==
    [x \in Slot |->
        IF x \in K \X {TRUE}
        THEN [root |-> x[1][1], status |-> "Unspent",
              tx |-> RestoredId(d, K, x[1]), cb |-> cb[x[1]]]
        ELSE d.outs[x]]

(* Mutant: the outputs come back without log entries.                      *)
restore_missing_outputs_unlogged(d, K, cb) ==
    [d EXCEPT !.outs = RestoredOutputs(d, K, cb)]

restore_missing_outputs(d, K, cb) ==
    [d EXCEPT
        !.outs = RestoredOutputs(d, K, cb),
        !.txlog = [a \in Acct |-> [i \in Ids |->
            LET new == {k \in K : k[1] = a /\ RestoredId(d, K, k) = i} IN
            IF new = {}
            THEN d.txlog[a][i]
            ELSE [id |-> i, acct |-> a,
                  type |-> IF cb[CHOOSE k \in new : TRUE] > 0
                           THEN "ConfirmedCoinbase" ELSE "TxReceived",
                  slate |-> NoSlate, confirmed |-> TRUE, debit |-> FALSE,
                  credit |-> TRUE, kern |-> NoKern, ttl |-> 0]]],
        !.nextTx = [a \in Acct |->
            d.nextTx[a] + Cardinality({k \in K : k[1] = a})]]

(* The end of a scan: an account's child index moves past every restored   *)
(* key.                                                                    *)
restore_child_indices(d, K) ==
    [d EXCEPT !.nextChild = [a \in Acct |->
        LET found == {k[2] : k \in {j \in K : j[1] = a}}
            highest == CHOOSE n \in found : \A m \in found : m <= n
        IN  IF found # {} /\ highest >= d.nextChild[a]
            THEN highest + 1
            ELSE d.nextChild[a]]]

=============================================================================
