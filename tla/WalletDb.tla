------------------------------ MODULE WalletDb ------------------------------
(***************************************************************************)
(* The wallet's LMDB database and the pure operations on it.               *)
(*                                                                         *)
(* Every operator here maps a database value d to the database after one   *)
(* committed batch of libwallet/src/backend.rs, or reads something of it.  *)
(* The state machine that calls them is in WalletCore.                     *)
(*                                                                         *)
(* What is kept of the data: which outputs there are, their status, the    *)
(* account and the log entry they are filed under; of a log entry its      *)
(* type, account, slate, confirmation, kernel, expiry and whether it has a *)
(* debit and a credit.  Amounts, fees and names are left out (the amounts  *)
(* of a selection are the subject of module Selection).                    *)
(***************************************************************************)
EXTENDS Integers, FiniteSets

CONSTANTS
    NumAccts,   \* number of BIP32 accounts; account 0 is "default"
    MaxChild,   \* bound: child keys an account can derive
    MaxTxs,     \* bound: log entries of an account
    StaleAge,   \* the 50 blocks of clean_old_unconfirmed
    Slates,     \* slate ids (uuids)
    NoSlate     \* an absent slate id

ASSUME SizesAssumption ==
    /\ NumAccts \in Nat \ {0}
    /\ MaxChild \in Nat
    /\ MaxTxs \in Nat
    /\ StaleAge \in Nat
ASSUME SlateAssumption == NoSlate \notin Slates

Acct == 0 .. NumAccts - 1
Ids == 0 .. MaxTxs - 1

(* A derived key: the account it descends from and its child number.       *)
Key == Acct \X (0 .. MaxChild - 1)

(* A database key of an output: key_id and whether an MMR index is part of *)
(* it.  Only restored outputs have one, so one key can own two records.    *)
Slot == Key \X BOOLEAN

Kern == (Slates \cup {NoSlate}) \X SUBSET Key

(* No kernel excess, or the partial excess of an unfinished slate: neither *)
(* is ever found on the chain.                                             *)
NoKern == <<NoSlate, {}>>

OutputStatus == {"None", "Unconfirmed", "Unspent", "Locked", "Spent", "Reverted"}

(* OutputData; tx = -1 is tx_log_entry None, cb = 0 is not a coinbase and  *)
(* cb > 0 a coinbase of the block at that height.                          *)
OutputData == [root: Acct, status: OutputStatus, tx: {-1} \cup Ids, cb: Nat]
NoOutput == [root |-> 0, status |-> "None", tx |-> -1, cb |-> 0]

TxLogEntryType == {"None", "ConfirmedCoinbase", "TxReceived", "TxSent",
                   "TxReceivedCancelled", "TxSentCancelled", "TxReverted"}

TxLogEntry == [id: Ids, acct: Acct, type: TxLogEntryType,
               slate: Slates \cup {NoSlate}, confirmed: BOOLEAN,
               debit: BOOLEAN, credit: BOOLEAN, kern: Kern, ttl: Nat]
NoEntry(i) == [id |-> i, acct |-> 0, type |-> "None", slate |-> NoSlate,
               confirmed |-> FALSE, debit |-> FALSE, credit |-> FALSE,
               kern |-> NoKern, ttl |-> 0]

(* The private context saved between two rounds of a slate.  kern is the   *)
(* calculated_excess an invoice's payer stores.                            *)
Context == [kind: {"None", "Send", "Late", "Invoice", "Pay"},
            ins: SUBSET Slot, outs: SUBSET Key, acct: Acct, kern: Kern,
            ttl: Nat]
NoContext == [kind |-> "None", ins |-> {}, outs |-> {}, acct |-> 0,
              kern |-> NoKern, ttl |-> 0]

WalletDB == [outs: [Slot -> OutputData],
             txlog: [Acct -> [Ids -> TxLogEntry]],
             nextTx: [Acct -> 0 .. MaxTxs],
             nextChild: [Acct -> 0 .. MaxChild],
             confH: [Acct -> Nat],
             ctxs: [Slates -> Context]]

-----------------------------------------------------------------------------
(* Reading the database                                                    *)

KeysOf(S) == {x[1] : x \in S}

Exists(d, x) == d.outs[x].status # "None"

(* Positions of the log: the account an entry is stored under and its id.  *)
Pos == Acct \X Ids

Entry(d, p) == d.txlog[p[1]][p[2]]

Written(d) == {p \in Pos : Entry(d, p).type # "None"}

(* tx_log_iter filtered as retrieve_txs does for an account.               *)
TxsOf(d, a) == {p \in Written(d) : Entry(d, p).acct = a}

TxsWithId(d, a, i) == {p \in TxsOf(d, a) : Entry(d, p).id = i}

TxsWithSlate(d, s) == {p \in Written(d) : Entry(d, p).slate = s}

Outstanding(e) == ~e.confirmed /\ e.type \in {"TxReceived", "TxSent", "TxReverted"}

OutstandingTxs(d, a) ==
    {e \in {Entry(d, p) : p \in TxsOf(d, a)} : Outstanding(e)}

(* The database iterates by account and then by id.                        *)
First(P) == CHOOSE p \in P : \A q \in P :
                p[1] < q[1] \/ (p[1] = q[1] /\ p[2] <= q[2])

(* The last of the positions of one id.                                    *)
LastOf(P) == CHOOSE p \in P : \A q \in P : q[1] <= p[1]

(* An output a selection may pick: eligible_to_spend.  The confirmations   *)
(* asked for and a coinbase's maturity only narrow the choice; asking for  *)
(* no confirmation adds the unconfirmed outputs that are no coinbase.      *)
Eligible(d, a, zeroConf) ==
    {x \in Slot :
        /\ d.outs[x].root = a
        /\ \/ d.outs[x].status = "Unspent"
           \/ zeroConf /\ d.outs[x].status = "Unconfirmed" /\ d.outs[x].cb = 0}

-----------------------------------------------------------------------------
(* Writing it                                                              *)

SaveEntry(d, a, e) == [d EXCEPT !.txlog[a][e.id] = e]

SaveOutput(d, x, o) == [d EXCEPT !.outs[x] = o]

SaveContext(d, s, c) == [d EXCEPT !.ctxs[s] = c]

DeleteContext(d, s) == SaveContext(d, s, NoContext)

(* n calls of next_child: it derives from the active account a.            *)
NewKeys(d, a, n) == {<<a, d.nextChild[a] + k>> : k \in 0 .. n - 1}

(* Mutant of next_child: the index is saved too far.                       *)
next_child_twice(d, a, n) == [d EXCEPT !.nextChild[a] = @ + 2 * n]

next_child(d, a, n) == [d EXCEPT !.nextChild[a] = @ + n]

HasChildren(d, a, n) == d.nextChild[a] + n <= MaxChild

HasIds(d, a, n) == d.nextTx[a] + n <= MaxTxs

(* lock_tx_context: one batch writes the log entry, locks the inputs (their *)
(* status is not looked at) and writes the change.                         *)
CanLock(d, s) == \A x \in d.ctxs[s].ins : Exists(d, x)

SentEntry(d, s) ==
    LET c == d.ctxs[s]
    IN  [id |-> d.nextTx[c.acct], acct |-> c.acct, type |-> "TxSent", slate |-> s,
         confirmed |-> FALSE, debit |-> c.ins # {}, credit |-> c.outs # {},
         kern |-> c.kern, ttl |-> c.ttl]

LockedOutputs(d, s) ==
    LET c == d.ctxs[s]
        i == d.nextTx[c.acct]
        change == [root |-> c.acct, status |-> "Unconfirmed", tx |-> i, cb |-> 0]
    IN  [x \in Slot |->
            CASE x \in c.outs \X {FALSE} -> change
              [] x \in c.ins \ (c.outs \X {FALSE}) ->
                    [d.outs[x] EXCEPT !.status = "Locked", !.tx = i]
              [] OTHER -> d.outs[x]]

lock_tx_context(d, s) ==
    [SaveEntry(d, d.ctxs[s].acct, SentEntry(d, s)) EXCEPT
        !.outs = LockedOutputs(d, s),
        !.nextTx[d.ctxs[s].acct] = @ + 1]

(* build_recipient_output after next_child: an unconfirmed output filed    *)
(* under account a and its TxReceived entry.                               *)
ReceivedEntry(d, s, a, ttl) ==
    [id |-> d.nextTx[a], acct |-> a, type |-> "TxReceived", slate |-> s,
     confirmed |-> FALSE, debit |-> FALSE, credit |-> TRUE, kern |-> NoKern,
     ttl |-> ttl]

ReceivedOutput(d, a) ==
    [root |-> a, status |-> "Unconfirmed", tx |-> d.nextTx[a], cb |-> 0]

(* Mutant: the log id is not used up.                                      *)
build_recipient_output_sameId(d, s, k, a, ttl) ==
    SaveEntry(SaveOutput(d, <<k, FALSE>>, ReceivedOutput(d, a)),
              a, ReceivedEntry(d, s, a, ttl))

build_recipient_output(d, s, k, a, ttl) ==
    [SaveEntry(SaveOutput(d, <<k, FALSE>>, ReceivedOutput(d, a)),
               a, ReceivedEntry(d, s, a, ttl)) EXCEPT !.nextTx[a] = @ + 1]

(* cancel_tx for the entries P the caller's id or slate id matches.        *)
CanCancel(d, P) ==
    /\ Cardinality(P) = 1
    /\ LET e == Entry(d, First(P)) IN
         /\ e.type \in {"TxSent", "TxReceived", "TxReverted"}
         /\ ~e.confirmed

CancelledType(type) ==
    CASE type = "TxSent" -> "TxSentCancelled"
      [] type \in {"TxReceived", "TxReverted"} -> "TxReceivedCancelled"
      [] OTHER -> type

(* Mutants: a locked output stays locked, an unconfirmed one becomes       *)
(* spendable.                                                              *)
CancelledOutput_locked(o) ==
    IF o.status \in {"Unconfirmed", "Reverted"} THEN NoOutput ELSE o
CancelledOutput_spendable(o) ==
    IF o.status \in {"Unconfirmed", "Reverted", "Locked"}
    THEN [o EXCEPT !.status = "Unspent"] ELSE o

CancelledOutput(o) ==
    CASE o.status \in {"Unconfirmed", "Reverted"} -> NoOutput
      [] o.status = "Locked" -> [o EXCEPT !.status = "Unspent"]
      [] OTHER -> o

FreedOutputs(d, a, i) ==
    [x \in Slot |-> IF d.outs[x].tx = i /\ d.outs[x].root = a
                    THEN CancelledOutput(d.outs[x])
                    ELSE d.outs[x]]

(* Mutant: the entry is not marked.                                        *)
cancel_tx_and_outputs_unmarked(d, a, P) ==
    [d EXCEPT !.outs = FreedOutputs(d, a, Entry(d, First(P)).id)]

cancel_tx_and_outputs(d, a, P) ==
    LET e == Entry(d, First(P))
    IN  [SaveEntry(d, a, [e EXCEPT !.type = CancelledType(e.type)]) EXCEPT
            !.outs = FreedOutputs(d, a, e.id)]

(* update_tx_slate_state: the first entry of any account with the slate id  *)
(* is saved under account a.                                               *)
update_tx_slate_state(d, a, s) ==
    SaveEntry(d, a, Entry(d, First(TxsWithSlate(d, s))))

=============================================================================
