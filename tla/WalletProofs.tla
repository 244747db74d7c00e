---------------------------- MODULE WalletProofs ----------------------------
(***************************************************************************)
(* The wallet: types and keys, and the transaction log.                    *)
(*                                                                         *)
(* First the database operators of WalletDb and Reconcile: each keeps the  *)
(* database well typed, never moves a child index back, and keeps every    *)
(* key that a record or a context names below the index of its account.    *)
(*                                                                         *)
(* Then WalletCore is well typed, and next_child never hands out a key     *)
(* that is in use (KeysFresh), for any number of accounts, slates and      *)
(* threads and with every option of the model switched on.  KeysFresh      *)
(* alone is inductive once it is taken apart: Inv says it of the records   *)
(* and contexts (GoodDb), of the transactions (TxsDerived) and of what     *)
(* each thread remembers (ThreadDerived).                                  *)
(*                                                                         *)
(* Then the transaction log of a wallet with one account: every output     *)
(* that names a log entry names one that exists (LinkOK), no entry is lost *)
(* or overwritten by another, whatever threads and API calls interleave,   *)
(* and with a single thread an entry's type and confirmation only move as  *)
(* LogSteps allows.  (With several accounts neither holds: update_tx_slate *)
(* files an entry under the active account, and late locking files inputs  *)
(* of the active account under another account's entry.)  LinkOK is not    *)
(* inductive: that a new entry overwrites no old one needs the log ids to  *)
(* stay below the next id (LogOK), and what a thread writes back needs its *)
(* copies of entries and outputs to be copies of what the log still holds  *)
(* (ThreadLog).                                                            *)
(***************************************************************************)
EXTENDS WalletProps, FiniteSetTheorems, WellFoundedInduction, SequenceTheorems, TLAPS

-----------------------------------------------------------------------------
(* Least and greatest elements                                             *)

(* Every nonempty set of naturals has a least element.                     *)
LEMMA LeastNat ==
    ASSUME NEW S, S \subseteq Nat, S # {}
    PROVE  \E n \in S : \A m \in S : n <= m
<1>1. \E n \in S : \A m \in S : ~(<<m, n>> \in OpToRel(<, Nat))
  BY NatLessThanWellFounded, WFMin
<1>2. \A m, n \in Nat : m < n => <<m, n>> \in OpToRel(<, Nat)
  BY DEF OpToRel
<1>3. PICK n \in S : \A m \in S : ~(<<m, n>> \in OpToRel(<, Nat))
  BY <1>1
<1>4. \A m \in S : ~(m < n)
  BY <1>2, <1>3
<1> QED
  BY <1>4

(* Every nonempty set of naturals up to N has a greatest element.          *)
LEMMA GreatestNat ==
    ASSUME NEW N \in Nat, NEW S, S \subseteq 0 .. N, S # {}
    PROVE  \E n \in S : \A m \in S : m <= n
<1> DEFINE T == {N - n : n \in S}
<1>1. T \subseteq Nat /\ T # {}
  <2>1. \A n \in S : N - n \in Nat
    OBVIOUS
  <2>2. PICK n \in S : TRUE
    OBVIOUS
  <2>3. N - n \in T
    BY <2>2
  <2> QED
    BY <2>1, <2>3
<1>2. PICK t \in T : \A m \in T : t <= m
  BY <1>1, LeastNat
<1>3. PICK n \in S : t = N - n
  BY <1>2
<1>4. \A m \in S : m <= n
  <2> TAKE m \in S
  <2>1. N - m \in T
    OBVIOUS
  <2>2. N - n <= N - m
    BY <1>2, <1>3, <2>1
  <2> QED
    BY <2>2
<1> QED
  BY <1>4

(* The first position of a nonempty set of positions is one of them.       *)
LEMMA FirstIn ==
    ASSUME NEW P, P \subseteq Pos, P # {}
    PROVE  First(P) \in P
<1> DEFINE A == {p[1] : p \in P}
<1>1. A \subseteq Nat /\ A # {}
  BY SizesAssumption DEF Pos, Acct
<1>2. PICK a \in A : \A b \in A : a <= b
  BY <1>1, LeastNat
<1> DEFINE I == {p[2] : p \in {q \in P : q[1] = a}}
<1>3. I \subseteq Nat /\ I # {}
  BY SizesAssumption, <1>2 DEF Pos, Ids
<1>4. PICK i \in I : \A j \in I : i <= j
  BY <1>3, LeastNat
<1>5. PICK p \in P : p[1] = a /\ p[2] = i
  BY <1>4
<1>6. \A q \in P : p[1] < q[1] \/ (p[1] = q[1] /\ p[2] <= q[2])
  <2> TAKE q \in P
  <2>1. q[1] \in A /\ q[1] \in Nat /\ a \in Nat /\ a <= q[1]
    BY <1>1, <1>2
  <2>2. CASE q[1] = a
    <3>1. q[2] \in I
      BY <2>2
    <3> QED
      BY <1>4, <1>5, <2>2, <3>1
  <2>3. CASE a < q[1]
    BY <1>5, <2>3
  <2> QED
    BY <2>1, <2>2, <2>3
<1> QED
  BY <1>6 DEF First

(* The last position of a nonempty set of positions is one of them.        *)
LEMMA LastOfIn ==
    ASSUME NEW P, P \subseteq Pos, P # {}
    PROVE  LastOf(P) \in P
<1> DEFINE A == {p[1] : p \in P}
<1>1. A \subseteq 0 .. NumAccts /\ A # {} /\ NumAccts \in Nat
  BY SizesAssumption DEF Pos, Acct
<1>2. PICK a \in A : \A b \in A : b <= a
  BY <1>1, GreatestNat
<1>3. PICK p \in P : p[1] = a
  BY <1>2
<1>4. \A q \in P : q[1] <= p[1]
  BY <1>2, <1>3
<1> QED
  BY <1>4 DEF LastOf

-----------------------------------------------------------------------------
(* Writing                                                                 *)

(* Saving a log entry (save_tx_log_entry) keeps the database well typed.   *)
LEMMA SaveEntryType ==
    ASSUME NEW d \in WalletDB, NEW a \in Acct, NEW e \in TxLogEntry
    PROVE  SaveEntry(d, a, e) \in WalletDB
  BY DEF SaveEntry, WalletDB

(* Saving an output record (save) keeps the database well typed.           *)
LEMMA SaveOutputType ==
    ASSUME NEW d \in WalletDB, NEW x \in Slot, NEW o \in OutputData
    PROVE  SaveOutput(d, x, o) \in WalletDB
  BY DEF SaveOutput, WalletDB

(* Saving a private context (save_private_context) keeps the database well *)
(* typed.                                                                  *)
LEMMA SaveContextType ==
    ASSUME NEW d \in WalletDB, NEW s \in Slates, NEW c \in Context
    PROVE  SaveContext(d, s, c) \in WalletDB
  BY DEF SaveContext, WalletDB

(* The values that stand for an absent output, context, kernel or entry    *)
(* are well typed.                                                         *)
LEMMA NothingTyped ==
    /\ NoOutput \in OutputData
    /\ NoContext \in Context
    /\ NoKern \in Kern
    /\ \A i \in Ids : NoEntry(i) \in TxLogEntry
<1>1. 0 \in Acct /\ NoKern \in Kern
  BY SizesAssumption DEF Acct, NoKern, Kern
<1> QED
  BY <1>1 DEF NoOutput, OutputData, OutputStatus, NoContext, Context, NoEntry,
              TxLogEntry, TxLogEntryType

(* What tx_log_iter reads at a position of the log is an entry.            *)
LEMMA EntryTyped ==
    ASSUME NEW d \in WalletDB, NEW p \in Pos
    PROVE  Entry(d, p) \in TxLogEntry
  BY DEF Entry, WalletDB, Pos

(* The first of a nonempty set of entries, as every lookup takes it, is an *)
(* entry.                                                                  *)
LEMMA FirstTyped ==
    ASSUME NEW d \in WalletDB, NEW P, P \subseteq Pos, P # {}
    PROVE  Entry(d, First(P)) \in TxLogEntry
  BY FirstIn, EntryTyped

(* Deleting a private context keeps the database well typed.               *)
LEMMA DeleteContextType ==
    ASSUME NEW d \in WalletDB, NEW s \in Slates
    PROVE  DeleteContext(d, s) \in WalletDB
  BY SaveContextType, NothingTyped DEF DeleteContext

(* next_child keeps the database well typed while there are keys left.     *)
LEMMA NextChildType ==
    ASSUME NEW d \in WalletDB, NEW a \in Acct, NEW n \in Nat, HasChildren(d, a, n)
    PROVE  next_child(d, a, n) \in WalletDB
<1>1. d.nextChild[a] + n \in 0 .. MaxChild
  BY SizesAssumption DEF HasChildren, WalletDB
<1> QED
  BY <1>1 DEF next_child, WalletDB

(* The keys next_child hands out are keys.                                 *)
LEMMA NewKeysType ==
    ASSUME NEW d \in WalletDB, NEW a \in Acct, NEW n \in Nat, HasChildren(d, a, n)
    PROVE  NewKeys(d, a, n) \subseteq Key
  BY SizesAssumption DEF NewKeys, HasChildren, WalletDB, Key

(* The batch of lock_tx_context keeps the database well typed.             *)
LEMMA LockType ==
    ASSUME NEW d \in WalletDB, NEW s \in Slates, HasIds(d, d.ctxs[s].acct, 1)
    PROVE  lock_tx_context(d, s) \in WalletDB
<1> DEFINE c == d.ctxs[s]
           i == d.nextTx[c.acct]
<1>1. c \in Context /\ c.acct \in Acct /\ i \in Ids /\ i + 1 \in 0 .. MaxTxs
  BY SizesAssumption DEF WalletDB, Context, HasIds, Ids
<1>2. SentEntry(d, s) \in TxLogEntry
  BY <1>1 DEF SentEntry, TxLogEntry, TxLogEntryType, Context
<1>3. LockedOutputs(d, s) \in [Slot -> OutputData]
  <2> SUFFICES ASSUME NEW x \in Slot
               PROVE  LockedOutputs(d, s)[x] \in OutputData
    BY DEF LockedOutputs
  <2>1. d.outs[x] \in OutputData
    BY DEF WalletDB
  <2>2. [root |-> c.acct, status |-> "Unconfirmed", tx |-> i, cb |-> 0] \in OutputData
    BY <1>1 DEF OutputData, OutputStatus
  <2>3. [d.outs[x] EXCEPT !.status = "Locked", !.tx = i] \in OutputData
    BY <1>1, <2>1 DEF OutputData, OutputStatus
  <2> QED
    BY <2>1, <2>2, <2>3 DEF LockedOutputs
<1>4. SaveEntry(d, c.acct, SentEntry(d, s)) \in WalletDB
  BY <1>1, <1>2, SaveEntryType
<1>5. SaveEntry(d, c.acct, SentEntry(d, s)).nextTx = d.nextTx
  BY DEF SaveEntry, WalletDB
<1> QED
  BY <1>1, <1>3, <1>4, <1>5 DEF lock_tx_context, WalletDB

(* The batch of build_recipient_output keeps the database well typed.      *)
LEMMA RecipientType ==
    ASSUME NEW d \in WalletDB, NEW s \in Slates, NEW k \in Key, NEW a \in Acct,
           NEW ttl \in Nat, HasIds(d, a, 1)
    PROVE  build_recipient_output(d, s, k, a, ttl) \in WalletDB
<1> DEFINE i == d.nextTx[a]
           d1 == SaveOutput(d, <<k, FALSE>>, ReceivedOutput(d, a))
           d2 == SaveEntry(d1, a, ReceivedEntry(d, s, a, ttl))
<1>1. i \in Ids /\ i + 1 \in 0 .. MaxTxs
  BY SizesAssumption DEF WalletDB, HasIds, Ids
<1>2. ReceivedOutput(d, a) \in OutputData
  BY <1>1 DEF ReceivedOutput, OutputData, OutputStatus
<1>3. ReceivedEntry(d, s, a, ttl) \in TxLogEntry
  BY <1>1, NothingTyped DEF ReceivedEntry, TxLogEntry, TxLogEntryType
<1>4. <<k, FALSE>> \in Slot
  BY DEF Slot
<1>5. d1 \in WalletDB
  BY <1>2, <1>4, SaveOutputType
<1>6. d2 \in WalletDB
  BY <1>3, <1>5, SaveEntryType
<1>7. d2.nextTx = d.nextTx
  BY DEF SaveEntry, SaveOutput, WalletDB
<1> QED
  BY <1>1, <1>6, <1>7 DEF build_recipient_output, WalletDB

(* What cancelling makes of an output and of an entry is again one.        *)
LEMMA CancelledTyped ==
    /\ \A o \in OutputData : CancelledOutput(o) \in OutputData
    /\ \A e \in TxLogEntry : [e EXCEPT !.type = CancelledType(e.type)] \in TxLogEntry
<1>1. ASSUME NEW o \in OutputData PROVE CancelledOutput(o) \in OutputData
  BY NothingTyped DEF CancelledOutput, OutputData, OutputStatus
<1>2. ASSUME NEW e \in TxLogEntry PROVE CancelledType(e.type) \in TxLogEntryType
  BY DEF CancelledType, TxLogEntry, TxLogEntryType
<1>3. ASSUME NEW e \in TxLogEntry, NEW y \in TxLogEntryType
      PROVE  [e EXCEPT !.type = y] \in TxLogEntry
  BY DEF TxLogEntry
<1> QED
  BY <1>1, <1>2, <1>3

(* The batch of cancel_tx_and_outputs keeps the database well typed.       *)
LEMMA CancelType ==
    ASSUME NEW d \in WalletDB, NEW a \in Acct, NEW P, P \subseteq Pos, P # {}
    PROVE  cancel_tx_and_outputs(d, a, P) \in WalletDB
<1> DEFINE e == Entry(d, First(P))
           f == [e EXCEPT !.type = CancelledType(e.type)]
<1>1. e \in TxLogEntry /\ f \in TxLogEntry
  BY FirstTyped, CancelledTyped
<1>2. FreedOutputs(d, a, e.id) \in [Slot -> OutputData]
  <2>1. \A x \in Slot : d.outs[x] \in OutputData
    BY DEF WalletDB
  <2> QED
    BY <2>1, CancelledTyped DEF FreedOutputs
<1>3. SaveEntry(d, a, f) \in WalletDB
  BY <1>1, SaveEntryType
<1>4. cancel_tx_and_outputs(d, a, P) =
        [SaveEntry(d, a, f) EXCEPT !.outs = FreedOutputs(d, a, e.id)]
  BY DEF cancel_tx_and_outputs
<1> HIDE DEF e, f
<1> QED
  BY <1>2, <1>3, <1>4 DEF WalletDB

(* update_tx_slate_state keeps the database well typed when it finds an    *)
(* entry.                                                                  *)
LEMMA SlateStateType ==
    ASSUME NEW d \in WalletDB, NEW a \in Acct, NEW s, TxsWithSlate(d, s) # {}
    PROVE  update_tx_slate_state(d, a, s) \in WalletDB
<1>1. TxsWithSlate(d, s) \subseteq Pos
  BY DEF TxsWithSlate, Written
<1> QED
  BY <1>1, FirstTyped, SaveEntryType DEF update_tx_slate_state

-----------------------------------------------------------------------------
(* Refreshing                                                              *)

(* Sets of keys are finite.                                                *)
LEMMA KeyFinite ==
    ASSUME NEW K, K \subseteq Key
    PROVE  IsFiniteSet(K) /\ Cardinality(K) \in Nat
<1>1. IsFiniteSet(Acct) /\ IsFiniteSet(0 .. MaxChild - 1)
  BY SizesAssumption, FS_Interval DEF Acct
<1>2. IsFiniteSet(Key)
  BY <1>1, FS_Product DEF Key
<1> QED
  BY <1>2, FS_Subset, FS_CardinalityType

(* Sets of record keys are finite and name no more keys than they have     *)
(* elements.                                                               *)
LEMMA SlotFinite ==
    ASSUME NEW S, S \subseteq Slot
    PROVE  /\ IsFiniteSet(S) /\ Cardinality(S) \in Nat
           /\ KeysOf(S) \subseteq Key
           /\ Cardinality(KeysOf(S)) <= Cardinality(S)
<1>1. IsFiniteSet({TRUE}) /\ IsFiniteSet({TRUE} \cup {FALSE}) /\ BOOLEAN = {TRUE} \cup {FALSE}
  BY FS_Singleton, FS_AddElement
<1>2. IsFiniteSet(Slot)
  BY <1>1, KeyFinite, FS_Product DEF Slot
<1>3. IsFiniteSet(S) /\ Cardinality(S) \in Nat
  BY <1>2, FS_Subset, FS_CardinalityType
<1> DEFINE f == [x \in S |-> x[1]]
<1>4. KeysOf(S) = {f[x] : x \in S}
  BY DEF KeysOf
<1>5. KeysOf(S) \subseteq Key
  BY DEF KeysOf, Slot
<1>6. f \in Surjection(S, KeysOf(S))
  BY <1>4 DEF Surjection
<1> QED
  BY <1>3, <1>5, <1>6, FS_Surjection

(* The rank of a key among some keys is below their number.                *)
LEMMA RankBound ==
    ASSUME NEW K, K \subseteq Key, NEW k \in K
    PROVE  Rank(K, k) \in Nat /\ Rank(K, k) < Cardinality(K)
<1> DEFINE B == {j \in K : Before(j, k)}
<1>1. k \notin B
  BY SizesAssumption DEF Before, Key, Acct
<1>2. IsFiniteSet(K) /\ Cardinality(K) \in Nat /\ IsFiniteSet(B) /\ Cardinality(B) \in Nat
  BY KeyFinite
<1>3. Cardinality(B) <= Cardinality(K) /\ (Cardinality(B) = Cardinality(K) => B = K)
  BY <1>2, FS_Subset
<1> QED
  BY <1>1, <1>2, <1>3 DEF Rank

(* The ids a refresh gives to new coinbase entries are log ids, and the    *)
(* next id stays in range.                                                 *)
LEMMA CoinbaseIdType ==
    ASSUME NEW d \in WalletDB, NEW a \in Acct, NEW M, M \subseteq Slot, NEW api,
           HasIds(d, a, Cardinality(NewCoinbases(d, M, api)))
    PROVE  /\ \A x \in NewCoinbases(d, M, api) : CoinbaseId(d, a, M, api, x) \in Ids
           /\ d.nextTx[a] + Cardinality(KeysOf(NewCoinbases(d, M, api))) \in 0 .. MaxTxs
<1> DEFINE N == NewCoinbases(d, M, api)
<1>1. N \subseteq Slot
  BY DEF NewCoinbases
<1>2. /\ KeysOf(N) \subseteq Key /\ Cardinality(N) \in Nat
      /\ Cardinality(KeysOf(N)) <= Cardinality(N)
      /\ Cardinality(KeysOf(N)) \in Nat
  BY <1>1, SlotFinite, KeyFinite
<1>3. d.nextTx[a] \in Nat /\ d.nextTx[a] + Cardinality(N) <= MaxTxs
  BY DEF WalletDB, HasIds
<1>4. ASSUME NEW x \in N PROVE CoinbaseId(d, a, M, api, x) \in Ids
  <2>1. x[1] \in KeysOf(N)
    BY DEF KeysOf
  <2>2. Rank(KeysOf(N), x[1]) \in Nat /\ Rank(KeysOf(N), x[1]) < Cardinality(KeysOf(N))
    BY <1>2, <2>1, RankBound
  <2> HIDE DEF N
  <2>3. d.nextTx[a] + Rank(KeysOf(N), x[1]) \in Ids
    BY <1>2, <1>3, <2>2, SizesAssumption DEF Ids
  <2> QED
    BY <2>3 DEF CoinbaseId, N
<1> HIDE DEF N
<1>5. d.nextTx[a] + Cardinality(KeysOf(N)) \in 0 .. MaxTxs
  BY <1>2, <1>3, SizesAssumption
<1> QED
  BY <1>4, <1>5 DEF N

(* mark_unspent, mark_spent and mark_reverted return outputs.              *)
LEMMA MarkedTyped ==
    ASSUME NEW o \in OutputData
    PROVE  /\ mark_unspent(o) \in OutputData
           /\ mark_spent(o) \in OutputData
           /\ mark_reverted(o) \in OutputData
<1>1. \A y \in OutputStatus : [o EXCEPT !.status = y] \in OutputData
  BY DEF OutputData
<1>2. {"Unspent", "Spent", "Reverted"} \subseteq OutputStatus
  BY DEF OutputStatus
<1> QED
  BY <1>1, <1>2 DEF mark_unspent, mark_spent, mark_reverted

(* What a refresh makes of an output and of an entry is again one.         *)
LEMMA RefreshedTyped ==
    ASSUME NEW d \in WalletDB, NEW a \in Acct, NEW M, M \subseteq Slot, NEW api, NEW rev,
           HasIds(d, a, Cardinality(NewCoinbases(d, M, api)))
    PROVE  /\ \A x \in Slot : RefreshedOutput(d, a, M, api, rev, x) \in OutputData
           /\ \A i \in Ids : RefreshedEntry(d, a, M, api, rev, i) \in TxLogEntry
<1>1. ASSUME NEW x \in Slot
      PROVE  RefreshedOutput(d, a, M, api, rev, x) \in OutputData
  <2>1. d.outs[x] \in OutputData
    BY DEF WalletDB
  <2>2. CASE x \in NewCoinbases(d, M, api)
    <3>1. CoinbaseId(d, a, M, api, x) \in Ids
      BY <2>2, CoinbaseIdType
    <3>2. [d.outs[x] EXCEPT !.status = "Unspent", !.tx = CoinbaseId(d, a, M, api, x)]
            \in OutputData
      BY <2>1, <3>1 DEF OutputData, OutputStatus
    <3> QED
      BY <2>2, <3>2, <2>1, MarkedTyped DEF RefreshedOutput
  <2>3. CASE x \notin NewCoinbases(d, M, api)
    BY <2>1, <2>3, MarkedTyped DEF RefreshedOutput
  <2> QED
    BY <2>2, <2>3
<1>2. ASSUME NEW i \in Ids
      PROVE  RefreshedEntry(d, a, M, api, rev, i) \in TxLogEntry
  <2> DEFINE new == {x \in NewCoinbases(d, M, api) : CoinbaseId(d, a, M, api, x) = i}
             old == IF TxsWithId(d, a, i) = {}
                    THEN d.txlog[a][i]
                    ELSE Entry(d, First(TxsWithId(d, a, i)))
             conf == [old EXCEPT !.confirmed = TRUE,
                        !.type = IF @ = "TxReverted" THEN "TxReceived" ELSE @]
             base == IF /\ i \in ConfirmedIds(d, a, M, api)
                        /\ \A p \in TxsWithId(d, a, i) : p[1] <= a
                     THEN conf ELSE Entry(d, LastOf(TxsWithId(d, a, i)))
  <2>1. d.txlog[a][i] \in TxLogEntry
    BY DEF WalletDB
  <2>2. TxsWithId(d, a, i) \subseteq Pos
    BY DEF TxsWithId, TxsOf, Written
  <2>3. old \in TxLogEntry
    BY <2>1, <2>2, FirstTyped
  <2>4. conf \in TxLogEntry
    <3> HIDE DEF old
    <3> QED
      BY <2>3 DEF TxLogEntry, TxLogEntryType
  <2>5. TxsWithId(d, a, i) # {} => base \in TxLogEntry
    <3> HIDE DEF conf
    <3> QED
      BY <2>2, <2>4, LastOfIn, EntryTyped
  <2>6. TxsWithId(d, a, i) # {} =>
            [base EXCEPT !.type = "TxReverted", !.confirmed = FALSE] \in TxLogEntry
    <3> HIDE DEF base
    <3> QED
      BY <2>5 DEF TxLogEntry, TxLogEntryType
  <2>7. CASE new # {}
    <3> DEFINE k == (CHOOSE x \in new : TRUE)[1]
    <3>1. k \in Key
      BY <2>7 DEF NewCoinbases, Slot
    <3> HIDE DEF k
    <3>2. CoinbaseEntry(a, i, k) \in TxLogEntry
      BY <3>1 DEF CoinbaseEntry, TxLogEntry, TxLogEntryType, Kern
    <3>3. RefreshedEntry(d, a, M, api, rev, i) = CoinbaseEntry(a, i, k)
      BY <2>7 DEF RefreshedEntry, k
    <3> QED
      BY <3>2, <3>3
  <2>8. CASE new = {}
    <3>1. \/ /\ TxsWithId(d, a, i) # {}
             /\ RefreshedEntry(d, a, M, api, rev, i) =
                  [base EXCEPT !.type = "TxReverted", !.confirmed = FALSE]
          \/ RefreshedEntry(d, a, M, api, rev, i) = conf
          \/ RefreshedEntry(d, a, M, api, rev, i) = d.txlog[a][i]
      BY <2>8 DEF RefreshedEntry
    <3> QED
      BY <2>1, <2>4, <2>6, <3>1
  <2> QED
    BY <2>7, <2>8
<1> QED
  BY <1>1, <1>2

(* apply_api_outputs keeps the database well typed.                        *)
LEMMA ApplyType ==
    ASSUME NEW d \in WalletDB, NEW a \in Acct, NEW M, M \subseteq Slot, NEW api, NEW rev,
           NEW h \in Nat, HasIds(d, a, Cardinality(NewCoinbases(d, M, api)))
    PROVE  apply_api_outputs(d, a, M, api, rev, h) \in WalletDB
<1> DEFINE outs == [x \in Slot |-> IF x \in M
                                  THEN RefreshedOutput(d, a, M, api, rev, x)
                                  ELSE d.outs[x]]
           log == [i \in Ids |-> RefreshedEntry(d, a, M, api, rev, i)]
           n == d.nextTx[a] + Cardinality(KeysOf(NewCoinbases(d, M, api)))
<1>1. outs \in [Slot -> OutputData]
  BY RefreshedTyped DEF WalletDB
<1>2. log \in [Ids -> TxLogEntry]
  BY RefreshedTyped
<1>3. n \in 0 .. MaxTxs
  BY CoinbaseIdType
<1>4. apply_api_outputs(d, a, M, api, rev, h) =
        IF h < d.confH[a] THEN d
        ELSE [d EXCEPT !.outs = outs, !.txlog[a] = log, !.nextTx[a] = n, !.confH[a] = h]
  BY DEF apply_api_outputs
<1> HIDE DEF outs, log, n
<1>5. [d EXCEPT !.outs = outs, !.txlog[a] = log, !.nextTx[a] = n, !.confH[a] = h]
        \in WalletDB
  BY <1>1, <1>2, <1>3 DEF WalletDB
<1> QED
  BY <1>4, <1>5

(* clean_old_unconfirmed keeps the database well typed.                    *)
LEMMA CleanType ==
    ASSUME NEW d \in WalletDB, NEW h
    PROVE  clean_old_unconfirmed(d, h) \in WalletDB
  BY NothingTyped DEF clean_old_unconfirmed, WalletDB

(* refresh_output_state as a whole keeps the database well typed.          *)
LEMMA RefreshType ==
    ASSUME NEW d \in WalletDB, NEW a \in Acct, NEW all, NEW h \in Nat, NEW api,
           NEW kernels, RefreshHasIds(d, a, all, api)
    PROVE  refresh_output_state(d, a, all, h, api, kernels) \in WalletDB
<1>1. map_wallet_outputs(d, a, all) \subseteq Slot
  BY DEF map_wallet_outputs, Refreshable
<1> QED
  BY <1>1, ApplyType, CleanType DEF refresh_output_state, RefreshHasIds

-----------------------------------------------------------------------------
(* Scanning                                                                *)

(* cancel_tx_log_entry, the first half of a scan's repair, keeps the       *)
(* database well typed.                                                    *)
LEMMA CancelLogType ==
    ASSUME NEW d \in WalletDB, NEW x \in Slot, NEW o
    PROVE  cancel_tx_log_entry(d, x, o) \in WalletDB
<1> DEFINE a == x[1][1]
           P == TxsWithId(d, a, o.tx)
           e == Entry(d, First(P))
           y == CASE e.type = "TxSent" -> "TxSentCancelled"
                  [] e.type = "TxReceived" -> "TxReceivedCancelled"
                  [] OTHER -> e.type
<1>1. a \in Acct /\ P \subseteq Pos
  BY DEF Slot, Key, TxsWithId, TxsOf, Written
<1>2. CASE P # {}
  <2>1. e \in TxLogEntry
    BY <1>1, <1>2, FirstTyped
  <2> HIDE DEF e
  <2>2. y \in TxLogEntryType
    BY <2>1 DEF TxLogEntry, TxLogEntryType
  <2> HIDE DEF y
  <2>3. [e EXCEPT !.type = y] \in TxLogEntry
    BY <2>1, <2>2 DEF TxLogEntry
  <2>4. SaveEntry(d, a, [e EXCEPT !.type = y]) \in WalletDB
    BY <1>1, <2>3, SaveEntryType
  <2> QED
    BY <1>2, <2>4 DEF cancel_tx_log_entry, e, y
<1>3. CASE P = {}
  BY <1>3 DEF cancel_tx_log_entry
<1> QED
  BY <1>2, <1>3

(* The ids a scan gives to restored outputs are log ids, and the next ids  *)
(* stay in range.                                                          *)
LEMMA RestoredIdType ==
    ASSUME NEW d \in WalletDB, NEW K, K \subseteq Key, RestoreHasIds(d, K)
    PROVE  /\ \A k \in K : RestoredId(d, K, k) \in Ids
           /\ \A a \in Acct :
                 d.nextTx[a] + Cardinality({k \in K : k[1] = a}) \in 0 .. MaxTxs
<1>1. ASSUME NEW a \in Acct
      PROVE  /\ Cardinality({k \in K : k[1] = a}) \in Nat
             /\ d.nextTx[a] \in Nat
             /\ d.nextTx[a] + Cardinality({k \in K : k[1] = a}) <= MaxTxs
  BY KeyFinite DEF RestoreHasIds, HasIds, WalletDB
<1>2. ASSUME NEW k \in K PROVE RestoredId(d, K, k) \in Ids
  <2> DEFINE J == {j \in K : j[1] = k[1]}
  <2>1. k \in J /\ J \subseteq Key /\ k[1] \in Acct
    BY DEF Key
  <2>2. Rank(J, k) \in Nat /\ Rank(J, k) < Cardinality(J)
    BY <2>1, RankBound
  <2>3. /\ Cardinality(J) \in Nat /\ d.nextTx[k[1]] \in Nat
        /\ d.nextTx[k[1]] + Cardinality(J) <= MaxTxs
    BY <2>1, <1>1
  <2> HIDE DEF J
  <2>4. d.nextTx[k[1]] + Rank(J, k) \in Ids
    BY <2>2, <2>3, SizesAssumption DEF Ids
  <2> QED
    BY <2>4 DEF RestoredId, J
<1> QED
  BY <1>1, <1>2, SizesAssumption

(* restore_missing_outputs keeps the database well typed.                  *)
LEMMA RestoreType ==
    ASSUME NEW d \in WalletDB, NEW K, K \subseteq Key, NEW cb \in [Key -> Nat],
           RestoreHasIds(d, K)
    PROVE  restore_missing_outputs(d, K, cb) \in WalletDB
<1> DEFINE new(a, i) == {k \in K : k[1] = a /\ RestoredId(d, K, k) = i}
           e(a, i) ==
             IF new(a, i) = {}
             THEN d.txlog[a][i]
             ELSE [id |-> i, acct |-> a,
                   type |-> IF cb[CHOOSE k \in new(a, i) : TRUE] > 0
                            THEN "ConfirmedCoinbase" ELSE "TxReceived",
                   slate |-> NoSlate, confirmed |-> TRUE, debit |-> FALSE,
                   credit |-> TRUE, kern |-> NoKern, ttl |-> 0]
           log == [a \in Acct |-> [i \in Ids |-> e(a, i)]]
           next == [a \in Acct |-> d.nextTx[a] + Cardinality({k \in K : k[1] = a})]
<1>1. RestoredOutputs(d, K, cb) \in [Slot -> OutputData]
  <2> SUFFICES ASSUME NEW x \in Slot
               PROVE  RestoredOutputs(d, K, cb)[x] \in OutputData
    BY DEF RestoredOutputs
  <2>1. CASE x \in K \X {TRUE}
    <3>1. /\ x[1] \in K /\ x[1][1] \in Acct /\ cb[x[1]] \in Nat
          /\ RestoredId(d, K, x[1]) \in Ids
      BY <2>1, RestoredIdType DEF Key
    <3> QED
      BY <2>1, <3>1 DEF RestoredOutputs, OutputData, OutputStatus
  <2>2. CASE x \notin K \X {TRUE}
    BY <2>2 DEF RestoredOutputs, WalletDB
  <2> QED
    BY <2>1, <2>2
<1>2. ASSUME NEW a \in Acct, NEW i \in Ids PROVE e(a, i) \in TxLogEntry
  <2>1. d.txlog[a][i] \in TxLogEntry
    BY DEF WalletDB
  <2>2. \A y \in TxLogEntryType :
          [id |-> i, acct |-> a, type |-> y, slate |-> NoSlate, confirmed |-> TRUE,
           debit |-> FALSE, credit |-> TRUE, kern |-> NoKern, ttl |-> 0] \in TxLogEntry
    BY NothingTyped DEF TxLogEntry
  <2>3. {"ConfirmedCoinbase", "TxReceived"} \subseteq TxLogEntryType
    BY DEF TxLogEntryType
  <2> QED
    BY <2>1, <2>2, <2>3
<1>3. log \in [Acct -> [Ids -> TxLogEntry]]
  <2> HIDE DEF e
  <2> QED
    BY <1>2
<1>4. next \in [Acct -> 0 .. MaxTxs]
  BY RestoredIdType
<1>5. restore_missing_outputs(d, K, cb) =
        [d EXCEPT !.outs = RestoredOutputs(d, K, cb), !.txlog = log, !.nextTx = next]
  BY DEF restore_missing_outputs
<1> HIDE DEF log, next
<1> QED
  BY <1>1, <1>3, <1>4, <1>5 DEF WalletDB

(* The end of a scan keeps the database well typed and moves no child      *)
(* index back.                                                             *)
LEMMA ChildIndicesType ==
    ASSUME NEW d \in WalletDB, NEW K, K \subseteq Key
    PROVE  /\ restore_child_indices(d, K) \in WalletDB
           /\ \A a \in Acct :
                 restore_child_indices(d, K).nextChild[a] >= d.nextChild[a]
<1> DEFINE found(a) == {k[2] : k \in {j \in K : j[1] = a}}
           highest(a) == CHOOSE n \in found(a) : \A m \in found(a) : m <= n
           next(a) == IF found(a) # {} /\ highest(a) >= d.nextChild[a]
                      THEN highest(a) + 1 ELSE d.nextChild[a]
           child == [a \in Acct |-> next(a)]
<1>1. ASSUME NEW a \in Acct
      PROVE  next(a) \in 0 .. MaxChild /\ next(a) >= d.nextChild[a]
  <2>1. d.nextChild[a] \in 0 .. MaxChild
    BY DEF WalletDB
  <2>2. found(a) \subseteq 0 .. MaxChild - 1
    BY DEF Key
  <2>3. CASE found(a) # {}
    <3>1. MaxChild - 1 \in Nat
      BY <2>2, <2>3, SizesAssumption
    <3> HIDE DEF found
    <3>2. highest(a) \in found(a)
      BY <2>2, <2>3, <3>1, GreatestNat
    <3>3. highest(a) \in 0 .. MaxChild - 1
      BY <2>2, <3>2
    <3> HIDE DEF highest
    <3> QED
      BY <2>1, <3>3, SizesAssumption
  <2>4. CASE found(a) = {}
    BY <2>1, <2>4, SizesAssumption
  <2> QED
    BY <2>3, <2>4
<1>2. restore_child_indices(d, K) = [d EXCEPT !.nextChild = child]
  BY DEF restore_child_indices
<1> HIDE DEF next
<1>3. child \in [Acct -> 0 .. MaxChild] /\ \A a \in Acct : child[a] >= d.nextChild[a]
  BY <1>1
<1> HIDE DEF child
<1>4. [d EXCEPT !.nextChild = child] \in WalletDB
  BY <1>3 DEF WalletDB
<1>5. [d EXCEPT !.nextChild = child].nextChild = child
  BY DEF WalletDB
<1> QED
  BY <1>2, <1>3, <1>4, <1>5

-----------------------------------------------------------------------------
(* Keys                                                                    *)

(* The keys K have been derived: next_child will not return them.          *)
Derived(d, K) == \A k \in K : k[2] < d.nextChild[k[1]]

RecordsDerived(d) == \A x \in Slot : Exists(d, x) => Derived(d, {x[1]})
ContextsDerived(d) ==
    \A s \in Slates : Derived(d, KeysOf(d.ctxs[s].ins)) /\ Derived(d, d.ctxs[s].outs)

GoodDb(d) == d \in WalletDB /\ RecordsDerived(d) /\ ContextsDerived(d)

Grows(d, e) == \A a \in Acct : d.nextChild[a] <= e.nextChild[a]

(* The step from d to e is a good one.                                     *)
Keeps(d, e) == GoodDb(e) /\ Grows(d, e)

(* What is below the child indices stays below them when they grow.        *)
LEMMA DerivedGrows ==
    ASSUME NEW d \in WalletDB, NEW e \in WalletDB, Grows(d, e),
           NEW K, K \subseteq Key, Derived(d, K)
    PROVE  Derived(e, K)
<1> SUFFICES ASSUME NEW k \in K PROVE k[2] < e.nextChild[k[1]]
  BY DEF Derived
<1>1. k[2] \in Int /\ k[1] \in Acct
  BY SizesAssumption DEF Key
<1>2. d.nextChild[k[1]] \in Int /\ e.nextChild[k[1]] \in Int
  BY <1>1 DEF WalletDB
<1>3. k[2] < d.nextChild[k[1]] /\ d.nextChild[k[1]] <= e.nextChild[k[1]]
  BY <1>1 DEF Derived, Grows
<1> QED
  BY <1>1, <1>2, <1>3

(* Good changes compose.                                                   *)
LEMMA KeepsTransitive ==
    ASSUME NEW d \in WalletDB, NEW e \in WalletDB, NEW f \in WalletDB,
           Keeps(d, e), Keeps(e, f)
    PROVE  Keeps(d, f)
<1>1. \A a \in Acct : /\ d.nextChild[a] \in Int /\ e.nextChild[a] \in Int
                      /\ f.nextChild[a] \in Int
  BY DEF WalletDB
<1> QED
  BY <1>1 DEF Keeps, Grows

(* No change is a good change.                                             *)
LEMMA KeepsSelf ==
    ASSUME NEW d, GoodDb(d)
    PROVE  Keeps(d, d)
<1>1. \A a \in Acct : d.nextChild[a] \in Int
  BY DEF GoodDb, WalletDB
<1> QED
  BY <1>1 DEF Keeps, Grows

(* A step that leaves the child indices and the contexts alone and makes   *)
(* no record but for derived keys.                                         *)
LEMMA RecordsStep ==
    ASSUME NEW d, GoodDb(d), NEW e \in WalletDB,
           e.nextChild = d.nextChild, e.ctxs = d.ctxs,
           \A x \in Slot : Exists(e, x) => Exists(d, x) \/ Derived(d, {x[1]})
    PROVE  Keeps(d, e)
<1>1. Grows(d, e)
  BY KeepsSelf DEF Keeps, Grows
<1>2. \A K : Derived(e, K) <=> Derived(d, K)
  BY DEF Derived
<1>3. RecordsDerived(e)
  BY <1>2 DEF GoodDb, RecordsDerived
<1>4. ContextsDerived(e)
  BY <1>2 DEF GoodDb, ContextsDerived
<1> QED
  BY <1>1, <1>3, <1>4 DEF Keeps, GoodDb

(* Saving a log entry touches no key.                                      *)
LEMMA SaveEntryKeeps ==
    ASSUME NEW d, GoodDb(d), NEW a \in Acct, NEW e \in TxLogEntry
    PROVE  Keeps(d, SaveEntry(d, a, e))
<1>1. d \in WalletDB /\ SaveEntry(d, a, e) \in WalletDB
  BY SaveEntryType DEF GoodDb
<1>2. /\ SaveEntry(d, a, e).nextChild = d.nextChild
      /\ SaveEntry(d, a, e).ctxs = d.ctxs
      /\ SaveEntry(d, a, e).outs = d.outs
  BY <1>1 DEF SaveEntry, WalletDB
<1> QED
  BY <1>1, <1>2, RecordsStep DEF Exists

(* Saving a record is a good change if its key is derived or the record is *)
(* deleted.                                                                *)
LEMMA SaveOutputKeeps ==
    ASSUME NEW d, GoodDb(d), NEW x \in Slot, NEW o \in OutputData,
           o.status # "None" => Derived(d, {x[1]})
    PROVE  Keeps(d, SaveOutput(d, x, o))
<1>1. d \in WalletDB /\ SaveOutput(d, x, o) \in WalletDB
  BY SaveOutputType DEF GoodDb
<1>2. /\ SaveOutput(d, x, o).nextChild = d.nextChild
      /\ SaveOutput(d, x, o).ctxs = d.ctxs
      /\ \A y \in Slot : SaveOutput(d, x, o).outs[y] = IF y = x THEN o ELSE d.outs[y]
  BY <1>1 DEF SaveOutput, WalletDB
<1> QED
  BY <1>1, <1>2, RecordsStep DEF Exists

(* Saving a context is a good change if it names derived keys only.        *)
LEMMA SaveContextKeeps ==
    ASSUME NEW d, GoodDb(d), NEW s \in Slates, NEW c \in Context,
           Derived(d, KeysOf(c.ins)), Derived(d, c.outs)
    PROVE  Keeps(d, SaveContext(d, s, c))
<1> DEFINE e == SaveContext(d, s, c)
<1>1. d \in WalletDB /\ e \in WalletDB
  BY SaveContextType DEF GoodDb
<1>2. /\ e.nextChild = d.nextChild
      /\ e.outs = d.outs
      /\ \A r \in Slates : e.ctxs[r] = IF r = s THEN c ELSE d.ctxs[r]
  BY <1>1 DEF SaveContext, WalletDB
<1> HIDE DEF e
<1>3. \A K : Derived(e, K) <=> Derived(d, K)
  BY <1>2 DEF Derived
<1>4. RecordsDerived(e)
  BY <1>2, <1>3 DEF GoodDb, RecordsDerived, Exists
<1>5. ContextsDerived(e)
  BY <1>2, <1>3 DEF GoodDb, ContextsDerived
<1>6. Grows(d, e)
  BY <1>2, KeepsSelf DEF Keeps, Grows
<1> QED
  BY <1>1, <1>4, <1>5, <1>6 DEF Keeps, GoodDb, e

(* Deleting a context is a good change.                                    *)
LEMMA DeleteContextKeeps ==
    ASSUME NEW d, GoodDb(d), NEW s \in Slates
    PROVE  Keeps(d, DeleteContext(d, s))
<1>1. Derived(d, KeysOf(NoContext.ins)) /\ Derived(d, NoContext.outs)
  BY DEF Derived, KeysOf, NoContext
<1> QED
  BY <1>1, NothingTyped, SaveContextKeeps DEF DeleteContext

(* next_child is a good change, and the keys it hands out are derived      *)
(* after it.                                                               *)
LEMMA NextChildKeeps ==
    ASSUME NEW d, GoodDb(d), NEW a \in Acct, NEW n \in Nat, HasChildren(d, a, n)
    PROVE  /\ Keeps(d, next_child(d, a, n))
           /\ Derived(next_child(d, a, n), NewKeys(d, a, n))
<1> DEFINE e == next_child(d, a, n)
<1>1. d \in WalletDB /\ e \in WalletDB
  BY NextChildType DEF GoodDb
<1>2. /\ e.outs = d.outs /\ e.ctxs = d.ctxs
      /\ \A b \in Acct : e.nextChild[b] = IF b = a THEN d.nextChild[a] + n ELSE d.nextChild[b]
      /\ \A b \in Acct : d.nextChild[b] \in Nat
  BY <1>1 DEF next_child, WalletDB
<1> HIDE DEF e
<1>3. Grows(d, e)
  BY <1>2 DEF Grows
<1>4. Derived(e, NewKeys(d, a, n))
  BY <1>2 DEF Derived, NewKeys
<1>5. RecordsDerived(e)
  <2>1. \A x \in Slot : {x[1]} \subseteq Key
    BY DEF Slot
  <2> QED
    BY <2>1, <1>1, <1>2, <1>3, DerivedGrows DEF RecordsDerived, GoodDb, Exists
<1>6. ContextsDerived(e)
  <2>1. \A s \in Slates : KeysOf(d.ctxs[s].ins) \subseteq Key /\ d.ctxs[s].outs \subseteq Key
    BY <1>1 DEF KeysOf, WalletDB, Context, Slot
  <2> QED
    BY <2>1, <1>1, <1>2, <1>3, DerivedGrows DEF ContextsDerived, GoodDb
<1> QED
  BY <1>1, <1>3, <1>4, <1>5, <1>6 DEF Keeps, GoodDb, e

(* lock_tx_context makes records for the keys of a context only.           *)
LEMMA LockKeeps ==
    ASSUME NEW d, GoodDb(d), NEW s \in Slates, HasIds(d, d.ctxs[s].acct, 1)
    PROVE  Keeps(d, lock_tx_context(d, s))
<1> DEFINE e == lock_tx_context(d, s)
           c == d.ctxs[s]
<1>1. d \in WalletDB /\ e \in WalletDB
  BY LockType DEF GoodDb
<1>2. e.nextChild = d.nextChild /\ e.ctxs = d.ctxs /\ e.outs = LockedOutputs(d, s)
  BY <1>1 DEF lock_tx_context, SaveEntry, WalletDB
<1>3. ASSUME NEW x \in Slot, Exists(e, x)
      PROVE  Exists(d, x) \/ Derived(d, {x[1]})
  <2>1. CASE x \in c.outs \X {FALSE}
    BY <2>1 DEF GoodDb, ContextsDerived, Derived
  <2>2. CASE x \in c.ins
    BY <2>2 DEF GoodDb, ContextsDerived, Derived, KeysOf
  <2>3. CASE x \notin c.ins /\ x \notin c.outs \X {FALSE}
    <3>1. LockedOutputs(d, s)[x] = d.outs[x]
      BY <2>3 DEF LockedOutputs
    <3> QED
      BY <1>2, <1>3, <3>1 DEF Exists
  <2> QED
    BY <2>1, <2>2, <2>3
<1> HIDE DEF e
<1> QED
  BY <1>1, <1>2, <1>3, RecordsStep DEF e

(* build_recipient_output makes a record for a derived key only.           *)
LEMMA RecipientKeeps ==
    ASSUME NEW d, GoodDb(d), NEW s \in Slates, NEW k \in Key, Derived(d, {k}),
           NEW a \in Acct, NEW ttl \in Nat, HasIds(d, a, 1)
    PROVE  Keeps(d, build_recipient_output(d, s, k, a, ttl))
<1> DEFINE e == build_recipient_output(d, s, k, a, ttl)
<1>1. d \in WalletDB /\ e \in WalletDB
  BY RecipientType DEF GoodDb
<1>2. /\ e.nextChild = d.nextChild /\ e.ctxs = d.ctxs
      /\ e.outs = [d.outs EXCEPT ![<<k, FALSE>>] = ReceivedOutput(d, a)]
  BY <1>1 DEF build_recipient_output, SaveEntry, SaveOutput, WalletDB
<1>3. \A x \in Slot : x # <<k, FALSE>> => e.outs[x] = d.outs[x]
  BY <1>1, <1>2 DEF WalletDB
<1> HIDE DEF e
<1>4. \A x \in Slot : Exists(e, x) => Exists(d, x) \/ Derived(d, {x[1]})
  <2>1. Derived(d, {<<k, FALSE>>[1]})
    OBVIOUS
  <2> QED
    BY <1>3, <2>1 DEF Exists
<1> QED
  BY <1>1, <1>2, <1>4, RecordsStep DEF e

(* Cancelling makes no record.                                             *)
LEMMA CancelKeeps ==
    ASSUME NEW d, GoodDb(d), NEW a \in Acct, NEW P, P \subseteq Pos, P # {}
    PROVE  Keeps(d, cancel_tx_and_outputs(d, a, P))
<1> DEFINE e == cancel_tx_and_outputs(d, a, P)
           i == Entry(d, First(P)).id
<1>1. d \in WalletDB /\ e \in WalletDB
  BY CancelType DEF GoodDb
<1>2. e.nextChild = d.nextChild /\ e.ctxs = d.ctxs /\ e.outs = FreedOutputs(d, a, i)
  BY <1>1 DEF cancel_tx_and_outputs, SaveEntry, WalletDB
<1>3. \A x \in Slot : Exists(e, x) => Exists(d, x)
  <2>1. \A x \in Slot : e.outs[x] = d.outs[x] \/ e.outs[x] = CancelledOutput(d.outs[x])
    BY <1>2 DEF FreedOutputs
  <2>2. ASSUME NEW o \in OutputData, CancelledOutput(o).status # "None"
        PROVE  o.status # "None"
    BY <2>2 DEF CancelledOutput, OutputData
  <2>3. \A x \in Slot : d.outs[x] \in OutputData
    BY <1>1 DEF WalletDB
  <2> HIDE DEF e
  <2> QED
    BY <2>1, <2>2, <2>3 DEF Exists
<1> HIDE DEF e
<1> QED
  BY <1>1, <1>2, <1>3, RecordsStep DEF e

(* update_tx_slate_state touches no key.                                   *)
LEMMA SlateStateKeeps ==
    ASSUME NEW d, GoodDb(d), NEW a \in Acct, NEW s, TxsWithSlate(d, s) # {}
    PROVE  Keeps(d, update_tx_slate_state(d, a, s))
<1>1. TxsWithSlate(d, s) \subseteq Pos /\ d \in WalletDB
  BY DEF TxsWithSlate, Written, GoodDb
<1> QED
  BY <1>1, FirstTyped, SaveEntryKeeps DEF update_tx_slate_state

(* A refresh makes no record: it changes those it has mapped and deletes   *)
(* stale coinbases.                                                        *)
LEMMA RefreshKeeps ==
    ASSUME NEW d, GoodDb(d), NEW a \in Acct, NEW all, NEW h \in Nat, NEW api,
           NEW kernels, RefreshHasIds(d, a, all, api)
    PROVE  Keeps(d, refresh_output_state(d, a, all, h, api, kernels))
<1> DEFINE M == map_wallet_outputs(d, a, all)
           rev == find_reverted_kernels(d, a, M, api, kernels)
           e == apply_api_outputs(d, a, M, api, rev, h)
           f == clean_old_unconfirmed(e, h)
<1>1. M \subseteq Slot /\ \A x \in M : Exists(d, x)
  BY DEF map_wallet_outputs, Refreshable, Exists
<1>2. d \in WalletDB /\ e \in WalletDB /\ f \in WalletDB
  BY <1>1, ApplyType, CleanType DEF GoodDb, RefreshHasIds
<1>3. e.nextChild = d.nextChild /\ e.ctxs = d.ctxs
  BY <1>2 DEF apply_api_outputs, WalletDB
<1>4. \A x \in Slot : x \notin M => e.outs[x] = d.outs[x]
  <2> HIDE DEF M, rev
  <2> QED
    BY <1>2 DEF apply_api_outputs, WalletDB
<1>5. \A x \in Slot : Exists(e, x) => Exists(d, x)
  BY <1>1, <1>4 DEF Exists
<1> HIDE DEF e
<1>6. f.nextChild = e.nextChild /\ f.ctxs = e.ctxs
  BY <1>2 DEF clean_old_unconfirmed, WalletDB
<1>7. \A x \in Slot : Exists(f, x) => Exists(e, x)
  <2>1. \A x \in Slot : f.outs[x] = e.outs[x] \/ f.outs[x] = NoOutput
    BY <1>2 DEF clean_old_unconfirmed, WalletDB
  <2> QED
    BY <2>1 DEF Exists, NoOutput
<1>8. refresh_output_state(d, a, all, h, api, kernels) = f
  BY DEF refresh_output_state, e
<1> HIDE DEF f
<1> QED
  BY <1>2, <1>3, <1>5, <1>6, <1>7, <1>8, RecordsStep

(* cancel_tx_log_entry touches no key.                                     *)
LEMMA CancelLogKeeps ==
    ASSUME NEW d, GoodDb(d), NEW x \in Slot, NEW o
    PROVE  Keeps(d, cancel_tx_log_entry(d, x, o))
<1>1. d \in WalletDB /\ cancel_tx_log_entry(d, x, o) \in WalletDB
  BY CancelLogType DEF GoodDb
<1>2. /\ cancel_tx_log_entry(d, x, o).nextChild = d.nextChild
      /\ cancel_tx_log_entry(d, x, o).ctxs = d.ctxs
      /\ cancel_tx_log_entry(d, x, o).outs = d.outs
  BY <1>1 DEF cancel_tx_log_entry, SaveEntry, WalletDB
<1> QED
  BY <1>1, <1>2, RecordsStep DEF Exists

(* restore_missing_outputs makes records for chain outputs with derived    *)
(* keys only.                                                              *)
LEMMA RestoreKeeps ==
    ASSUME NEW d, GoodDb(d), NEW K, K \subseteq Key, Derived(d, K),
           NEW cb \in [Key -> Nat], RestoreHasIds(d, K)
    PROVE  Keeps(d, restore_missing_outputs(d, K, cb))
<1> DEFINE e == restore_missing_outputs(d, K, cb)
<1>1. d \in WalletDB /\ e \in WalletDB
  BY RestoreType DEF GoodDb
<1>2. /\ e.nextChild = d.nextChild /\ e.ctxs = d.ctxs
      /\ e.outs = RestoredOutputs(d, K, cb)
  BY <1>1 DEF restore_missing_outputs, WalletDB
<1>3. \A x \in Slot : x \in K \X {TRUE} \/ e.outs[x] = d.outs[x]
  BY <1>2 DEF RestoredOutputs
<1> HIDE DEF e
<1>4. \A x \in Slot : Exists(e, x) => Exists(d, x) \/ Derived(d, {x[1]})
  BY <1>3 DEF Exists, Derived
<1> QED
  BY <1>1, <1>2, <1>4, RecordsStep DEF e

(* The end of a scan only moves child indices up.                          *)
LEMMA ChildIndicesKeeps ==
    ASSUME NEW d, GoodDb(d), NEW K, K \subseteq Key
    PROVE  Keeps(d, restore_child_indices(d, K))
<1> DEFINE e == restore_child_indices(d, K)
<1>1. d \in WalletDB /\ e \in WalletDB
  BY ChildIndicesType DEF GoodDb
<1>2. e.outs = d.outs /\ e.ctxs = d.ctxs
  BY <1>1 DEF restore_child_indices, WalletDB
<1>3. Grows(d, e)
  <2>1. \A a \in Acct : d.nextChild[a] \in Int /\ e.nextChild[a] \in Int
    BY <1>1 DEF WalletDB
  <2> QED
    BY <1>1, <2>1, ChildIndicesType DEF Grows
<1> HIDE DEF e
<1>4. RecordsDerived(e)
  <2>1. \A x \in Slot : {x[1]} \subseteq Key
    BY DEF Slot
  <2> QED
    BY <2>1, <1>1, <1>2, <1>3, DerivedGrows DEF RecordsDerived, GoodDb, Exists
<1>5. ContextsDerived(e)
  <2>1. \A s \in Slates : KeysOf(d.ctxs[s].ins) \subseteq Key /\ d.ctxs[s].outs \subseteq Key
    BY <1>1 DEF KeysOf, WalletDB, Context, Slot
  <2> QED
    BY <2>1, <1>1, <1>2, <1>3, DerivedGrows DEF ContextsDerived, GoodDb
<1> QED
  BY <1>1, <1>3, <1>4, <1>5 DEF Keeps, GoodDb, e

-----------------------------------------------------------------------------
(* The inductive invariant                                                 *)

TxsDerived(d, T) == \A tx \in T : Derived(d, tx.ins) /\ Derived(d, tx.outs)

ThreadDerived(d, r) ==
    /\ Derived(d, r.found)
    /\ \A x \in r.fix \cup r.cur : Derived(d, {x[1]})
    /\ \A x \in Slot : r.outs[x].status # "None" => Derived(d, {x[1]})

ThreadsTyped == th \in [Threads -> ThreadState]
WorldTyped == chain \in Seq(Tx) /\ signed \subseteq Tx /\ issued \subseteq Slates /\ reorgs \in Nat

ThreadsDerived == \A t \in Threads : ThreadDerived(db, th[t])

ChainDerived(d) ==
    /\ Derived(d, Genesis)
    /\ TxsDerived(d, signed)
    /\ TxsDerived(d, {chain[n] : n \in 1 .. Len(chain)})

Inv ==
    /\ TypeOK
    /\ GoodDb(db)
    /\ ThreadsDerived
    /\ ChainDerived(db)

-----------------------------------------------------------------------------
(* The invariant implies KeysFresh.                                        *)
LEMMA InvKeysFresh == Inv => KeysFresh
<1> SUFFICES ASSUME Inv, NEW k \in KeysInUse
             PROVE  k[2] < db.nextChild[k[1]]
  BY DEF KeysFresh
<1> USE DEF Inv
<1>1. CASE k \in KeysOf({x \in Slot : Exists(db, x)})
  BY <1>1 DEF KeysOf, GoodDb, RecordsDerived, Derived
<1>2. CASE k \in UNION {KeysOf(db.ctxs[s].ins) \cup db.ctxs[s].outs : s \in Slates}
  BY <1>2 DEF GoodDb, ContextsDerived, Derived
<1>3. CASE k \in UNION {tx.ins \cup tx.outs : tx \in signed}
  BY <1>3 DEF ChainDerived, TxsDerived, Derived
<1>4. CASE k \in Genesis
  BY <1>4 DEF ChainDerived, Derived
<1>5. CASE k \in UNION {b.ins \cup b.outs : b \in Blocks(Height)}
  <2>1. Blocks(Height) \subseteq {chain[n] : n \in 1 .. Len(chain)}
    BY DEF Blocks
  <2> QED
    BY <1>5, <2>1 DEF ChainDerived, TxsDerived, Derived
<1>6. CASE k \in UNION {th[t].found \cup KeysOf(Copied(t)) : t \in Threads}
  <2>1. PICK t \in Threads : k \in th[t].found \cup KeysOf(Copied(t))
    BY <1>6
  <2>2. ThreadDerived(db, th[t])
    BY DEF ThreadsDerived
  <2>3. CASE k \in th[t].found
    BY <2>2, <2>3 DEF ThreadDerived, Derived
  <2>4. CASE k \in KeysOf(Copied(t))
    BY <2>2, <2>4 DEF ThreadDerived, Derived, KeysOf, Copied
  <2> QED
    BY <2>1, <2>3, <2>4
<1> QED
  BY <1>1, <1>2, <1>3, <1>4, <1>5, <1>6 DEF KeysInUse

-----------------------------------------------------------------------------
(* Typing of what the actions read                                         *)

(* The constants of the state machine are well typed.                      *)
LEMMA ConstantsTyped ==
    /\ 0 \in Acct
    /\ Genesis \subseteq Key
    /\ NoOutputs \in [Slot -> OutputData]
    /\ Idle \in ThreadState
    /\ EmptyBlock \in Tx
<1>1. 0 \in Acct
  BY SizesAssumption DEF Acct
<1>2. Genesis \subseteq Key
  BY CoreAssumption, SizesAssumption DEF Genesis, Key
<1>3. NoOutputs \in [Slot -> OutputData]
  BY NothingTyped DEF NoOutputs
<1>4. Idle \in ThreadState
  BY <1>1, <1>3 DEF Idle, ThreadState, PC
<1>5. EmptyBlock \in Tx
  BY NothingTyped DEF EmptyBlock, Tx
<1> QED
  BY <1>1, <1>2, <1>3, <1>4, <1>5

(* What the actions read off the node's chain (height, unspent outputs,    *)
(* coinbase heights) is well typed.                                        *)
LEMMA ChainTyped ==
    ASSUME TypeOK
    PROVE  /\ Height \in Nat
           /\ \A n \in 1 .. Len(chain) : chain[n] \in Tx
           /\ Utxo \subseteq Key
           /\ \A h \in Nat : UtxoUpTo(h) \subseteq Utxo
           /\ CoinbaseHeight \in [Key -> Nat]
<1>1. Height \in Nat /\ \A n \in 1 .. Len(chain) : chain[n] \in Tx
  BY DEF TypeOK, Height
<1>2. \A b \in Blocks(Height) : b.outs \subseteq Key
  BY <1>1 DEF Blocks, Tx
<1>3. Utxo \subseteq Key
  BY <1>2, ConstantsTyped DEF Utxo
<1>4. CoinbaseHeight \in [Key -> Nat]
  <2> SUFFICES ASSUME NEW k \in Key PROVE CoinbaseHeight[k] \in Nat
    BY DEF CoinbaseHeight
  <2>1. CASE \E tx \in signed : tx.cb > 0 /\ k \in tx.outs
    <3> DEFINE w == CHOOSE tx \in signed : tx.cb > 0 /\ k \in tx.outs
    <3>1. w \in signed
      BY <2>1
    <3>2. w \in Tx
      BY <3>1 DEF TypeOK
    <3> HIDE DEF w
    <3>3. w.cb \in Nat
      BY <3>2 DEF Tx
    <3> QED
      BY <2>1, <3>3 DEF CoinbaseHeight, w
  <2>2. CASE ~ \E tx \in signed : tx.cb > 0 /\ k \in tx.outs
    BY <2>2 DEF CoinbaseHeight
  <2> QED
    BY <2>1, <2>2
<1> QED
  BY <1>1, <1>3, <1>4 DEF UtxoUpTo

(* Every output of the chain is derived.                                   *)
LEMMA UtxoDerived ==
    ASSUME Inv
    PROVE  Derived(db, Utxo)
<1>1. Blocks(Height) \subseteq {chain[n] : n \in 1 .. Len(chain)}
  BY DEF Blocks
<1> QED
  BY <1>1 DEF Inv, ChainDerived, TxsDerived, Derived, Utxo

-----------------------------------------------------------------------------
(* What a good change of the database leaves good                          *)

(* What a thread remembers stays derived when the child indices grow.      *)
LEMMA ThreadGrows ==
    ASSUME NEW d \in WalletDB, NEW e \in WalletDB, Grows(d, e),
           NEW r \in ThreadState, ThreadDerived(d, r)
    PROVE  ThreadDerived(e, r)
<1>1. r.found \subseteq Key /\ r.fix \subseteq Slot /\ r.cur \subseteq Slot
  BY DEF ThreadState
<1>2. \A x \in Slot : {x[1]} \subseteq Key
  BY DEF Slot
<1> QED
  BY <1>1, <1>2, DerivedGrows DEF ThreadDerived

(* The outputs of transactions stay derived when the child indices grow.   *)
LEMMA TxsGrow ==
    ASSUME NEW d \in WalletDB, NEW e \in WalletDB, Grows(d, e),
           NEW T, T \subseteq Tx, TxsDerived(d, T)
    PROVE  TxsDerived(e, T)
<1>1. \A tx \in T : tx.ins \subseteq Key /\ tx.outs \subseteq Key
  BY DEF Tx
<1> QED
  BY <1>1, DerivedGrows DEF TxsDerived

(* Everything on the chain and in the mempool stays derived when the child *)
(* indices grow.                                                           *)
LEMMA ChainGrows ==
    ASSUME TypeOK, NEW d \in WalletDB, NEW e \in WalletDB, Grows(d, e), ChainDerived(d)
    PROVE  ChainDerived(e)
<1>1. {chain[n] : n \in 1 .. Len(chain)} \subseteq Tx /\ signed \subseteq Tx
  BY ChainTyped DEF TypeOK
<1> QED
  BY <1>1, TxsGrow, DerivedGrows, ConstantsTyped DEF ChainDerived

(* An idle thread remembers no key.                                        *)
LEMMA IdleDerived == \A d : ThreadDerived(d, Idle)
  BY DEF ThreadDerived, Idle, NoOutputs, NoOutput, Derived

-----------------------------------------------------------------------------
(* Shapes of steps                                                         *)

WalletStep == UNCHANGED <<active, lock, th>> \/ Restart

WorldStep ==
    \/ UNCHANGED world
    \/ issued' \subseteq Slates /\ UNCHANGED <<chain, signed, reorgs>>
    \/ \E tx \in Tx : Derived(db', tx.ins) /\ Derived(db', tx.outs) /\ Sign(tx)

(* An API call that changes the database well and publishes only what is   *)
(* derived keeps the invariant.                                            *)
LEMMA ApiInv ==
    ASSUME Inv, Keeps(db, db'), WalletStep, WorldStep
    PROVE  Inv'
<1>1. db \in WalletDB /\ db' \in WalletDB /\ Grows(db, db') /\ GoodDb(db')
  BY DEF Inv, GoodDb, Keeps
<1>2. ChainDerived(db')
  BY <1>1, ChainGrows DEF Inv
<1>3. /\ active' \in Acct /\ lock' \in Threads \cup {NoThread}
      /\ th' \in [Threads -> ThreadState]
      /\ \A t \in Threads : ThreadDerived(db', th'[t])
  <2>1. CASE UNCHANGED <<active, lock, th>>
    <3>1. \A t \in Threads : th[t] \in ThreadState /\ ThreadDerived(db, th[t])
      BY DEF Inv, TypeOK, ThreadsDerived
    <3>2. \A t \in Threads : ThreadDerived(db', th[t])
      BY <1>1, <3>1, ThreadGrows
    <3> QED
      BY <2>1, <3>2 DEF Inv, TypeOK
  <2>2. CASE Restart
    BY <2>2, ConstantsTyped, IdleDerived DEF Restart
  <2> QED
    BY <2>1, <2>2 DEF WalletStep
<1>4. /\ chain' = chain /\ reorgs' = reorgs /\ issued' \subseteq Slates
      /\ signed' \subseteq Tx /\ TxsDerived(db', signed')
  <2>0. TxsDerived(db', signed) /\ signed \subseteq Tx /\ issued \subseteq Slates
    BY <1>2 DEF ChainDerived, Inv, TypeOK
  <2>1. CASE UNCHANGED world
    BY <2>0, <2>1 DEF world
  <2>2. CASE issued' \subseteq Slates /\ UNCHANGED <<chain, signed, reorgs>>
    BY <2>0, <2>2
  <2>3. CASE \E tx \in Tx : Derived(db', tx.ins) /\ Derived(db', tx.outs) /\ Sign(tx)
    BY <2>0, <2>3 DEF Sign, TxsDerived
  <2> QED
    BY <2>1, <2>2, <2>3 DEF WorldStep
<1>5. ChainDerived(db)'
  BY <1>2, <1>4 DEF ChainDerived, Genesis
<1>6. TypeOK'
  BY <1>1, <1>3, <1>4 DEF Inv, TypeOK
<1> QED
  BY <1>1, <1>3, <1>5, <1>6 DEF Inv, ThreadsDerived

(* A step of one thread that changes the database well and remembers only  *)
(* derived keys keeps the invariant.                                       *)
LEMMA ThreadInv ==
    ASSUME Inv, NEW t \in Threads, NEW r \in ThreadState, ThreadDerived(db, r),
           Become(t, r), Keeps(db, db'), UNCHANGED active,
           lock' \in Threads \cup {NoThread}, UNCHANGED world
    PROVE  Inv'
<1>1. db \in WalletDB /\ db' \in WalletDB /\ Grows(db, db') /\ GoodDb(db')
  BY DEF Inv, GoodDb, Keeps
<1>2. ChainDerived(db')
  BY <1>1, ChainGrows DEF Inv
<1>3. ChainDerived(db)'
  BY <1>2 DEF ChainDerived, Genesis, world
<1>4. th' \in [Threads -> ThreadState]
      /\ \A u \in Threads : th'[u] = IF u = t THEN r ELSE th[u]
  BY DEF Inv, TypeOK, Become
<1>5. \A u \in Threads : ThreadDerived(db, th'[u])
  BY <1>4 DEF Inv, ThreadsDerived
<1>6. \A u \in Threads : ThreadDerived(db', th'[u])
  <2>1. \A u \in Threads : th'[u] \in ThreadState
    BY <1>4
  <2> QED
    BY <1>1, <1>5, <2>1, ThreadGrows
<1>7. TypeOK'
  BY <1>1, <1>4 DEF Inv, TypeOK, world
<1> QED
  BY <1>1, <1>3, <1>6, <1>7 DEF Inv, ThreadsDerived

(* The wallet starts with derived keys only.                               *)
LEMMA InitInv == Init => Inv
<1> SUFFICES ASSUME Init PROVE Inv
  OBVIOUS
<1>1. \A a \in Acct, i \in Ids : InitEntry(a, i) \in TxLogEntry
  BY NothingTyped DEF InitEntry, TxLogEntry, TxLogEntryType, NoEntry, NoKern
<1>2. InitDB.outs \in [Slot -> OutputData]
  <2> SUFFICES ASSUME NEW x \in Slot PROVE InitDB.outs[x] \in OutputData
    BY DEF InitDB
  <2>1. CASE x \in Genesis \X {TRUE}
    <3>1. x[1][1] \in Acct /\ x[1][2] \in Ids
      BY <2>1, CoreAssumption, SizesAssumption DEF Genesis, Ids
    <3> QED
      BY <2>1, <3>1 DEF InitDB, OutputData, OutputStatus
  <2>2. CASE x \notin Genesis \X {TRUE}
    BY <2>2, NothingTyped DEF InitDB
  <2> QED
    BY <2>1, <2>2
<1>3. InitDB \in WalletDB
  <2>1. InitDB.txlog \in [Acct -> [Ids -> TxLogEntry]]
    BY <1>1 DEF InitDB
  <2>2. InitDB.nextTx \in [Acct -> 0 .. MaxTxs] /\ InitDB.nextChild \in [Acct -> 0 .. MaxChild]
    BY CoreAssumption, SizesAssumption DEF InitDB
  <2>3. InitDB.confH \in [Acct -> Nat] /\ InitDB.ctxs \in [Slates -> Context]
    BY NothingTyped DEF InitDB
  <2>4. InitDB = [outs |-> InitDB.outs, txlog |-> InitDB.txlog, nextTx |-> InitDB.nextTx,
                  nextChild |-> InitDB.nextChild, confH |-> InitDB.confH,
                  ctxs |-> InitDB.ctxs]
    BY DEF InitDB
  <2> QED
    BY <1>2, <2>1, <2>2, <2>3, <2>4 DEF WalletDB
<1>4. Derived(InitDB, Genesis)
  BY CoreAssumption DEF Derived, Genesis, InitDB
<1>5. GoodDb(InitDB)
  <2>1. ASSUME NEW x \in Slot, Exists(InitDB, x)
        PROVE  Derived(InitDB, {x[1]})
    <3>1. x \in Genesis \X {TRUE}
      BY <2>1 DEF Exists, InitDB, NoOutput
    <3> QED
      BY <3>1, <1>4 DEF Derived
  <2>2. ContextsDerived(InitDB)
    BY DEF ContextsDerived, InitDB, NoContext, KeysOf, Derived
  <2> QED
    BY <1>3, <2>1, <2>2 DEF GoodDb, RecordsDerived
<1>6. ChainDerived(db)
  BY <1>4 DEF ChainDerived, TxsDerived, Init
<1>7. ThreadsDerived
  BY IdleDerived DEF ThreadsDerived, Init
<1>8. TypeOK
  BY <1>3, ConstantsTyped DEF TypeOK, Init
<1> QED
  BY <1>5, <1>6, <1>7, <1>8 DEF Inv, Init

-----------------------------------------------------------------------------
(* API calls                                                               *)

(* Good changes compose.                                                   *)
LEMMA KeepsThen ==
    ASSUME NEW d, GoodDb(d), NEW e, Keeps(d, e), NEW f, Keeps(e, f)
    PROVE  Keeps(d, f)
<1>1. d \in WalletDB /\ e \in WalletDB /\ f \in WalletDB
  BY DEF Keeps, GoodDb
<1> QED
  BY <1>1, KeepsTransitive

(* The refresh at the start of a call is a good change, and so is leaving  *)
(* it out.                                                                 *)
LEMMA RefreshedKeeps ==
    ASSUME Inv, NEW a \in Acct, NEW d \in Refreshed(db, a)
    PROVE  GoodDb(d) /\ Keeps(db, d)
<1>1. GoodDb(db) /\ Height \in Nat
  BY ChainTyped DEF Inv
<1>2. Keeps(db, db)
  BY <1>1, KeepsSelf
<1>3. RefreshHasIds(db, a, FALSE, Utxo) =>
        Keeps(db, refresh_output_state(db, a, FALSE, Height, Utxo, Kernels))
  BY <1>1, RefreshKeeps
<1>4. d = db \/ /\ RefreshHasIds(db, a, FALSE, Utxo)
                /\ d = refresh_output_state(db, a, FALSE, Height, Utxo, Kernels)
  BY DEF Refreshed
<1>5. Keeps(db, d)
  BY <1>2, <1>3, <1>4
<1> QED
  BY <1>5 DEF Keeps

(* What a selection may pick has a record, hence a derived key.            *)
LEMMA EligibleDerived ==
    ASSUME NEW d, GoodDb(d), NEW a, NEW S, S \subseteq Eligible(d, a, ZeroConf)
    PROVE  S \subseteq Slot /\ KeysOf(S) \subseteq Key /\ Derived(d, KeysOf(S))
<1>1. \A x \in S : x \in Slot /\ Exists(d, x)
  BY DEF Eligible, Exists
<1>2. \A x \in S : x[1] \in Key /\ Derived(d, {x[1]})
  BY <1>1 DEF GoodDb, RecordsDerived, Slot
<1> QED
  BY <1>1, <1>2 DEF KeysOf, Derived

(* An expiry height is a height.                                           *)
LEMMA ExpiryNat ==
    ASSUME Inv, NEW b \in Ttls
    PROVE  Expiry(b) \in Nat
<1>1. b \in Nat /\ Height \in Nat
  BY ChainTyped, CoreAssumption DEF Inv
<1> QED
  BY <1>1 DEF Expiry

(* A selection: the change keys are taken first, then the context is saved *)
(* (build_send_tx and its callers).                                        *)
LEMMA SelectedKeeps ==
    ASSUME NEW d, GoodDb(d), active \in Acct, NEW n \in Nat, HasChildren(d, active, n),
           NEW b, NEW S, S \subseteq Eligible(d, b, ZeroConf), NEW a \in Acct,
           NEW s \in Slates, NEW kern \in Kern, NEW ttl \in Nat,
           NEW kind \in {"Send", "Pay"}
    PROVE  /\ Keeps(d, next_child(d, active, n))
           /\ Selected(d, kind, S, n, a, kern, ttl) \in Context
           /\ KeysOf(S) \subseteq Key /\ NewKeys(d, active, n) \subseteq Key
           /\ Derived(next_child(d, active, n), KeysOf(S))
           /\ Derived(next_child(d, active, n), NewKeys(d, active, n))
           /\ Keeps(d, SaveContext(next_child(d, active, n), s,
                                   Selected(d, kind, S, n, a, kern, ttl)))
<1> DEFINE d1 == next_child(d, active, n)
           c == Selected(d, kind, S, n, a, kern, ttl)
<1>1. S \subseteq Slot /\ KeysOf(S) \subseteq Key /\ Derived(d, KeysOf(S))
  BY EligibleDerived
<1>2. Keeps(d, d1) /\ Derived(d1, NewKeys(d, active, n))
  BY NextChildKeeps
<1>3. NewKeys(d, active, n) \subseteq Key
  BY NewKeysType DEF GoodDb
<1>4. d \in WalletDB /\ d1 \in WalletDB /\ Grows(d, d1) /\ GoodDb(d1)
  BY <1>2 DEF Keeps, GoodDb
<1> HIDE DEF d1
<1>5. Derived(d1, KeysOf(S))
  BY <1>1, <1>4, DerivedGrows
<1>6. c \in Context /\ c.ins = S /\ c.outs = NewKeys(d, active, n)
  BY <1>1, <1>3 DEF Selected, Context
<1> HIDE DEF c
<1>7. Keeps(d1, SaveContext(d1, s, c))
  BY <1>2, <1>4, <1>5, <1>6, SaveContextKeeps
<1>8. Keeps(d, SaveContext(d1, s, c))
  BY <1>2, <1>7, KeepsThen
<1> QED
  BY <1>1, <1>2, <1>3, <1>5, <1>6, <1>8 DEF d1, c

(* Storing a finished transaction writes one entry; it still carries the   *)
(* slate id, so that update_tx_slate_state finds it.                       *)
LEMMA StoredKeeps ==
    ASSUME NEW d, GoodDb(d), NEW s \in Slates, NEW type \in {"TxSent", "TxReceived"},
           NEW kern \in Kern, EntriesToFinish(d, s, type) # {}, active \in Acct
    PROVE  /\ Keeps(d, Stored(d, s, type, kern))
           /\ Keeps(d, Closed(d, s, type, kern))
           /\ Keeps(d, Finished(d, s, type, kern))
<1> DEFINE P == EntriesToFinish(d, s, type)
           e == Entry(d, First(P))
           f == [e EXCEPT !.kern = kern]
           d1 == Stored(d, s, type, kern)
           d2 == Closed(d, s, type, kern)
           q == <<e.acct, e.id>>
<1>1. P \subseteq Pos /\ First(P) \in P /\ e \in TxLogEntry
  <2>1. P \subseteq Pos
    BY DEF EntriesToFinish, TxsWithSlate, Written
  <2> QED
    BY <2>1, FirstIn, FirstTyped DEF GoodDb
<1>2. e.slate = s /\ e.type = type
  BY <1>1 DEF EntriesToFinish, TxsWithSlate
<1> HIDE DEF P, e
<1>3. /\ f \in TxLogEntry /\ f.slate = s /\ f.type = type
      /\ f.id = e.id /\ e.acct \in Acct /\ e.id \in Ids
  BY <1>1, <1>2 DEF TxLogEntry
<1>4. d1 = SaveEntry(d, e.acct, f)
  BY DEF Stored, update_stored_tx, e, P
<1> HIDE DEF f
<1>5. Keeps(d, d1)
  BY <1>3, <1>4, SaveEntryKeeps
<1>6. Keeps(d1, d2) /\ d2.txlog = d1.txlog
  <2>1. d1 \in WalletDB /\ GoodDb(d1)
    BY <1>5 DEF Keeps, GoodDb
  <2>2. d2 = DeleteContext(d1, s)
    BY DEF Closed
  <2> HIDE DEF d1
  <2> QED
    BY <2>1, <2>2, DeleteContextKeeps DEF DeleteContext, SaveContext, WalletDB
<1>7. d1.txlog[e.acct][e.id] = f
  BY <1>3, <1>4 DEF GoodDb, WalletDB, SaveEntry
<1>8. q \in TxsWithSlate(d2, s)
  BY <1>3, <1>6, <1>7 DEF TxsWithSlate, Written, Entry, Pos
<1>9. Keeps(d, d2) /\ GoodDb(d2)
  BY <1>5, <1>6, KeepsThen DEF Keeps
<1> HIDE DEF d1, d2
<1>10. Keeps(d2, update_tx_slate_state(d2, active, s))
  BY <1>8, <1>9, SlateStateKeeps
<1>11. Keeps(d, update_tx_slate_state(d2, active, s))
  BY <1>9, <1>10, KeepsThen
<1> QED
  BY <1>5, <1>9, <1>11 DEF Finished, d1, d2

(* Finishing a slate: the transaction is built from the context.           *)
LEMMA FinishInv ==
    ASSUME Inv, NEW d, GoodDb(d), Keeps(db, d), NEW s \in Slates,
           NEW type \in {"TxSent", "TxReceived"}, NEW kern \in Kern,
           EntriesToFinish(d, s, type) # {}, Finish(d, s, type, kern)
    PROVE  Inv'
<1>0. GoodDb(db) /\ active \in Acct
  BY DEF Inv, TypeOK
<1>1. Keeps(d, db')
  BY <1>0, StoredKeeps, KeepsSelf DEF Finish, GoodDb
<1>2. Keeps(db, db')
  BY <1>0, <1>1, KeepsThen
<1>3. WalletStep
  BY DEF Finish, WalletStep
<1> DEFINE c == d.ctxs[s]
           tx == SignedTx(c, kern)
<1>4. c \in Context /\ Derived(d, KeysOf(c.ins)) /\ Derived(d, c.outs)
  BY DEF GoodDb, WalletDB, ContextsDerived
<1>5. KeysOf(c.ins) \subseteq Key /\ c.outs \subseteq Key
  BY <1>4 DEF Context, KeysOf, Slot
<1>6. Derived(db', KeysOf(c.ins)) /\ Derived(db', c.outs)
  BY <1>1, <1>4, <1>5, DerivedGrows DEF Keeps, GoodDb
<1>7. tx \in Tx /\ tx.ins = KeysOf(c.ins) /\ tx.outs = c.outs
  BY <1>5 DEF SignedTx, Tx
<1>8. WorldStep
  BY <1>6, <1>7 DEF WorldStep, Finish
<1> QED
  BY <1>2, <1>3, <1>8, ApiInv

(* What the proofs of the calls start from.                                *)
LEMMA InvFacts ==
    ASSUME Inv
    PROVE  /\ GoodDb(db) /\ Keeps(db, db) /\ active \in Acct
           /\ db \in WalletDB /\ issued \subseteq Slates
           /\ Height \in Nat
<1>1. GoodDb(db) /\ active \in Acct /\ db \in WalletDB /\ issued \subseteq Slates
  BY DEF Inv, TypeOK, GoodDb
<1> QED
  BY <1>1, KeepsSelf, ChainTyped DEF Inv

(* The slates of every role are slates.                                    *)
LEMMA RolesTyped ==
    /\ SendSlates \subseteq Slates /\ RecvSlates \subseteq Slates
    /\ InvSlates \subseteq Slates /\ PaySlates \subseteq Slates
  BY CoreAssumption

(* init_send_tx keeps the invariant.                                       *)
LEMMA SendInv ==
    ASSUME Inv, NEW s \in SendSlates, NEW a \in Acct, init_send_tx(s, a)
    PROVE  Inv'
<1>1. PICK d \in Refreshed(db, a), n \in 0 .. MaxChange, b \in Ttls :
      \E S \in (SUBSET Eligible(d, a, ZeroConf)) \ {{}} :
          /\ HasChildren(d, active, n)
          /\ LET d1 == next_child(d, active, n)
                 c == Selected(d, "Send", S, n, a, NoKern, Expiry(b))
             IN  Call({d, d1}, SaveContext(d1, s, c),
                      /\ issued' = issued \cup {s}
                      /\ UNCHANGED <<chain, signed, reorgs>>)
  BY DEF init_send_tx
<1>2. PICK S \in (SUBSET Eligible(d, a, ZeroConf)) \ {{}} :
          /\ HasChildren(d, active, n)
          /\ LET d1 == next_child(d, active, n)
                 c == Selected(d, "Send", S, n, a, NoKern, Expiry(b))
             IN  Call({d, d1}, SaveContext(d1, s, c),
                      /\ issued' = issued \cup {s}
                      /\ UNCHANGED <<chain, signed, reorgs>>)
  BY <1>1
<1> DEFINE d1 == next_child(d, active, n)
           d2 == SaveContext(d1, s, Selected(d, "Send", S, n, a, NoKern, Expiry(b)))
<1>3. GoodDb(d) /\ Keeps(db, d)
  BY RefreshedKeeps
<1>4. n \in Nat /\ Expiry(b) \in Nat /\ s \in Slates /\ NoKern \in Kern
  BY ExpiryNat, RolesTyped, NothingTyped, CoreAssumption
<1>5. Keeps(d, d1) /\ Keeps(d, d2)
  BY <1>2, <1>3, <1>4, InvFacts, SelectedKeeps
<1>6. Keeps(db, d1) /\ Keeps(db, d2)
  BY <1>3, <1>5, InvFacts, KeepsThen
<1>7. /\ db' \in {d, d1, d2} /\ WalletStep
      /\ \/ UNCHANGED world
         \/ issued' = issued \cup {s} /\ UNCHANGED <<chain, signed, reorgs>>
  BY <1>2 DEF Call, WalletStep
<1>8. WorldStep
  BY <1>4, <1>7, InvFacts DEF WorldStep
<1> HIDE DEF d1, d2
<1>9. Keeps(db, db')
  BY <1>3, <1>6, <1>7
<1> QED
  BY <1>7, <1>8, <1>9, ApiInv

(* init_send_tx with late locking keeps the invariant.                     *)
LEMMA SendLateInv ==
    ASSUME Inv, NEW s \in SendSlates, NEW a \in Acct, init_send_tx_late(s, a)
    PROVE  Inv'
<1>1. PICK d \in Refreshed(db, a), b \in Ttls :
          LET c == [NoContext EXCEPT !.kind = "Late", !.acct = a, !.ttl = Expiry(b)]
          IN  Call({d}, SaveContext(d, s, c),
                   /\ issued' = issued \cup {s}
                   /\ UNCHANGED <<chain, signed, reorgs>>)
  BY DEF init_send_tx_late
<1> DEFINE c == [NoContext EXCEPT !.kind = "Late", !.acct = a, !.ttl = Expiry(b)]
           d1 == SaveContext(d, s, c)
<1>2. GoodDb(d) /\ Keeps(db, d)
  BY RefreshedKeeps
<1>3. s \in Slates /\ c \in Context /\ c.ins = {} /\ c.outs = {}
  BY ExpiryNat, RolesTyped, NothingTyped DEF NoContext, Context
<1>4. Keeps(d, d1)
  <2> HIDE DEF c
  <2>1. Derived(d, KeysOf(c.ins)) /\ Derived(d, c.outs)
    BY <1>3 DEF KeysOf, Derived
  <2> QED
    BY <1>2, <1>3, <2>1, SaveContextKeeps
<1>5. /\ db' \in {d, d1} /\ WalletStep
      /\ \/ UNCHANGED world
         \/ issued' = issued \cup {s} /\ UNCHANGED <<chain, signed, reorgs>>
  BY <1>1 DEF Call, WalletStep
<1>6. WorldStep
  BY <1>3, <1>5, InvFacts DEF WorldStep
<1> HIDE DEF d1
<1>7. Keeps(db, db')
  BY <1>2, <1>4, <1>5, InvFacts, KeepsThen
<1> QED
  BY <1>5, <1>6, <1>7, ApiInv

(* A failed selection keeps the invariant: at most a refresh happened.     *)
LEMMA FailInv ==
    ASSUME Inv, NEW a \in Acct, SelectionFails(a)
    PROVE  Inv'
<1>1. PICK d \in Refreshed(db, a) : db' = d /\ WalletStep /\ UNCHANGED world
  BY DEF SelectionFails, Call, WalletStep
<1>2. Keeps(db, db')
  BY <1>1, RefreshedKeeps
<1> QED
  BY <1>1, <1>2, ApiInv DEF WorldStep

(* tx_lock_outputs keeps the invariant.                                    *)
LEMMA TxLockInv ==
    ASSUME Inv, NEW s \in Slates, tx_lock_outputs(s)
    PROVE  Inv'
<1>1. Keeps(db, db') /\ WalletStep /\ WorldStep
  BY InvFacts, LockKeeps DEF tx_lock_outputs, WalletStep, WorldStep
<1> QED
  BY <1>1, ApiInv

(* finalize_tx of a payment keeps the invariant.                           *)
LEMMA FinalizeInv ==
    ASSUME Inv, NEW s \in Slates, finalize_tx(s)
    PROVE  Inv'
<1>1. SendKern(s) \in Kern
  BY DEF SendKern, Kern
<1> QED
  BY <1>1, InvFacts, FinishInv DEF finalize_tx, CanFinish

(* finalize_tx of an invoice keeps the invariant.                          *)
LEMMA FinalizeInvoiceInv ==
    ASSUME Inv, NEW s \in Slates, finalize_invoice(s)
    PROVE  Inv'
<1>1. db.ctxs[s] \in Context
  BY InvFacts DEF WalletDB
<1>2. <<s, db.ctxs[s].outs>> \in Kern
  BY <1>1 DEF Kern, Context
<1> QED
  BY <1>2, InvFacts, FinishInv DEF finalize_invoice

(* finalize_tx of a late-locked payment keeps the invariant, wherever it   *)
(* stops.                                                                  *)
LEMMA FinalizeLateInv ==
    ASSUME Inv, NEW s \in Slates, finalize_tx_late(s)
    PROVE  Inv'
<1> DEFINE a == db.ctxs[s].acct
           ttl == db.ctxs[s].ttl
           d1(n) == next_child(db, active, n)
           d2(n, S) == SaveContext(d1(n), s, Selected(db, "Send", S, n, a, NoKern, ttl))
           d3(n, S) == lock_tx_context(d2(n, S), s)
<1>1. PICK n \in 0 .. MaxChange : \E S \in (SUBSET Eligible(db, active, ZeroConf)) \ {{}} :
          /\ HasChildren(db, active, n) /\ HasIds(db, a, 1)
          /\ \/ CanFinish(d3(n, S), s) /\ Finish(d3(n, S), s, "TxSent", SendKern(s))
             \/ ~CanFinish(d3(n, S), s) /\ Call({}, d3(n, S), UNCHANGED world)
             \/ db' \in {d1(n), d2(n, S), d3(n, S)} /\ Restart /\ UNCHANGED world
             \/ Call({}, d1(n), UNCHANGED world)
  BY DEF finalize_tx_late
<1>2. PICK S \in (SUBSET Eligible(db, active, ZeroConf)) \ {{}} :
          /\ HasChildren(db, active, n) /\ HasIds(db, a, 1)
          /\ \/ CanFinish(d3(n, S), s) /\ Finish(d3(n, S), s, "TxSent", SendKern(s))
             \/ ~CanFinish(d3(n, S), s) /\ Call({}, d3(n, S), UNCHANGED world)
             \/ db' \in {d1(n), d2(n, S), d3(n, S)} /\ Restart /\ UNCHANGED world
             \/ Call({}, d1(n), UNCHANGED world)
  BY <1>1
<1> DEFINE c == Selected(db, "Send", S, n, a, NoKern, ttl)
           e1 == d1(n)
           e2 == d2(n, S)
           e3 == d3(n, S)
<1>3. n \in Nat /\ NoKern \in Kern /\ a \in Acct /\ ttl \in Nat
  <2>1. db.ctxs[s] \in Context
    BY InvFacts DEF WalletDB
  <2> QED
    BY <2>1, NothingTyped, CoreAssumption DEF Context
<1>4. Keeps(db, e1) /\ Keeps(db, e2) /\ c \in Context
  BY <1>2, <1>3, InvFacts, SelectedKeeps
<1>5. GoodDb(e2) /\ e2.ctxs[s].acct = a /\ e2.nextTx = db.nextTx
  <2>1. e1 \in WalletDB /\ GoodDb(e2)
    BY <1>4 DEF Keeps, GoodDb
  <2>2. e1.nextTx = db.nextTx
    BY InvFacts DEF next_child, WalletDB
  <2>3. c.acct = a
    BY DEF Selected
  <2> HIDE DEF e1, c
  <2>4. e2 = SaveContext(e1, s, c)
    BY DEF e1, c
  <2> QED
    BY <2>1, <2>2, <2>3, <2>4 DEF SaveContext, WalletDB
<1>6. Keeps(e2, e3)
  <2> HIDE DEF d2
  <2> QED
    BY <1>2, <1>5, LockKeeps DEF HasIds
<1>7. Keeps(db, e3) /\ GoodDb(e3)
  BY <1>4, <1>6, InvFacts, KeepsThen DEF Keeps
<1>8. CASE CanFinish(e3, s) /\ Finish(e3, s, "TxSent", SendKern(s))
  <2>1. SendKern(s) \in Kern
    BY DEF SendKern, Kern
  <2> HIDE DEF d3
  <2> QED
    BY <1>7, <1>8, <2>1, FinishInv DEF CanFinish
<1>9. CASE db' \in {e1, e2, e3} /\ WalletStep /\ UNCHANGED world
  <2>1. Keeps(db, db')
    <3> HIDE DEF d1, d2, d3
    <3> QED
      BY <1>4, <1>7, <1>9
  <2> QED
    BY <1>9, <2>1, ApiInv DEF WorldStep
<1> QED
  <2> HIDE DEF d1, d2, d3
  <2> QED
    BY <1>2, <1>8, <1>9 DEF Call, WalletStep

(* The key next_child hands out, and the database after it.                *)
LEMMA OneChild ==
    ASSUME Inv, HasChildren(db, active, 1)
    PROVE  LET k == <<active, db.nextChild[active]>>
               d1 == next_child(db, active, 1)
           IN  /\ NewKeys(db, active, 1) = {k} /\ k \in Key
               /\ Keeps(db, d1) /\ GoodDb(d1) /\ Derived(d1, {k})
               /\ d1.nextTx = db.nextTx
<1> DEFINE k == <<active, db.nextChild[active]>>
           d1 == next_child(db, active, 1)
<1>1. db.nextChild[active] \in Nat
  BY InvFacts DEF WalletDB
<1>2. NewKeys(db, active, 1) = {k}
  <2>1. \A j : j \in 0 .. 1 - 1 <=> j = 0
    OBVIOUS
  <2> QED
    BY <1>1, <2>1 DEF NewKeys
<1>3. NewKeys(db, active, 1) \subseteq Key
  BY InvFacts, NewKeysType
<1>4. Keeps(db, d1) /\ Derived(d1, NewKeys(db, active, 1))
  BY InvFacts, NextChildKeeps
<1>5. d1.nextTx = db.nextTx
  BY InvFacts DEF next_child, WalletDB
<1> QED
  BY <1>2, <1>3, <1>4, <1>5 DEF Keeps

(* receive_tx keeps the invariant, wherever it stops.                      *)
LEMMA ReceiveInv ==
    ASSUME Inv, NEW s \in Slates, NEW a \in Acct, receive_tx(s, a)
    PROVE  Inv'
<1> DEFINE k == <<active, db.nextChild[active]>>
           d1 == next_child(db, active, 1)
           i == db.nextTx[a]
           tx == [EmptyBlock EXCEPT !.outs = {k}, !.kern = <<s, {k}>>]
           d2(b) == build_recipient_output(d1, s, k, a, Expiry(b))
           d3(b) == [d2(b) EXCEPT !.txlog[a][i].kern = <<s, {k}>>]
<1>1. HasChildren(db, active, 1) /\ HasIds(db, a, 1)
  BY DEF receive_tx
<1>2. PICK b \in Ttls :
        Call({d1, d2(b), d3(b)}, update_tx_slate_state(d3(b), a, s), Sign(tx))
  BY DEF receive_tx
<1>3. /\ k \in Key /\ Keeps(db, d1) /\ GoodDb(d1) /\ Derived(d1, {k})
      /\ d1.nextTx = db.nextTx
  BY <1>1, OneChild
<1> HIDE DEF d1, k
<1>4. Expiry(b) \in Nat
  BY ExpiryNat
<1> DEFINE e2 == d2(b)
           e3 == d3(b)
           e4 == update_tx_slate_state(e3, a, s)
           r == ReceivedEntry(d1, s, a, Expiry(b))
           f == [r EXCEPT !.kern = <<s, {k}>>]
<1>5. Keeps(d1, e2) /\ GoodDb(e2)
  BY <1>1, <1>3, <1>4, RecipientKeeps DEF HasIds, Keeps
<1>6. i \in Ids /\ r \in TxLogEntry /\ r.id = i /\ f \in TxLogEntry /\ f.id = i
      /\ f.slate = s /\ f.type = "TxReceived"
  <2>1. i \in Ids
    BY <1>1, InvFacts, SizesAssumption DEF HasIds, WalletDB, Ids
  <2>2. r \in TxLogEntry
    BY <1>3, <1>4, <2>1, NothingTyped DEF ReceivedEntry, TxLogEntry, TxLogEntryType
  <2>3. r.id = i /\ r.slate = s /\ r.type = "TxReceived"
    BY <1>3 DEF ReceivedEntry
  <2>4. <<s, {k}>> \in Kern
    BY <1>3 DEF Kern
  <2> HIDE DEF r
  <2> QED
    BY <2>1, <2>2, <2>3, <2>4 DEF TxLogEntry
<1>7. e2.txlog[a][i] = r
  <2>1. d1 \in WalletDB
    BY <1>3 DEF GoodDb
  <2> HIDE DEF r
  <2> QED
    BY <2>1, <1>6 DEF build_recipient_output, SaveEntry, SaveOutput, WalletDB, r
<1>8. e3 = SaveEntry(e2, a, f)
  <2>1. e2 \in WalletDB
    BY <1>5 DEF GoodDb
  <2> HIDE DEF e2, r
  <2>2. e3 = [e2 EXCEPT !.txlog[a][i].kern = <<s, {k}>>]
    BY DEF e2
  <2> QED
    BY <2>1, <2>2, <1>6, <1>7 DEF SaveEntry, WalletDB
<1> HIDE DEF d2, d3, r, f
<1>9. Keeps(e2, e3) /\ GoodDb(e3)
  BY <1>5, <1>6, <1>8, SaveEntryKeeps DEF Keeps
<1>10. <<a, i>> \in TxsWithSlate(e3, s)
  <2>1. e3.txlog[a][i] = f
    BY <1>5, <1>6, <1>8 DEF SaveEntry, GoodDb, WalletDB
  <2> QED
    BY <2>1, <1>6 DEF TxsWithSlate, Written, Entry, Pos
<1>11. Keeps(e3, e4)
  BY <1>9, <1>10, SlateStateKeeps
<1>12. Keeps(db, e2) /\ Keeps(db, e3) /\ Keeps(db, e4) /\ Keeps(d1, e4)
  BY <1>3, <1>5, <1>9, <1>11, InvFacts, KeepsThen
<1>13. WalletStep /\ \/ db' \in {d1, e2, e3} /\ UNCHANGED world
                     \/ db' = e4 /\ Sign(tx)
  BY <1>2 DEF Call, WalletStep
<1>14. CASE db' \in {d1, e2, e3} /\ UNCHANGED world
  BY <1>3, <1>12, <1>13, <1>14, ApiInv DEF WorldStep
<1>15. CASE db' = e4 /\ Sign(tx)
  <2>1. tx \in Tx /\ tx.ins = {} /\ tx.outs = {k}
    BY <1>3 DEF EmptyBlock, Tx, Kern
  <2>2. Derived(e4, {k})
    BY <1>3, <1>12, DerivedGrows DEF Keeps, GoodDb
  <2>3. Derived(e4, {})
    BY DEF Derived
  <2> HIDE DEF tx, e4
  <2>4. WorldStep
    BY <1>15, <2>1, <2>2, <2>3 DEF WorldStep
  <2> QED
    BY <1>12, <1>13, <1>15, <2>4, ApiInv
<1> QED
  BY <1>13, <1>14, <1>15

(* issue_invoice_tx keeps the invariant, wherever it stops.                *)
LEMMA IssueInv ==
    ASSUME Inv, NEW s \in Slates, NEW a \in Acct, issue_invoice_tx(s, a)
    PROVE  Inv'
<1> DEFINE k == <<active, db.nextChild[active]>>
           d1 == next_child(db, active, 1)
           d2 == build_recipient_output(d1, s, k, a, 0)
           c == [NoContext EXCEPT !.kind = "Invoice", !.outs = {k}, !.acct = a]
           d3 == SaveContext(d2, s, c)
<1>1. /\ HasChildren(db, active, 1) /\ HasIds(db, a, 1)
      /\ Call({d1, d2}, d3, /\ issued' = issued \cup {s}
                            /\ UNCHANGED <<chain, signed, reorgs>>)
  BY DEF issue_invoice_tx
<1>2. /\ k \in Key /\ Keeps(db, d1) /\ GoodDb(d1) /\ Derived(d1, {k})
      /\ d1.nextTx = db.nextTx
  BY <1>1, OneChild
<1> HIDE DEF d1, k
<1>3. Keeps(d1, d2) /\ GoodDb(d2) /\ d1 \in WalletDB /\ d2 \in WalletDB
  BY <1>1, <1>2, RecipientKeeps DEF HasIds, Keeps, GoodDb
<1> HIDE DEF d2
<1>4. c \in Context /\ c.ins = {} /\ c.outs = {k}
  BY <1>2, NothingTyped DEF NoContext, Context
<1> HIDE DEF c
<1>5. Derived(d2, KeysOf(c.ins)) /\ Derived(d2, c.outs)
  <2>1. Derived(d2, {k})
    BY <1>2, <1>3, DerivedGrows DEF Keeps
  <2> QED
    BY <1>4, <2>1 DEF KeysOf, Derived
<1>6. Keeps(d2, d3)
  BY <1>3, <1>4, <1>5, SaveContextKeeps
<1> HIDE DEF d3
<1>7. Keeps(db, d2) /\ Keeps(db, d3)
  BY <1>2, <1>3, <1>6, InvFacts, KeepsThen
<1>8. Keeps(db, db') /\ WalletStep /\ WorldStep
  BY <1>1, <1>2, <1>7, InvFacts DEF Call, WalletStep, WorldStep
<1> QED
  BY <1>8, ApiInv

(* process_invoice_tx keeps the invariant: the transaction it signs spends *)
(* outputs with records and creates change with fresh keys.                *)
LEMMA PayInv ==
    ASSUME Inv, NEW s \in Slates, NEW a \in Acct, process_invoice_tx(s, a)
    PROVE  Inv'
<1> DEFINE kern(d, n, S) == <<s, KeysOf(S) \cup NewKeys(d, active, n)>>
           c(d, n, b, S) == Selected(d, "Pay", S, n, a, kern(d, n, S), Expiry(b))
<1>1. PICK d \in Refreshed(db, a), n \in 0 .. MaxChange, b \in Ttls :
      \E S \in (SUBSET Eligible(d, a, ZeroConf)) \ {{}} :
          /\ HasChildren(d, active, n)
          /\ Call({d, next_child(d, active, n)},
                  SaveContext(next_child(d, active, n), s, c(d, n, b, S)),
                  Sign(SignedTx(c(d, n, b, S), kern(d, n, S))))
  BY DEF process_invoice_tx
<1>2. PICK S \in (SUBSET Eligible(d, a, ZeroConf)) \ {{}} :
          /\ HasChildren(d, active, n)
          /\ Call({d, next_child(d, active, n)},
                  SaveContext(next_child(d, active, n), s, c(d, n, b, S)),
                  Sign(SignedTx(c(d, n, b, S), kern(d, n, S))))
  BY <1>1
<1> DEFINE d1 == next_child(d, active, n)
           e == kern(d, n, S)
           f == c(d, n, b, S)
           d2 == SaveContext(d1, s, f)
           tx == SignedTx(f, e)
<1>3. GoodDb(d) /\ Keeps(db, d)
  BY RefreshedKeeps
<1>4. n \in Nat /\ Expiry(b) \in Nat
  BY ExpiryNat, CoreAssumption
<1>5. e \in Kern
  <2>1. KeysOf(S) \subseteq Key
    BY <1>3, EligibleDerived
  <2>2. NewKeys(d, active, n) \subseteq Key
    BY <1>2, <1>3, <1>4, InvFacts, NewKeysType DEF GoodDb
  <2> QED
    BY <2>1, <2>2 DEF Kern
<1> HIDE DEF kern
<1>6. /\ Keeps(d, d1) /\ Keeps(d, d2)
      /\ KeysOf(S) \subseteq Key /\ NewKeys(d, active, n) \subseteq Key
      /\ Derived(d1, KeysOf(S)) /\ Derived(d1, NewKeys(d, active, n))
  BY <1>2, <1>3, <1>4, <1>5, InvFacts, SelectedKeeps
<1>7. Keeps(db, d1) /\ Keeps(db, d2) /\ d1 \in WalletDB /\ d2 \in WalletDB
  BY <1>3, <1>6, InvFacts, KeepsThen DEF Keeps, GoodDb
<1>8. /\ WalletStep
      /\ \/ db' \in {d, d1} /\ UNCHANGED world
         \/ db' = d2 /\ Sign(tx)
  BY <1>2 DEF Call, WalletStep
<1>9. CASE db' \in {d, d1} /\ UNCHANGED world
  BY <1>3, <1>7, <1>8, <1>9, ApiInv DEF WorldStep
<1>10. CASE db' = d2 /\ Sign(tx)
  <2>1. tx \in Tx /\ tx.ins = KeysOf(S) /\ tx.outs = NewKeys(d, active, n)
    BY <1>5, <1>6 DEF SignedTx, Selected, Tx
  <2>2. d2.nextChild = d1.nextChild
    BY <1>7 DEF SaveContext, WalletDB
  <2> HIDE DEF tx, d2, d1
  <2>3. Derived(d2, KeysOf(S)) /\ Derived(d2, NewKeys(d, active, n))
    BY <1>6, <2>2 DEF Derived
  <2>4. WorldStep
    BY <1>10, <2>1, <2>3 DEF WorldStep
  <2> QED
    BY <1>7, <1>8, <1>10, <2>4, ApiInv
<1> QED
  BY <1>8, <1>9, <1>10

(* build_coinbase keeps the invariant, with a new key or a used one.       *)
LEMMA CoinbaseInv ==
    ASSUME Inv, NEW n \in 1 .. MaxHeight, build_coinbase(n)
    PROVE  Inv'
<1> DEFINE old == KeysOf({x \in Slot : /\ ~x[2] /\ db.outs[x].cb > 0
                                       /\ db.outs[x].status = "Unconfirmed"})
           isnew(k) == k \in NewKeys(db, active, 1)
           d1(k) == IF isnew(k) THEN next_child(db, active, 1) ELSE db
           o == [root |-> active, status |-> "Unconfirmed", tx |-> -1, cb |-> n]
           tx(k) == [ins |-> {}, outs |-> {k}, kern |-> <<NoSlate, {k}>>, cb |-> n]
<1>1. PICK k \in old \cup NewKeys(db, active, 1) :
        /\ isnew(k) => HasChildren(db, active, 1)
        /\ Call({d1(k)}, SaveOutput(d1(k), <<k, FALSE>>, o), Sign(tx(k)))
  BY DEF build_coinbase
<1> DEFINE e1 == d1(k)
           e2 == SaveOutput(e1, <<k, FALSE>>, o)
<1>2. k \in Key /\ Keeps(db, e1) /\ GoodDb(e1) /\ Derived(e1, {k})
  <2>1. CASE isnew(k)
    BY <1>1, <2>1, OneChild
  <2>2. CASE ~isnew(k)
    <3>1. PICK x \in Slot : x[1] = k /\ db.outs[x].status = "Unconfirmed"
      BY <1>1, <2>2 DEF KeysOf
    <3>2. Derived(db, {k}) /\ k \in Key
      BY <3>1, InvFacts DEF GoodDb, RecordsDerived, Exists, Slot
    <3> QED
      BY <2>2, <3>2, InvFacts
  <2> QED
    BY <2>1, <2>2
<1> HIDE DEF d1
<1>3. n \in Nat /\ o \in OutputData /\ <<k, FALSE>> \in Slot /\ <<k, FALSE>>[1] = k
  <2>1. n \in Nat /\ active \in Acct
    BY InvFacts, CoreAssumption
  <2>2. o \in OutputData
    BY <2>1 DEF OutputData, OutputStatus
  <2>3. <<k, FALSE>> \in Slot /\ <<k, FALSE>>[1] = k
    BY <1>2 DEF Slot
  <2> QED
    BY <2>1, <2>2, <2>3
<1> HIDE DEF o
<1>4. Keeps(e1, e2) /\ e1 \in WalletDB /\ e2 \in WalletDB
  BY <1>2, <1>3, SaveOutputKeeps DEF Keeps, GoodDb
<1> HIDE DEF e1, e2
<1>5. Keeps(db, e2) /\ Derived(e2, {k})
  BY <1>2, <1>4, InvFacts, KeepsThen, DerivedGrows DEF Keeps
<1>6. /\ WalletStep
      /\ \/ db' = e1 /\ UNCHANGED world
         \/ db' = e2 /\ Sign(tx(k))
  BY <1>1 DEF Call, WalletStep, e1, e2
<1>7. CASE db' = e1 /\ UNCHANGED world
  BY <1>2, <1>6, <1>7, ApiInv DEF WorldStep
<1>8. CASE db' = e2 /\ Sign(tx(k))
  <2>1. tx(k) \in Tx /\ tx(k).ins = {} /\ tx(k).outs = {k}
    BY <1>2, <1>3 DEF Tx, Kern
  <2>2. Derived(e2, {})
    BY DEF Derived
  <2> HIDE DEF tx
  <2>3. WorldStep
    BY <1>5, <1>8, <2>1, <2>2 DEF WorldStep
  <2> QED
    BY <1>5, <1>6, <1>8, <2>3, ApiInv
<1> QED
  BY <1>6, <1>7, <1>8

(* Every API call keeps the invariant.                                     *)
LEMMA ApiCallInv ==
    ASSUME Inv, ApiCall
    PROVE  Inv'
<1>1. ASSUME NEW a \in Acct, set_active_account(a)
      PROVE  Inv'
  <2>1. UNCHANGED <<db, lock, th>> /\ UNCHANGED world /\ active' = a
    BY <1>1 DEF set_active_account
  <2>2. TypeOK'
    BY <2>1 DEF Inv, TypeOK, world
  <2>3. GoodDb(db') /\ ThreadsDerived' /\ ChainDerived(db)'
    BY <2>1 DEF Inv, ThreadsDerived, ChainDerived, Genesis, world
  <2> QED
    BY <2>2, <2>3 DEF Inv
<1> QED
  BY <1>1, RolesTyped, SendInv, SendLateInv, FailInv, TxLockInv, FinalizeInv,
     FinalizeLateInv, ReceiveInv, IssueInv, FinalizeInvoiceInv, PayInv, CoinbaseInv
  DEF ApiCall

-----------------------------------------------------------------------------
(* The chain                                                               *)

(* Blocks come from signed transactions, so mining and reorganisations     *)
(* keep the invariant.                                                     *)
LEMMA ChainStepInv ==
    ASSUME Inv, ChainStep
    PROVE  Inv'
<1>1. UNCHANGED wallet /\ UNCHANGED <<signed, issued>>
  BY DEF ChainStep, Mine, MineEmpty, AddBlock, Reorg
<1>2. /\ chain' \in Seq(Tx) /\ reorgs' \in Nat
      /\ TxsDerived(db, {chain'[n] : n \in 1 .. Len(chain')})
  <2>0. /\ chain \in Seq(Tx) /\ reorgs \in Nat /\ signed \subseteq Tx
        /\ TxsDerived(db, {chain[n] : n \in 1 .. Len(chain)})
        /\ TxsDerived(db, signed)
    BY DEF Inv, TypeOK, ChainDerived
  <2>1. ASSUME NEW b \in Tx, Derived(db, b.ins), Derived(db, b.outs), AddBlock(b)
        PROVE  /\ chain' \in Seq(Tx) /\ reorgs' \in Nat
               /\ TxsDerived(db, {chain'[n] : n \in 1 .. Len(chain')})
    <3>1. chain' = Append(chain, b) /\ reorgs' = reorgs
      BY <2>1 DEF AddBlock
    <3>2. \A n \in 1 .. Len(chain') : chain'[n] = b \/ chain'[n] \in {chain[m] : m \in 1 .. Len(chain)}
      BY <2>0, <3>1
    <3> QED
      BY <2>0, <2>1, <3>1, <3>2 DEF TxsDerived
  <2>2. ASSUME NEW tx \in signed, Mine(tx)
        PROVE  /\ chain' \in Seq(Tx) /\ reorgs' \in Nat
               /\ TxsDerived(db, {chain'[n] : n \in 1 .. Len(chain')})
    BY <2>0, <2>1, <2>2 DEF Mine, TxsDerived
  <2>3. CASE MineEmpty
    <3>1. EmptyBlock \in Tx /\ Derived(db, EmptyBlock.ins) /\ Derived(db, EmptyBlock.outs)
      BY ConstantsTyped DEF EmptyBlock, Derived
    <3> QED
      BY <2>1, <2>3, <3>1 DEF MineEmpty
  <2>4. CASE Reorg
    <3>1. /\ chain' = SubSeq(chain, 1, Len(chain) - 1) /\ reorgs' = reorgs + 1
          /\ Len(chain) > 0
      BY <2>4 DEF Reorg, Height
    <3>2. /\ chain' \in Seq(Tx) /\ Len(chain') = Len(chain) - 1
          /\ \A n \in 1 .. Len(chain') : chain'[n] = chain[n]
      <4> DEFINE m == Len(chain) - 1
      <4>1. m \in Nat /\ \A n \in 1 .. m : chain[n] \in Tx
        BY <2>0, <3>1
      <4> HIDE DEF m
      <4>2. /\ SubSeq(chain, 1, m) \in Seq(Tx)
            /\ Len(SubSeq(chain, 1, m)) = IF 1 <= m THEN m - 1 + 1 ELSE 0
            /\ \A n \in 1 .. m - 1 + 1 : SubSeq(chain, 1, m)[n] = chain[1 + n - 1]
        BY <4>1, SubSeqProperties
      <4>3. Len(SubSeq(chain, 1, m)) = m
        BY <4>1, <4>2
      <4>4. \A n \in 1 .. m : SubSeq(chain, 1, m)[n] = chain[n]
        BY <4>1, <4>2
      <4>5. chain' = SubSeq(chain, 1, m)
        BY <3>1 DEF m
      <4> QED
        BY <4>2, <4>3, <4>4, <4>5 DEF m
    <3> QED
      BY <2>0, <3>1, <3>2 DEF TxsDerived
  <2> QED
    BY <2>2, <2>3, <2>4 DEF ChainStep
<1>3. TypeOK'
  BY <1>1, <1>2 DEF Inv, TypeOK, wallet
<1>4. GoodDb(db') /\ ThreadsDerived' /\ ChainDerived(db)'
  BY <1>1, <1>2 DEF Inv, ThreadsDerived, ChainDerived, Genesis, wallet
<1> QED
  BY <1>3, <1>4 DEF Inv

-----------------------------------------------------------------------------
(* Threads                                                                 *)

(* A thread's state is typed and remembers derived keys only.              *)
LEMMA ThreadFacts ==
    ASSUME Inv, NEW t \in Threads
    PROVE  /\ th[t] \in ThreadState
           /\ ThreadDerived(db, th[t])
           /\ GoodDb(db) /\ Keeps(db, db) /\ active \in Acct
           /\ lock \in Threads \cup {NoThread}
           /\ Height \in Nat
  BY InvFacts DEF Inv, TypeOK, ThreadsDerived

(* Starting a job.                                                         *)
LEMMA StartInv ==
    ASSUME Inv, NEW t \in Threads, NEW job, NEW del \in BOOLEAN,
           NEW s \in Slates \cup {NoSlate}, NEW i \in {-1} \cup Ids,
           Start(t, job, del, s, i)
    PROVE  Inv'
<1> DEFINE r == [Idle EXCEPT !.pc = "refresh", !.job = job, !.del = del,
                             !.target = s, !.id = i, !.acct = active]
<1>1. job \in {"update", "scan", "cancel"} /\ Become(t, r) /\ NoDbStep
  BY CoreAssumption DEF Start
<1>2. r \in ThreadState
  <2>1. Idle \in ThreadState /\ active \in Acct
    BY ConstantsTyped, ThreadFacts
  <2> QED
    BY <1>1, <2>1 DEF ThreadState, PC
<1>3. ThreadDerived(db, r)
  <2>1. r.found = Idle.found /\ r.fix = Idle.fix /\ r.cur = Idle.cur /\ r.outs = Idle.outs
    BY DEF Idle
  <2> QED
    BY <2>1, IdleDerived DEF ThreadDerived
<1> HIDE DEF r
<1> QED
  BY <1>1, <1>2, <1>3, ThreadFacts, ThreadInv DEF NoDbStep

(* The refresh of an update or a scan.                                     *)
LEMMA RefreshStepInv ==
    ASSUME Inv, NEW t \in Threads, RefreshStep(t)
    PROVE  Inv'
<1>1. th[t] \in ThreadState /\ ThreadDerived(db, th[t])
  BY ThreadFacts
<1>2. CASE RefreshTip(t)
  <2> DEFINE r == [Goto(t, "outputs") EXCEPT !.h = Height]
  <2>1. r \in ThreadState
    BY <1>1, ThreadFacts DEF ThreadState, Goto, PC
  <2>2. ThreadDerived(db, r)
    BY <1>1 DEF ThreadState, Goto, ThreadDerived
  <2> QED
    BY <1>2, <2>1, <2>2, ThreadFacts, ThreadInv DEF RefreshTip
<1>3. CASE RefreshOutputs(t)
  <2> DEFINE r == [Goto(t, "apply") EXCEPT !.api = Utxo]
  <2>1. r \in ThreadState
    BY <1>1, ChainTyped DEF ThreadState, Goto, PC, Inv
  <2>2. ThreadDerived(db, r)
    BY <1>1 DEF ThreadState, Goto, ThreadDerived
  <2> QED
    BY <1>3, <2>1, <2>2, ThreadFacts, ThreadInv DEF RefreshOutputs, NoDbStep
<1>4. CASE RefreshApply(t)
  <2> DEFINE all == th[t].job = "scan"
             r == [Goto(t, IF all THEN "tip" ELSE "txs") EXCEPT !.api = {}, !.h = 0]
  <2>1. r \in ThreadState
    BY <1>1 DEF ThreadState, Goto, PC
  <2>2. ThreadDerived(db, r)
    BY <1>1 DEF ThreadState, Goto, ThreadDerived
  <2>3. /\ RefreshHasIds(db, active, all, th[t].api)
        /\ db' = refresh_output_state(db, active, all, th[t].h, th[t].api, Kernels)
        /\ lock' = NoThread /\ Become(t, r) /\ UNCHANGED active /\ UNCHANGED world
    BY <1>4 DEF RefreshApply
  <2>4. Keeps(db, db')
    <3>1. th[t].h \in Nat
      BY <1>1 DEF ThreadState
    <3> HIDE DEF all
    <3> QED
      BY <2>3, <3>1, ThreadFacts, RefreshKeeps
  <2> HIDE DEF r
  <2> QED
    BY <2>1, <2>2, <2>3, <2>4, ThreadInv
<1> QED
  BY <1>2, <1>3, <1>4 DEF RefreshStep

(* The kernel lookups of an update.                                        *)
LEMMA KernelStepInv ==
    ASSUME Inv, NEW t \in Threads, KernelStep(t)
    PROVE  Inv'
<1>1. th[t] \in ThreadState /\ ThreadDerived(db, th[t])
  BY ThreadFacts
<1>2. CASE SnapshotTxs(t)
  <2> DEFINE r == [Goto(t, "kernels") EXCEPT !.txs = OutstandingTxs(db, th[t].acct)]
  <2>1. OutstandingTxs(db, th[t].acct) \subseteq TxLogEntry
    <3>1. \A p \in TxsOf(db, th[t].acct) : Entry(db, p) \in TxLogEntry
      BY InvFacts, EntryTyped DEF TxsOf, Written
    <3> QED
      BY <3>1 DEF OutstandingTxs
  <2>2. r \in ThreadState
    BY <1>1, <2>1 DEF ThreadState, Goto, PC
  <2>3. ThreadDerived(db, r)
    BY <1>1 DEF ThreadState, Goto, ThreadDerived
  <2> QED
    BY <1>2, <2>2, <2>3, ThreadFacts, ThreadInv DEF SnapshotTxs, NoDbStep
<1>3. CASE StartKernels(t)
  <2> DEFINE todo == {e \in th[t].txs : ~(e.debit /\ e.credit) /\ e.kern # NoKern}
             r == [Goto(t, "kernel") EXCEPT !.acct = active, !.h = Height, !.todo = todo]
  <2>1. todo \subseteq TxLogEntry
    BY <1>1 DEF ThreadState
  <2>2. Become(t, r) /\ NoDbStep
    BY <1>3 DEF StartKernels
  <2> HIDE DEF todo
  <2>3. r \in ThreadState
    BY <1>1, <2>1, ThreadFacts DEF ThreadState, Goto, PC
  <2>4. ThreadDerived(db, r)
    BY <1>1 DEF ThreadState, Goto, ThreadDerived
  <2> QED
    BY <2>2, <2>3, <2>4, ThreadFacts, ThreadInv DEF NoDbStep
<1>4. CASE KernelsDone(t)
  <2> DEFINE r == [Goto(t, "tip") EXCEPT !.h = 0]
  <2>1. r \in ThreadState
    BY <1>1 DEF ThreadState, Goto, PC
  <2>2. ThreadDerived(db, r)
    BY <1>1 DEF ThreadState, Goto, ThreadDerived
  <2> QED
    BY <1>4, <2>1, <2>2, ThreadFacts, ThreadInv DEF KernelsDone, NoDbStep
<1>5. ASSUME NEW e \in th[t].todo, LookupKernel(t, e)
      PROVE  Inv'
  <2> DEFINE r1 == [Goto(t, "confirm") EXCEPT
                       !.todo = (@ \ {e}) \cup {[e EXCEPT !.confirmed = TRUE]}]
             r2 == [th[t] EXCEPT !.todo = @ \ {e}]
  <2>1. e \in TxLogEntry /\ [e EXCEPT !.confirmed = TRUE] \in TxLogEntry
    BY <1>1 DEF ThreadState, TxLogEntry
  <2>2. r1 \in ThreadState /\ r2 \in ThreadState
    BY <1>1, <2>1 DEF ThreadState, Goto, PC
  <2>3. ThreadDerived(db, r1) /\ ThreadDerived(db, r2)
    BY <1>1 DEF ThreadState, Goto, ThreadDerived
  <2>4. (Become(t, r1) \/ Become(t, r2)) /\ NoDbStep
    BY <1>5 DEF LookupKernel
  <2> HIDE DEF r1, r2
  <2> QED
    BY <2>2, <2>3, <2>4, ThreadFacts, ThreadInv DEF NoDbStep
<1>6. ASSUME NEW e \in th[t].todo, SaveConfirmed(t, e)
      PROVE  Inv'
  <2> DEFINE r == [Goto(t, "kernel") EXCEPT !.todo = @ \ {e}]
  <2>1. e \in TxLogEntry /\ th[t].acct \in Acct
    BY <1>1 DEF ThreadState
  <2>2. r \in ThreadState
    BY <1>1 DEF ThreadState, Goto, PC
  <2>3. ThreadDerived(db, r)
    BY <1>1 DEF ThreadState, Goto, ThreadDerived
  <2>4. Keeps(db, db')
    BY <1>6, <2>1, ThreadFacts, SaveEntryKeeps DEF SaveConfirmed, Section
  <2> QED
    BY <1>6, <2>2, <2>3, <2>4, ThreadFacts, ThreadInv DEF SaveConfirmed, Section
<1> QED
  BY <1>2, <1>3, <1>4, <1>5, <1>6 DEF KernelStep

(* Repairing an output, both halves (FixEntry, FixOutput): the copied      *)
(* record that is written back belongs to a derived key.                   *)
LEMMA FixEntryInv ==
    ASSUME Inv, NEW t \in Threads, NEW x \in th[t].fix, NEW pc, NEW next \in PC,
           FixEntry(t, x, pc, next)
    PROVE  Inv'
<1> DEFINE r == [Goto(t, next) EXCEPT !.cur = {x}]
<1>1. th[t] \in ThreadState /\ ThreadDerived(db, th[t]) /\ x \in Slot
  BY ThreadFacts DEF ThreadState
<1>2. r \in ThreadState
  BY <1>1 DEF ThreadState, Goto
<1>3. ThreadDerived(db, r)
  <2>1. r.found = th[t].found /\ r.fix = th[t].fix /\ r.cur = {x} /\ r.outs = th[t].outs
    BY <1>1 DEF ThreadState, Goto
  <2> QED
    BY <1>1, <2>1 DEF ThreadDerived
<1>4. Keeps(db, db')
  BY <1>1, ThreadFacts, CancelLogKeeps DEF FixEntry, Section
<1> QED
  BY <1>2, <1>3, <1>4, ThreadFacts, ThreadInv DEF FixEntry, Section

(* See FixEntryInv.                                                        *)
LEMMA FixOutputInv ==
    ASSUME Inv, NEW t \in Threads, NEW x \in th[t].cur, NEW pc, NEW next \in PC,
           NEW o \in OutputData, FixOutput(t, x, pc, next, o)
    PROVE  Inv'
<1> DEFINE r == [Goto(t, next) EXCEPT !.cur = {}, !.fix = @ \ {x}]
<1>1. /\ th[t] \in ThreadState /\ ThreadDerived(db, th[t])
      /\ x \in Slot /\ Derived(db, {x[1]})
  BY ThreadFacts DEF ThreadState, ThreadDerived
<1>2. r \in ThreadState
  BY <1>1 DEF ThreadState, Goto
<1>3. ThreadDerived(db, r)
  <2>1. /\ r.found = th[t].found /\ r.fix \subseteq th[t].fix
        /\ r.cur = {} /\ r.outs = th[t].outs
    BY <1>1 DEF ThreadState, Goto
  <2> QED
    BY <1>1, <2>1 DEF ThreadDerived
<1>4. Keeps(db, db')
  BY <1>1, ThreadFacts, SaveOutputKeeps DEF FixOutput, Section
<1> QED
  BY <1>2, <1>3, <1>4, ThreadFacts, ThreadInv DEF FixOutput, Section

(* The records a scan picks from its copy, and the chain outputs it finds  *)
(* no record for.                                                          *)
LEMMA MatchedTyped ==
    ASSUME NEW w, NEW C, C \subseteq Key, NEW status
    PROVE  /\ Matched(w, C, status) \subseteq Slot
           /\ \A x \in Matched(w, C, status) : w[x].status = status
           /\ Missing(w, C) \subseteq C
<1>1. \A k \in C : Match(w, k) \in Slot
  BY DEF Match, Slot
<1> QED
  BY <1>1 DEF Matched, Missing

(* The readings of a scan: the tip, the chain's outputs, the records.      *)
LEMMA ScanReadInv ==
    ASSUME Inv, NEW t \in Threads,
           ScanTip(t) \/ collect_chain_outputs(t) \/ SnapshotOutputs(t)
    PROVE  Inv'
<1>1. th[t] \in ThreadState /\ ThreadDerived(db, th[t])
  BY ThreadFacts
<1>2. CASE ScanTip(t)
  <2> DEFINE r == [Goto(t, "collect") EXCEPT !.h = Height]
  <2>1. r \in ThreadState
    BY <1>1, ThreadFacts DEF ThreadState, Goto, PC
  <2>2. ThreadDerived(db, r)
    BY <1>1 DEF ThreadState, Goto, ThreadDerived
  <2> QED
    BY <1>2, <2>1, <2>2, ThreadFacts, ThreadInv DEF ScanTip, NoDbStep
<1>3. CASE collect_chain_outputs(t)
  <2> DEFINE C == UtxoUpTo(th[t].h)
             r == [Goto(t, "snapshot") EXCEPT !.found = C]
  <2>1. C \subseteq Key /\ Derived(db, C)
    <3>1. C \subseteq Utxo /\ Utxo \subseteq Key
      BY ChainTyped DEF Inv, UtxoUpTo
    <3>2. Derived(db, Utxo)
      BY UtxoDerived
    <3> QED
      BY <3>1, <3>2 DEF Derived
  <2>2. Become(t, r) /\ NoDbStep
    BY <1>3 DEF collect_chain_outputs
  <2> HIDE DEF C
  <2>3. r \in ThreadState
    BY <1>1, <2>1 DEF ThreadState, Goto, PC
  <2>4. ThreadDerived(db, r)
    BY <1>1, <2>1 DEF ThreadState, Goto, ThreadDerived
  <2> QED
    BY <2>2, <2>3, <2>4, ThreadFacts, ThreadInv DEF NoDbStep
<1>4. CASE SnapshotOutputs(t)
  <2> DEFINE F == Matched(db.outs, th[t].found, "Spent")
             r == [Goto(t, "spent") EXCEPT !.outs = db.outs, !.fix = F]
  <2>1. th[t].found \subseteq Key
    BY <1>1 DEF ThreadState
  <2>2. F \subseteq Slot /\ \A x \in F : Exists(db, x)
    BY <2>1, MatchedTyped DEF Exists
  <2>3. \A x \in Slot : Exists(db, x) => Derived(db, {x[1]})
    BY ThreadFacts DEF GoodDb, RecordsDerived
  <2>4. Become(t, r) /\ NoDbStep
    BY <1>4 DEF SnapshotOutputs
  <2> HIDE DEF F
  <2>5. db.outs \in [Slot -> OutputData]
    BY InvFacts DEF WalletDB
  <2>6. r \in ThreadState
    BY <1>1, <2>2, <2>5 DEF ThreadState, Goto, PC
  <2>7. r.found = th[t].found /\ r.fix = F /\ r.cur = th[t].cur /\ r.outs = db.outs
    BY <1>1 DEF ThreadState, Goto
  <2> HIDE DEF r
  <2>8. ThreadDerived(db, r)
    BY <1>1, <2>2, <2>3, <2>7 DEF ThreadDerived, Exists
  <2> QED
    BY <2>4, <2>6, <2>8, ThreadFacts, ThreadInv DEF NoDbStep
<1> QED
  BY <1>2, <1>3, <1>4

(* The turns of a scan from one phase to the next.                         *)
LEMMA ScanTurnInv ==
    ASSUME Inv, NEW t \in Threads,
           \/ SpentDone(t) \/ LockedDone(t) \/ UnconfirmedDone(t)
           \/ RestoreMissing(t) \/ ScanDone(t)
    PROVE  Inv'
<1>1. th[t] \in ThreadState /\ ThreadDerived(db, th[t])
  BY ThreadFacts
<1>2. CASE SpentDone(t) \/ UnconfirmedDone(t)
  <2>1. \A pc \in PC : Goto(t, pc) \in ThreadState /\ ThreadDerived(db, Goto(t, pc))
    BY <1>1 DEF ThreadState, Goto, ThreadDerived
  <2>2. PICK pc \in PC : Become(t, Goto(t, pc)) /\ NoDbStep
    BY <1>2 DEF SpentDone, UnconfirmedDone, PC
  <2> QED
    BY <2>1, <2>2, ThreadFacts, ThreadInv DEF NoDbStep
<1>3. CASE LockedDone(t)
  <2> DEFINE F == {x \in Slot : th[t].outs[x].status = "Unconfirmed"}
             r == [Goto(t, "unconfirmed") EXCEPT !.fix = F]
  <2>1. F \subseteq Slot /\ \A x \in F : th[t].outs[x].status # "None"
    OBVIOUS
  <2>2. Become(t, r) /\ NoDbStep
    BY <1>3 DEF LockedDone
  <2> HIDE DEF F
  <2>3. r \in ThreadState
    BY <1>1, <2>1 DEF ThreadState, Goto, PC
  <2>4. r.found = th[t].found /\ r.fix = F /\ r.cur = th[t].cur /\ r.outs = th[t].outs
    BY <1>1 DEF ThreadState, Goto
  <2> HIDE DEF r
  <2>5. ThreadDerived(db, r)
    BY <1>1, <2>1, <2>4 DEF ThreadDerived
  <2> QED
    BY <2>2, <2>3, <2>5, ThreadFacts, ThreadInv DEF NoDbStep
<1>4. th[t].found \subseteq Key /\ Derived(db, th[t].found)
  BY <1>1 DEF ThreadState, ThreadDerived
<1> DEFINE K == Missing(th[t].outs, th[t].found)
<1>5. K \subseteq Key /\ Derived(db, K)
  BY <1>4, MatchedTyped DEF Derived
<1>6. CASE RestoreMissing(t)
  <2> DEFINE F == IF th[t].del THEN Matched(th[t].outs, th[t].found, "Locked") ELSE {}
             next == IF th[t].del THEN "locked" ELSE "children"
             r == [Goto(t, next) EXCEPT !.fix = F]
  <2>1. F \subseteq Slot /\ \A x \in F : th[t].outs[x].status # "None"
    BY <1>4, MatchedTyped
  <2>2. /\ Become(t, r) /\ RestoreHasIds(db, K)
        /\ Section(t, restore_missing_outputs(db, K, CoinbaseHeight))
    BY <1>6 DEF RestoreMissing
  <2> HIDE DEF F, K
  <2>3. Keeps(db, db')
    BY <1>5, <2>2, ThreadFacts, ChainTyped, RestoreKeeps DEF Section, Inv
  <2>4. r \in ThreadState
    BY <1>1, <2>1 DEF ThreadState, Goto, PC
  <2>5. r.found = th[t].found /\ r.fix = F /\ r.cur = th[t].cur /\ r.outs = th[t].outs
    BY <1>1 DEF ThreadState, Goto
  <2> HIDE DEF r
  <2>6. ThreadDerived(db, r)
    BY <1>1, <2>1, <2>5 DEF ThreadDerived
  <2> QED
    BY <2>2, <2>3, <2>4, <2>6, ThreadFacts, ThreadInv DEF Section
<1>7. CASE ScanDone(t)
  <2> DEFINE E == {e \in th[t].txs : e.ttl # 0 /\ th[t].h >= e.ttl}
             r == [Goto(t, "ttl") EXCEPT !.found = {}, !.outs = NoOutputs, !.todo = E]
  <2>1. E \subseteq TxLogEntry
    BY <1>1 DEF ThreadState
  <2>2. /\ Become(t, Idle) \/ Become(t, r)
        /\ Section(t, restore_child_indices(db, K))
    BY <1>7 DEF ScanDone
  <2> HIDE DEF E, K
  <2>3. Keeps(db, db')
    BY <1>5, <2>2, ThreadFacts, ChildIndicesKeeps DEF Section
  <2>4. r \in ThreadState
    BY <1>1, <2>1, ConstantsTyped DEF ThreadState, Goto, PC
  <2>5. r.found = {} /\ r.fix = th[t].fix /\ r.cur = th[t].cur /\ r.outs = NoOutputs
    BY <1>1 DEF ThreadState, Goto
  <2> HIDE DEF r
  <2>6. ThreadDerived(db, r)
    BY <1>1, <2>5 DEF ThreadDerived, NoOutputs, NoOutput, Derived
  <2> QED
    BY <2>2, <2>3, <2>4, <2>6, ThreadFacts, ThreadInv, ConstantsTyped, IdleDerived
    DEF Section
<1> QED
  BY <1>2, <1>3, <1>6, <1>7

(* Every step of a scan keeps the invariant.                               *)
LEMMA ScanStepInv ==
    ASSUME Inv, NEW t \in Threads, ScanStep(t)
    PROVE  Inv'
<1>1. ASSUME NEW x \in th[t].fix,
             SpentEntry(t, x) \/ LockedEntry(t, x) \/ UnconfirmedEntry(t, x)
      PROVE  Inv'
  BY <1>1, FixEntryInv DEF SpentEntry, LockedEntry, UnconfirmedEntry, PC
<1>2. ASSUME NEW x \in th[t].cur,
             SpentOutput(t, x) \/ LockedOutput(t, x) \/ UnconfirmedOutput(t, x)
      PROVE  Inv'
  <2>1. th[t] \in ThreadState
    BY ThreadFacts
  <2>2. th[t].outs[x] \in OutputData
    BY <2>1 DEF ThreadState
  <2>3. CopyUnspent(t, x) \in OutputData /\ NoOutput \in OutputData
    BY <2>2, NothingTyped DEF CopyUnspent, OutputData, OutputStatus
  <2> QED
    BY <1>2, <2>3, FixOutputInv DEF SpentOutput, LockedOutput, UnconfirmedOutput, PC
<1> QED
  BY <1>1, <1>2, ScanReadInv, ScanTurnInv DEF ScanStep

(* Cancelling, by time-to-live or on request, keeps the invariant.         *)
LEMMA CancelStepInv ==
    ASSUME Inv, NEW t \in Threads, CancelStep(t)
    PROVE  Inv'
<1>1. th[t] \in ThreadState /\ ThreadDerived(db, th[t])
  BY ThreadFacts
<1>2. ASSUME NEW P, P \subseteq Pos, CanCancel(db, P)
      PROVE  Keeps(db, cancel_tx_and_outputs(db, active, P))
  <2>1. P # {}
    BY <1>2, FS_EmptySet DEF CanCancel
  <2> QED
    BY <1>2, <2>1, ThreadFacts, CancelKeeps
<1>3. ASSUME NEW e \in th[t].todo, CancelExpired(t, e)
      PROVE  Inv'
  <2> DEFINE r == [th[t] EXCEPT !.todo = @ \ {e}]
             P == TxsWithId(db, active, e.id)
  <2>1. P \subseteq Pos
    BY DEF TxsWithId, TxsOf, Written
  <2>2. r \in ThreadState
    BY <1>1 DEF ThreadState
  <2>3. ThreadDerived(db, r)
    BY <1>1 DEF ThreadState, ThreadDerived
  <2>4. /\ Become(t, r) \/ Become(t, Idle)
        /\ Section(t, IF CanCancel(db, P) THEN cancel_tx_and_outputs(db, active, P) ELSE db)
    BY <1>3 DEF CancelExpired
  <2> HIDE DEF r, P
  <2>5. Keeps(db, db')
    BY <1>2, <2>1, <2>4, ThreadFacts DEF Section
  <2> QED
    BY <2>2, <2>3, <2>4, <2>5, ThreadFacts, ThreadInv, ConstantsTyped, IdleDerived
    DEF Section
<1>4. CASE UpdateDone(t)
  <2> DEFINE r == [Idle EXCEPT !.pc = "cancel", !.job = "cancel",
                               !.target = th[t].target, !.id = th[t].id]
  <2>1. th[t].target \in Slates \cup {NoSlate} /\ th[t].id \in {-1} \cup Ids
    BY <1>1 DEF ThreadState
  <2>2. r \in ThreadState
    BY <2>1, ConstantsTyped DEF ThreadState, PC
  <2>3. ThreadDerived(db, r)
    <3>1. r.found = Idle.found /\ r.fix = Idle.fix /\ r.cur = Idle.cur /\ r.outs = Idle.outs
      BY DEF Idle
    <3> QED
      BY <3>1, IdleDerived DEF ThreadDerived
  <2>4. (Become(t, r) \/ Become(t, Idle)) /\ NoDbStep
    BY <1>4 DEF UpdateDone
  <2> HIDE DEF r
  <2> QED
    BY <2>2, <2>3, <2>4, ThreadFacts, ThreadInv, ConstantsTyped, IdleDerived
    DEF NoDbStep
<1>5. CASE CancelTx(t)
  <2> DEFINE P == IF th[t].id # -1
                  THEN TxsWithId(db, active, th[t].id)
                  ELSE {p \in TxsWithSlate(db, th[t].target) : Entry(db, p).acct = active}
  <2>1. P \subseteq Pos
    BY DEF TxsWithId, TxsOf, TxsWithSlate, Written
  <2>2. /\ Become(t, Idle)
        /\ Section(t, IF CanCancel(db, P) THEN cancel_tx_and_outputs(db, active, P) ELSE db)
    BY <1>5 DEF CancelTx
  <2> HIDE DEF P
  <2>3. Keeps(db, db')
    BY <1>2, <2>1, <2>2, ThreadFacts DEF Section
  <2> QED
    BY <2>2, <2>3, ThreadFacts, ThreadInv, ConstantsTyped, IdleDerived DEF Section
<1> QED
  BY <1>3, <1>4, <1>5 DEF CancelStep

(* A failed call to the node keeps the invariant.                          *)
LEMMA NodeFailureInv ==
    ASSUME Inv, NEW t \in Threads, NodeFailure(t)
    PROVE  Inv'
<1> DEFINE r == [Goto(t, "tip") EXCEPT !.api = {}, !.h = 0]
<1>1. th[t] \in ThreadState /\ ThreadDerived(db, th[t])
  BY ThreadFacts
<1>2. r \in ThreadState
  BY <1>1 DEF ThreadState, Goto, PC
<1>3. ThreadDerived(db, r)
  BY <1>1 DEF ThreadState, Goto, ThreadDerived
<1>4. /\ Become(t, r) \/ Become(t, Idle)
      /\ lock' \in {lock, NoThread}
      /\ UNCHANGED <<db, active>> /\ UNCHANGED world
  BY DEF NodeFailure
<1> HIDE DEF r
<1>5. lock' \in Threads \cup {NoThread} /\ Keeps(db, db')
  BY <1>4, ThreadFacts
<1> QED
  BY <1>2, <1>3, <1>4, <1>5, ThreadInv, ConstantsTyped, IdleDerived

(* Every step keeps the invariant.                                         *)
LEMMA NextInv ==
    ASSUME Inv, [Next]_vars
    PROVE  Inv'
<1>1. CASE UNCHANGED vars
  BY <1>1 DEF vars, Inv, TypeOK, ThreadsDerived, ChainDerived, Genesis
<1>2. ASSUME NEW t \in Threads, ThreadStep(t)
      PROVE  Inv'
  <2>1. CASE StartJob(t)
    BY <2>1, StartInv DEF StartJob
  <2>2. CASE JobStep(t)
    BY <2>2, RefreshStepInv, KernelStepInv, ScanStepInv, CancelStepInv DEF JobStep
  <2>3. CASE NodeFailure(t)
    BY <2>3, NodeFailureInv
  <2> QED
    BY <1>2, <2>1, <2>2, <2>3 DEF ThreadStep
<1>3. CASE Crash
  BY <1>3, InvFacts, ApiInv DEF Crash, WalletStep, WorldStep
<1>4. CASE ApiCall
  BY <1>4, ApiCallInv
<1>5. CASE ChainStep
  BY <1>5, ChainStepInv
<1> QED
  BY <1>1, <1>2, <1>3, <1>4, <1>5 DEF Next

-----------------------------------------------------------------------------
(* Whatever API calls, threads, crashes and reorganisations do, the        *)
(* database, the threads' copies of it and the transactions stay well      *)
(* typed; in particular child indices and log ids stay within the records  *)
(* the database can hold.                                                  *)
THEOREM TypeCorrect == Spec => []TypeOK
<1>1. Inv => TypeOK
  BY DEF Inv
<1>2. Inv /\ [Next]_vars => Inv'
  BY NextInv
<1> QED
  BY <1>1, <1>2, InitInv, PTL DEF Spec

(* next_child (backend.rs) never hands out a key that a record, a context, *)
(* a signed transaction, a block or a running scan refers to, for any      *)
(* number of accounts, slates, keys and threads.                           *)
THEOREM KeysAreFresh == Spec => []KeysFresh
<1>1. Inv => KeysFresh
  BY InvKeysFresh
<1>2. Inv /\ [Next]_vars => Inv'
  BY NextInv
<1> QED
  BY <1>1, <1>2, InitInv, PTL DEF Spec

-----------------------------------------------------------------------------
(* The log                                                                 *)

OneAccount == NumAccts = 1
OneThread == \A t, u \in Threads : t = u

(* f is the entry e at a later time.                                       *)
SameEntry(e, f) ==
    /\ f.id = e.id /\ f.acct = e.acct /\ f.slate = e.slate
    /\ f.debit = e.debit /\ f.credit = e.credit

(* Types between which no cancellation lies.                               *)
Received == {"TxReceived", "TxReverted"}
Related(x, y) == x = y \/ (x \in Received /\ y \in Received)

(* What a change that cancels nothing makes of an entry.                   *)
Calm(e, f) ==
    /\ SameEntry(e, f)
    /\ Related(e.type, f.type)
    /\ e.confirmed => f.confirmed \/ f.type = "TxReverted"
    /\ e.type = "TxReverted" /\ f.type = "TxReceived" => f.confirmed

(* Every entry is stored under its id, all ids are used up, and every      *)
(* output's entry is there.                                                *)
LogOK(d) ==
    /\ \A p \in Written(d) : Entry(d, p).id = p[2] /\ p[2] < d.nextTx[p[1]]
    /\ \A x \in Slot : d.outs[x].tx # -1 =>
            <<d.outs[x].root, d.outs[x].tx>> \in Written(d)

GoodLog(d) == d \in WalletDB /\ LogOK(d)

Kept(d, e) == \A p \in Written(d) : p \in Written(e) /\ SameEntry(Entry(d, p), Entry(e, p))
Quiet(d, e) == \A p \in Written(d) : p \in Written(e) /\ Calm(Entry(d, p), Entry(e, p))
Stepped(d, e) == \A p \in Written(d) : EntryStep(Entry(d, p), Entry(e, p))

(* A change of the database that cancels nothing.                          *)
QuietChange(d, e) == GoodLog(e) /\ Quiet(d, e)

(* The entry e was read from d or from what d has grown out of.            *)
Place(e) == <<e.acct, e.id>>
Copy(d, e) ==
    /\ Place(e) \in Written(d)
    /\ SameEntry(Entry(d, Place(e)), e)
    /\ e.type # "None"

UpToDate(d, e) == Related(Entry(d, Place(e)).type, e.type)

ThreadLog(d, r) ==
    /\ \A e \in r.txs \cup r.todo : Copy(d, e)
    /\ \A x \in Slot : r.outs[x].tx # -1 =>
            <<r.outs[x].root, r.outs[x].tx>> \in Written(d)
    /\ OneThread /\ r.pc = "kernels" => \A e \in r.txs : UpToDate(d, e)
    /\ OneThread /\ r.pc \in {"kernel", "confirm"} => \A e \in r.todo : UpToDate(d, e)

LogInv ==
    /\ Inv
    /\ LogOK(db)
    /\ \A t \in Threads : ThreadLog(db, th[t])

(* What every step does to the log.                                        *)
LogStep ==
    /\ LogOK(db')
    /\ \A t \in Threads : ThreadLog(db', th'[t])
    /\ Kept(db, db')
    /\ OneThread => Stepped(db, db')

-----------------------------------------------------------------------------
(* Entries                                                                 *)

(* A wallet with one account has account 0 only.                           *)
LEMMA OnlyAccount == OneAccount => Acct = {0}
  BY DEF OneAccount, Acct

(* What cancels nothing moves an entry only as LogSteps allows.            *)
LEMMA CalmIsStep ==
    ASSUME NEW e, NEW f, Calm(e, f)
    PROVE  EntryStep(e, f)
<1>1. f.type \in EntryFuture(e.type)
  BY DEF Calm, Related, Received, EntryFuture
<1> QED
  BY <1>1 DEF EntryStep, Calm, SameEntry

(* An entry that is not touched is calm.                                   *)
LEMMA CalmSelf == \A e : Calm(e, e)
  BY DEF Calm, SameEntry, Related, Received

(* Quiet changes compose.                                                  *)
LEMMA QuietThen ==
    ASSUME NEW d, NEW e, NEW f, QuietChange(d, e), QuietChange(e, f)
    PROVE  QuietChange(d, f)
<1>1. ASSUME NEW x, NEW y, NEW z, Calm(x, y), Calm(y, z)
      PROVE  Calm(x, z)
  BY <1>1 DEF Calm, SameEntry, Related, Received
<1> QED
  BY <1>1 DEF QuietChange, Quiet

(* No change is a quiet change.                                            *)
LEMMA QuietSelf ==
    ASSUME NEW d, GoodLog(d)
    PROVE  QuietChange(d, d)
  BY CalmSelf DEF QuietChange, Quiet

(* A quiet change keeps every entry and moves it as LogSteps allows.       *)
LEMMA QuietFacts ==
    ASSUME NEW d, NEW e, QuietChange(d, e)
    PROVE  GoodLog(e) /\ Kept(d, e) /\ Stepped(d, e) /\ Quiet(d, e)
  BY CalmIsStep DEF QuietChange, Quiet, Kept, Stepped, Calm

(* The places of a log with one account.                                   *)
LEMMA Places ==
    ASSUME OneAccount, NEW d \in WalletDB, NEW p \in Pos
    PROVE  /\ p = <<0, p[2]>> /\ p[2] \in Ids /\ p[1] = 0
           /\ Entry(d, p) \in TxLogEntry /\ Entry(d, p).acct = 0
           /\ Entry(d, p) = d.txlog[0][p[2]]
           /\ 0 \in Acct
<1>1. p[1] = 0 /\ p[2] \in Ids /\ p = <<0, p[2]>> /\ 0 \in Acct
  BY OnlyAccount DEF Pos
<1>2. Entry(d, p) \in TxLogEntry
  BY EntryTyped
<1>3. Entry(d, p).acct = 0
  BY <1>2, OnlyAccount DEF TxLogEntry
<1> QED
  BY <1>1, <1>2, <1>3 DEF Entry

(* The entries of one id: at most the one stored under it.                 *)
LEMMA WithId ==
    ASSUME OneAccount, NEW d, GoodLog(d), NEW a \in Acct, NEW i
    PROVE  /\ TxsWithId(d, a, i) \subseteq {<<a, i>>}
           /\ \A p \in TxsWithId(d, a, i) : p \in Written(d) /\ Entry(d, p).id = i
           /\ <<a, i>> \in Written(d) => TxsWithId(d, a, i) = {<<a, i>>}
<1>0. d \in WalletDB /\ Written(d) \subseteq Pos /\ a = 0
  BY OnlyAccount DEF GoodLog, Written
<1>1. \A p \in TxsWithId(d, a, i) : p \in Written(d) /\ Entry(d, p).id = i
  BY DEF TxsWithId, TxsOf
<1>2. \A p \in Written(d) : p = <<0, p[2]>> /\ Entry(d, p).id = p[2] /\ Entry(d, p).acct = 0
  BY <1>0, Places DEF GoodLog, LogOK
<1>3. TxsWithId(d, a, i) \subseteq {<<a, i>>}
  BY <1>0, <1>1, <1>2
<1>4. <<a, i>> \in Written(d) => <<a, i>> \in TxsWithId(d, a, i)
  BY <1>0, <1>2 DEF TxsWithId, TxsOf
<1> QED
  BY <1>1, <1>3, <1>4

(* The first and the last of the entries of one id are that entry.         *)
LEMMA FirstWithId ==
    ASSUME OneAccount, NEW d, GoodLog(d), NEW a \in Acct, NEW i, TxsWithId(d, a, i) # {}
    PROVE  /\ TxsWithId(d, a, i) = {<<a, i>>}
           /\ First(TxsWithId(d, a, i)) = <<a, i>>
           /\ LastOf(TxsWithId(d, a, i)) = <<a, i>>
           /\ <<a, i>> \in Written(d) /\ i \in Ids
<1> DEFINE P == TxsWithId(d, a, i)
<1>1. P = {<<a, i>>} /\ <<a, i>> \in Written(d)
  BY WithId
<1>2. P \subseteq Pos
  BY <1>1 DEF Written
<1> HIDE DEF P
<1>3. First(P) \in P /\ LastOf(P) \in P
  BY <1>1, <1>2, FirstIn, LastOfIn
<1> QED
  BY <1>1, <1>2, <1>3 DEF P, Pos

-----------------------------------------------------------------------------
(* Ways to change the log                                                  *)

(* A change that leaves the log alone is quiet if its outputs' entries are *)
(* there.                                                                  *)
LEMMA SameLog ==
    ASSUME NEW d, GoodLog(d), NEW e \in WalletDB,
           e.txlog = d.txlog, e.nextTx = d.nextTx,
           \A x \in Slot : \/ e.outs[x].tx = -1
                           \/ <<e.outs[x].root, e.outs[x].tx>> \in Written(d)
    PROVE  QuietChange(d, e)
<1>1. Written(e) = Written(d) /\ \A p : Entry(e, p) = Entry(d, p)
  BY DEF Written, Entry
<1>2. LogOK(e)
  BY <1>1 DEF GoodLog, LogOK
<1> QED
  BY <1>1, <1>2, CalmSelf DEF QuietChange, Quiet, GoodLog

(* What saving an entry does to the log.                                   *)
LEMMA SaveEffect ==
    ASSUME NEW d \in WalletDB, NEW a \in Acct, NEW f \in TxLogEntry, f.type # "None"
    PROVE  LET e == SaveEntry(d, a, f) IN
           /\ e \in WalletDB
           /\ e.outs = d.outs /\ e.nextTx = d.nextTx
           /\ Entry(e, <<a, f.id>>) = f
           /\ \A q \in Pos : q # <<a, f.id>> => Entry(e, q) = Entry(d, q)
           /\ <<a, f.id>> \in Pos
           /\ Written(e) = Written(d) \cup {<<a, f.id>>}
<1> DEFINE e == SaveEntry(d, a, f)
<1>1. f.id \in Ids
  BY DEF TxLogEntry
<1>2. e \in WalletDB
  BY SaveEntryType
<1>3. e.outs = d.outs /\ e.nextTx = d.nextTx
  BY DEF SaveEntry, WalletDB
<1>4. \A b \in Acct, i \in Ids :
        e.txlog[b][i] = IF b = a /\ i = f.id THEN f ELSE d.txlog[b][i]
  BY <1>1 DEF SaveEntry, WalletDB
<1> HIDE DEF e
<1>5. \A q \in Pos : Entry(e, q) = IF q = <<a, f.id>> THEN f ELSE Entry(d, q)
  BY <1>4 DEF Entry, Pos
<1>6. <<a, f.id>> \in Pos
  BY <1>1 DEF Pos
<1>7. Written(e) = Written(d) \cup {<<a, f.id>>}
  BY <1>5, <1>6 DEF Written
<1> QED
  BY <1>2, <1>3, <1>5, <1>6, <1>7 DEF e

(* Saving an entry that is there again keeps the log, and is quiet if the  *)
(* new version follows from the old one.                                   *)
LEMMA SaveAgain ==
    ASSUME OneAccount, NEW d, GoodLog(d), NEW a \in Acct, NEW f \in TxLogEntry,
           f.type # "None", <<a, f.id>> \in Written(d),
           SameEntry(Entry(d, <<a, f.id>>), f)
    PROVE  LET e == SaveEntry(d, a, f)
               old == Entry(d, <<a, f.id>>)
           IN  /\ GoodLog(e) /\ Kept(d, e)
               /\ Calm(old, f) => QuietChange(d, e)
               /\ EntryStep(old, f) => Stepped(d, e)
<1> DEFINE e == SaveEntry(d, a, f)
           p == <<a, f.id>>
<1>0. d \in WalletDB
  BY DEF GoodLog
<1>1. /\ e \in WalletDB /\ e.outs = d.outs /\ e.nextTx = d.nextTx
      /\ Entry(e, p) = f
      /\ \A q \in Pos : q # p => Entry(e, q) = Entry(d, q)
      /\ p \in Pos /\ Written(e) = Written(d) \cup {p}
  BY <1>0, SaveEffect
<1>2. p[2] = f.id /\ p[1] = a /\ Written(d) \subseteq Pos
  BY DEF Written
<1> HIDE DEF e, p
<1>3. p \in Written(d) /\ Written(e) = Written(d)
  BY <1>1 DEF p
<1>4. GoodLog(e)
  BY <1>1, <1>2, <1>3 DEF GoodLog, LogOK
<1>5. SameEntry(Entry(d, p), Entry(e, p))
  BY <1>1 DEF p
<1>6. \A q : SameEntry(Entry(d, q), Entry(d, q)) /\ EntryStep(Entry(d, q), Entry(d, q))
  BY CalmSelf, CalmIsStep DEF SameEntry
<1>7. Kept(d, e)
  BY <1>1, <1>2, <1>3, <1>5, <1>6 DEF Kept
<1>8. ASSUME Calm(Entry(d, p), f) PROVE QuietChange(d, e)
  BY <1>1, <1>2, <1>3, <1>4, <1>8, CalmSelf DEF QuietChange, Quiet
<1>9. ASSUME EntryStep(Entry(d, p), f) PROVE Stepped(d, e)
  BY <1>1, <1>2, <1>3, <1>6, <1>9 DEF Stepped
<1> QED
  BY <1>4, <1>7, <1>8, <1>9 DEF e, p

(* A new entry under the next id overwrites none.                          *)
LEMMA NewEntry ==
    ASSUME OneAccount, NEW d, GoodLog(d), NEW a \in Acct, NEW f \in TxLogEntry,
           f.type # "None", f.id = d.nextTx[a], NEW e \in WalletDB,
           e.txlog = SaveEntry(d, a, f).txlog,
           e.nextTx = [d.nextTx EXCEPT ![a] = @ + 1],
           \A x \in Slot : \/ e.outs[x].tx = -1
                           \/ <<e.outs[x].root, e.outs[x].tx>> \in Written(d)
                           \/ e.outs[x].tx = f.id
    PROVE  QuietChange(d, e) /\ Entry(e, <<a, f.id>>) = f /\ <<a, f.id>> \in Written(e)
<1> DEFINE g == SaveEntry(d, a, f)
           p == <<a, f.id>>
<1>0. d \in WalletDB
  BY DEF GoodLog
<1>1. /\ Entry(g, p) = f
      /\ \A q \in Pos : q # p => Entry(g, q) = Entry(d, q)
      /\ p \in Pos /\ Written(g) = Written(d) \cup {p}
  BY <1>0, SaveEffect
<1>2. Written(e) = Written(g) /\ \A q : Entry(e, q) = Entry(g, q)
  BY DEF Written, Entry
<1>3. /\ p[2] = f.id /\ p[1] = a /\ Written(d) \subseteq Pos
      /\ \A q \in Pos : q[1] = a
  BY OnlyAccount DEF Written, Pos
<1>4. d.nextTx[a] \in Nat /\ e.nextTx[a] = d.nextTx[a] + 1
  BY <1>0 DEF WalletDB
<1>5. \A x \in Slot : e.outs[x].root = a
  BY OnlyAccount DEF WalletDB, OutputData
<1> HIDE DEF g, p
<1>6. p \notin Written(d)
  BY <1>3, <1>4 DEF GoodLog, LogOK
<1>7. \A q \in Written(e) : Entry(e, q).id = q[2] /\ q[2] < e.nextTx[q[1]]
  <2> TAKE q \in Written(e)
  <2>1. CASE q = p
    BY <1>1, <1>2, <1>3, <1>4, <2>1
  <2>2. CASE q # p
    <3>1. q \in Written(d) /\ q[1] = a /\ q[2] \in Int
      <4>1. q \in Written(d) /\ q \in Pos
        BY <1>1, <1>2, <1>3, <2>2
      <4> QED
        BY <4>1, <1>3 DEF Pos, Ids
    <3>2. Entry(e, q).id = q[2] /\ q[2] < d.nextTx[a]
      BY <1>1, <1>2, <1>3, <2>2, <3>1 DEF GoodLog, LogOK
    <3> QED
      BY <1>4, <3>1, <3>2
  <2> QED
    BY <2>1, <2>2
<1>8. \A x \in Slot : e.outs[x].tx # -1 => <<e.outs[x].root, e.outs[x].tx>> \in Written(e)
  BY <1>1, <1>2, <1>5 DEF p
<1>9. Quiet(d, e)
  BY <1>1, <1>2, <1>3, <1>6, CalmSelf DEF Quiet
<1> QED
  BY <1>1, <1>2, <1>7, <1>8, <1>9 DEF QuietChange, GoodLog, LogOK, p

-----------------------------------------------------------------------------
(* The database operators                                                  *)

(* next_child leaves the log alone.                                        *)
LEMMA NextChildLog ==
    ASSUME NEW d, GoodLog(d), NEW a \in Acct, NEW n \in Nat, HasChildren(d, a, n)
    PROVE  QuietChange(d, next_child(d, a, n))
<1> DEFINE e == next_child(d, a, n)
<1>1. e \in WalletDB
  BY NextChildType DEF GoodLog
<1>2. e.txlog = d.txlog /\ e.nextTx = d.nextTx /\ e.outs = d.outs
  BY DEF next_child, GoodLog, WalletDB
<1> QED
  BY <1>1, <1>2, SameLog DEF GoodLog, LogOK

(* Saving a context leaves the log alone.                                  *)
LEMMA SaveContextLog ==
    ASSUME NEW d, GoodLog(d), NEW s \in Slates, NEW c \in Context
    PROVE  QuietChange(d, SaveContext(d, s, c))
<1> DEFINE e == SaveContext(d, s, c)
<1>1. e \in WalletDB
  BY SaveContextType DEF GoodLog
<1>2. e.txlog = d.txlog /\ e.nextTx = d.nextTx /\ e.outs = d.outs
  BY DEF SaveContext, GoodLog, WalletDB
<1> QED
  BY <1>1, <1>2, SameLog DEF GoodLog, LogOK

(* Saving an output leaves the log alone; its entry has to be there.       *)
LEMMA SaveOutputLog ==
    ASSUME NEW d, GoodLog(d), NEW x \in Slot, NEW o \in OutputData,
           o.tx = -1 \/ <<o.root, o.tx>> \in Written(d)
    PROVE  QuietChange(d, SaveOutput(d, x, o))
<1> DEFINE e == SaveOutput(d, x, o)
<1>1. e \in WalletDB
  BY SaveOutputType DEF GoodLog
<1>2. /\ e.txlog = d.txlog /\ e.nextTx = d.nextTx
      /\ \A y \in Slot : e.outs[y] = IF y = x THEN o ELSE d.outs[y]
  BY DEF SaveOutput, GoodLog, WalletDB
<1> HIDE DEF e
<1>3. \A y \in Slot : e.outs[y].tx = -1 \/ <<e.outs[y].root, e.outs[y].tx>> \in Written(d)
  BY <1>2 DEF GoodLog, LogOK
<1> QED
  BY <1>1, <1>2, <1>3, SameLog DEF e

(* lock_tx_context files the inputs and the change under a new entry.      *)
LEMMA LockLog ==
    ASSUME OneAccount, NEW d, GoodLog(d), NEW s \in Slates, HasIds(d, d.ctxs[s].acct, 1)
    PROVE  QuietChange(d, lock_tx_context(d, s))
<1> DEFINE e == lock_tx_context(d, s)
           c == d.ctxs[s]
           i == d.nextTx[c.acct]
           f == SentEntry(d, s)
<1>0. d \in WalletDB /\ c \in Context /\ c.acct \in Acct
  BY DEF GoodLog, WalletDB, Context
<1>1. e \in WalletDB
  BY <1>0, LockType
<1>2. i \in Ids
  BY <1>0, SizesAssumption DEF WalletDB, HasIds, Ids
<1>3. f \in TxLogEntry /\ f.type = "TxSent" /\ f.id = i
  BY <1>0, <1>2 DEF SentEntry, TxLogEntry, TxLogEntryType, Context
<1>4. /\ e.txlog = SaveEntry(d, c.acct, f).txlog
      /\ e.nextTx = [d.nextTx EXCEPT ![c.acct] = @ + 1]
      /\ e.outs = LockedOutputs(d, s)
  <2>1. SaveEntry(d, c.acct, f).nextTx = d.nextTx
    BY <1>0 DEF SaveEntry, WalletDB
  <2> HIDE DEF f
  <2>2. e = [SaveEntry(d, c.acct, f) EXCEPT !.outs = LockedOutputs(d, s),
                                            !.nextTx[c.acct] = @ + 1]
    BY DEF lock_tx_context, f
  <2>3. SaveEntry(d, c.acct, f) \in WalletDB
    BY <1>0, <1>3, SaveEntryType
  <2> QED
    BY <2>1, <2>2, <2>3 DEF WalletDB
<1>5. \A x \in Slot : e.outs[x].tx = i \/ e.outs[x] = d.outs[x]
  <2> TAKE x \in Slot
  <2>1. d.outs[x] \in OutputData
    BY <1>0 DEF WalletDB
  <2>2. [d.outs[x] EXCEPT !.status = "Locked", !.tx = i].tx = i
    BY <2>1 DEF OutputData
  <2> DEFINE change == [root |-> c.acct, status |-> "Unconfirmed", tx |-> i, cb |-> 0]
             locked == [d.outs[x] EXCEPT !.status = "Locked", !.tx = i]
  <2>3. change.tx = i
    OBVIOUS
  <2>4. \/ LockedOutputs(d, s)[x] = change
        \/ LockedOutputs(d, s)[x] = locked
        \/ LockedOutputs(d, s)[x] = d.outs[x]
    BY DEF LockedOutputs
  <2> HIDE DEF change, locked, e
  <2>5. e.outs[x] = change \/ e.outs[x] = locked \/ e.outs[x] = d.outs[x]
    BY <1>4, <2>4
  <2> QED
    BY <2>2, <2>3, <2>5 DEF locked
<1> HIDE DEF e, f
<1>6. \A x \in Slot : \/ e.outs[x].tx = -1
                      \/ <<e.outs[x].root, e.outs[x].tx>> \in Written(d)
                      \/ e.outs[x].tx = f.id
  BY <1>3, <1>5 DEF GoodLog, LogOK
<1> QED
  BY <1>0, <1>1, <1>3, <1>4, <1>6, NewEntry DEF e

(* build_recipient_output files its output under a new entry.              *)
LEMMA RecipientLog ==
    ASSUME OneAccount, NEW d, GoodLog(d), NEW s \in Slates, NEW k \in Key,
           NEW a \in Acct, NEW ttl \in Nat, HasIds(d, a, 1)
    PROVE  LET e == build_recipient_output(d, s, k, a, ttl)
               f == ReceivedEntry(d, s, a, ttl)
           IN  /\ QuietChange(d, e)
               /\ f \in TxLogEntry /\ f.id = d.nextTx[a] /\ f.slate = s
               /\ Entry(e, <<a, f.id>>) = f /\ <<a, f.id>> \in Written(e)
<1> DEFINE e == build_recipient_output(d, s, k, a, ttl)
           o == ReceivedOutput(d, a)
           g == SaveOutput(d, <<k, FALSE>>, o)
           f == ReceivedEntry(d, s, a, ttl)
<1>0. d \in WalletDB
  BY DEF GoodLog
<1>1. e \in WalletDB
  BY <1>0, RecipientType
<1>2. d.nextTx[a] \in Ids
  BY <1>0, SizesAssumption DEF WalletDB, HasIds, Ids
<1>3. /\ f \in TxLogEntry /\ f.type = "TxReceived" /\ f.id = d.nextTx[a]
      /\ f.slate = s
  BY <1>2, NothingTyped DEF ReceivedEntry, TxLogEntry, TxLogEntryType
<1>4. o \in OutputData /\ o.tx = d.nextTx[a] /\ <<k, FALSE>> \in Slot
  BY <1>2 DEF ReceivedOutput, OutputData, OutputStatus, Slot
<1> HIDE DEF o, f
<1>5. /\ g \in WalletDB /\ g.txlog = d.txlog /\ g.nextTx = d.nextTx
      /\ \A x \in Slot : g.outs[x] = IF x = <<k, FALSE>> THEN o ELSE d.outs[x]
  <2>1. g \in WalletDB
    BY <1>0, <1>4, SaveOutputType
  <2>2. g = [d EXCEPT !.outs = [d.outs EXCEPT ![<<k, FALSE>>] = o]]
    BY <1>0 DEF SaveOutput, WalletDB
  <2>3. d.outs \in [Slot -> OutputData]
    BY <1>0 DEF WalletDB
  <2> DEFINE outs == [d.outs EXCEPT ![<<k, FALSE>>] = o]
  <2>4. \A x \in Slot : outs[x] = IF x = <<k, FALSE>> THEN o ELSE d.outs[x]
    BY <1>4, <2>3
  <2>5. g = [d EXCEPT !.outs = outs]
    BY <2>2
  <2> HIDE DEF outs, g
  <2>6. g.txlog = d.txlog /\ g.nextTx = d.nextTx /\ g.outs = outs
    BY <1>0, <2>5 DEF WalletDB
  <2> QED
    BY <2>1, <2>4, <2>6
<1> HIDE DEF g
<1>6. /\ SaveEntry(g, a, f) \in WalletDB
      /\ SaveEntry(g, a, f).nextTx = d.nextTx /\ SaveEntry(g, a, f).outs = g.outs
      /\ SaveEntry(g, a, f).txlog = SaveEntry(d, a, f).txlog
  BY <1>0, <1>3, <1>5, SaveEntryType DEF SaveEntry, WalletDB
<1>7. e = [SaveEntry(g, a, f) EXCEPT !.nextTx[a] = @ + 1]
  BY DEF build_recipient_output, o, f, g
<1>8. /\ e.txlog = SaveEntry(d, a, f).txlog
      /\ e.nextTx = [d.nextTx EXCEPT ![a] = @ + 1]
      /\ e.outs = g.outs
  BY <1>6, <1>7 DEF WalletDB
<1> HIDE DEF e
<1>9. \A x \in Slot : \/ e.outs[x].tx = -1
                      \/ <<e.outs[x].root, e.outs[x].tx>> \in Written(d)
                      \/ e.outs[x].tx = f.id
  BY <1>3, <1>4, <1>5, <1>8 DEF GoodLog, LogOK
<1> QED
  BY <1>0, <1>1, <1>3, <1>8, <1>9, NewEntry DEF e, f

(* update_tx_slate_state finds the one entry and saves it as it is.        *)
LEMMA SlateStateLog ==
    ASSUME OneAccount, NEW d, GoodLog(d), NEW a \in Acct, NEW s, TxsWithSlate(d, s) # {}
    PROVE  QuietChange(d, update_tx_slate_state(d, a, s))
<1> DEFINE P == TxsWithSlate(d, s)
           p == First(P)
<1>1. P \subseteq Pos /\ P \subseteq Written(d)
  BY DEF TxsWithSlate, Written
<1>2. p \in Written(d) /\ p \in Pos
  BY <1>1, FirstIn
<1>3. Entry(d, p) \in TxLogEntry /\ p = <<a, p[2]>> /\ Entry(d, p).id = p[2]
  BY <1>2, Places, OnlyAccount DEF GoodLog, LogOK
<1>4. Entry(d, p).type # "None"
  BY <1>2 DEF Written
<1>5. update_tx_slate_state(d, a, s) = SaveEntry(d, a, Entry(d, p))
  BY DEF update_tx_slate_state
<1> HIDE DEF p
<1> QED
  BY <1>2, <1>3, <1>4, <1>5, SaveAgain, CalmSelf DEF SameEntry

(* Marking an entry as cancelled keeps the log and is a step LogSteps      *)
(* allows.                                                                 *)
LEMMA MarkLog ==
    ASSUME OneAccount, NEW d, GoodLog(d), NEW a \in Acct, NEW p \in Written(d),
           NEW y \in EntryFuture(Entry(d, p).type), y # "None"
    PROVE  LET e == SaveEntry(d, a, [Entry(d, p) EXCEPT !.type = y])
           IN  GoodLog(e) /\ Kept(d, e) /\ Stepped(d, e)
<1> DEFINE old == Entry(d, p)
           f == [old EXCEPT !.type = y]
<1>1. p \in Pos /\ old.type # "None"
  BY DEF Written
<1>2. old \in TxLogEntry /\ old.id = p[2] /\ p = <<a, p[2]>>
  BY <1>1, Places, OnlyAccount DEF GoodLog, LogOK
<1>3. y \in TxLogEntryType /\ y \in EntryFuture(old.type)
  BY <1>2 DEF EntryFuture, TxLogEntry, TxLogEntryType
<1> HIDE DEF old
<1>4. /\ f \in TxLogEntry /\ f.type = y /\ f.id = old.id /\ f.acct = old.acct
      /\ f.slate = old.slate /\ f.debit = old.debit /\ f.credit = old.credit
      /\ f.confirmed = old.confirmed
  BY <1>2, <1>3 DEF TxLogEntry
<1> HIDE DEF f
<1>5. SameEntry(old, f) /\ EntryStep(old, f)
  BY <1>3, <1>4 DEF SameEntry, EntryStep
<1>6. <<a, f.id>> = p
  BY <1>2, <1>4
<1> QED
  BY <1>4, <1>5, <1>6, SaveAgain DEF old, f

(* cancel_tx_and_outputs marks one entry and frees its outputs.            *)
LEMMA CancelLog ==
    ASSUME OneAccount, NEW d, GoodLog(d), NEW a \in Acct, NEW P, P \subseteq Written(d),
           P # {}
    PROVE  LET e == cancel_tx_and_outputs(d, a, P)
           IN  GoodLog(e) /\ Kept(d, e) /\ Stepped(d, e)
<1> DEFINE e == cancel_tx_and_outputs(d, a, P)
           p == First(P)
           y == CancelledType(Entry(d, p).type)
           g == SaveEntry(d, a, [Entry(d, p) EXCEPT !.type = y])
           outs == FreedOutputs(d, a, Entry(d, p).id)
<1>1. P \subseteq Pos
  BY DEF Written
<1>2. p \in Written(d)
  BY <1>1, FirstIn
<1>3. y \in EntryFuture(Entry(d, p).type) /\ y # "None"
  BY <1>2 DEF CancelledType, EntryFuture, Written
<1>4. GoodLog(g) /\ Kept(d, g) /\ Stepped(d, g)
  <2> HIDE DEF p, y
  <2> QED
    BY <1>2, <1>3, MarkLog DEF p
<1>5. e \in WalletDB
  BY <1>1, CancelType DEF GoodLog
<1>6. e = [g EXCEPT !.outs = outs]
  BY DEF cancel_tx_and_outputs
<1>7. \A x \in Slot : \/ outs[x].tx = -1
                      \/ outs[x].tx = d.outs[x].tx /\ outs[x].root = d.outs[x].root
  <2>1. \A o \in OutputData :
          \/ CancelledOutput(o).tx = -1
          \/ CancelledOutput(o).tx = o.tx /\ CancelledOutput(o).root = o.root
    BY DEF CancelledOutput, NoOutput, OutputData
  <2>2. \A x \in Slot : d.outs[x] \in OutputData
    BY DEF GoodLog, WalletDB
  <2>3. \A x \in Slot : outs[x] = d.outs[x] \/ outs[x] = CancelledOutput(d.outs[x])
    BY DEF FreedOutputs
  <2> HIDE DEF outs
  <2> QED
    BY <2>1, <2>2, <2>3
<1> HIDE DEF e, g, outs, y, p
<1>8. e.txlog = g.txlog /\ e.nextTx = g.nextTx /\ e.outs = outs
  BY <1>4, <1>6 DEF GoodLog, WalletDB
<1>9. QuietChange(g, e)
  <2>1. \A x \in Slot : e.outs[x].tx = -1 \/ <<e.outs[x].root, e.outs[x].tx>> \in Written(d)
    BY <1>7, <1>8 DEF GoodLog, LogOK
  <2>2. Written(d) \subseteq Written(g)
    BY <1>4 DEF Kept
  <2> QED
    BY <1>4, <1>5, <1>8, <2>1, <2>2, SameLog
<1>10. Written(e) = Written(g) /\ \A q : Entry(e, q) = Entry(g, q)
  BY <1>8 DEF Written, Entry
<1> QED
  BY <1>4, <1>9, <1>10 DEF e, QuietChange, Kept, Stepped

(* cancel_tx_log_entry, the first half of a scan's repair, marks the       *)
(* output's entry, if there is one.                                        *)
LEMMA CancelLogLog ==
    ASSUME OneAccount, NEW d, GoodLog(d), NEW x \in Slot, NEW o
    PROVE  LET e == cancel_tx_log_entry(d, x, o)
           IN  GoodLog(e) /\ Kept(d, e) /\ Stepped(d, e)
<1> DEFINE a == x[1][1]
           P == TxsWithId(d, a, o.tx)
           p == First(P)
           y == CASE Entry(d, p).type = "TxSent" -> "TxSentCancelled"
                  [] Entry(d, p).type = "TxReceived" -> "TxReceivedCancelled"
                  [] OTHER -> Entry(d, p).type
           g == SaveEntry(d, a, [Entry(d, p) EXCEPT !.type = y])
<1>1. a \in Acct /\ P \subseteq Pos /\ P \subseteq Written(d)
  BY DEF Slot, Key, TxsWithId, TxsOf, Written
<1>2. CASE P # {}
  <2>1. p \in Written(d)
    BY <1>1, <1>2, FirstIn
  <2>2. y \in EntryFuture(Entry(d, p).type) /\ y # "None"
    BY <2>1 DEF EntryFuture, Written
  <2>3. cancel_tx_log_entry(d, x, o) = g
    BY <1>2 DEF cancel_tx_log_entry
  <2> HIDE DEF a, p, y
  <2> QED
    BY <1>1, <2>1, <2>2, <2>3, MarkLog
<1>3. CASE P = {}
  <2>1. cancel_tx_log_entry(d, x, o) = d
    BY <1>3 DEF cancel_tx_log_entry
  <2> QED
    BY <2>1, QuietSelf, QuietFacts
<1> QED
  BY <1>2, <1>3

(* The end of a scan leaves the log alone.                                 *)
LEMMA ChildIndicesLog ==
    ASSUME NEW d, GoodLog(d), NEW K, K \subseteq Key
    PROVE  QuietChange(d, restore_child_indices(d, K))
<1> DEFINE e == restore_child_indices(d, K)
<1>1. e \in WalletDB
  BY ChildIndicesType DEF GoodLog
<1>2. e.txlog = d.txlog /\ e.nextTx = d.nextTx /\ e.outs = d.outs
  BY DEF restore_child_indices, GoodLog, WalletDB
<1> QED
  BY <1>1, <1>2, SameLog DEF GoodLog, LogOK

(* restore_missing_outputs files every output it restores under a new      *)
(* entry.                                                                  *)
LEMMA RestoreLog ==
    ASSUME OneAccount, NEW d, GoodLog(d), NEW K, K \subseteq Key,
           NEW cb \in [Key -> Nat], RestoreHasIds(d, K)
    PROVE  QuietChange(d, restore_missing_outputs(d, K, cb))
<1> DEFINE e == restore_missing_outputs(d, K, cb)
           J(a) == {k \in K : k[1] = a}
           new(a, i) == {k \in K : k[1] = a /\ RestoredId(d, K, k) = i}
           f(a, i) == [id |-> i, acct |-> a,
                       type |-> IF cb[CHOOSE k \in new(a, i) : TRUE] > 0
                                THEN "ConfirmedCoinbase" ELSE "TxReceived",
                       slate |-> NoSlate, confirmed |-> TRUE, debit |-> FALSE,
                       credit |-> TRUE, kern |-> NoKern, ttl |-> 0]
<1>0. d \in WalletDB
  BY DEF GoodLog
<1>1. e \in WalletDB
  BY <1>0, RestoreType
<1>2. /\ e.outs = RestoredOutputs(d, K, cb)
      /\ \A a \in Acct, i \in Ids :
            e.txlog[a][i] = IF new(a, i) = {} THEN d.txlog[a][i] ELSE f(a, i)
      /\ \A a \in Acct : e.nextTx[a] = d.nextTx[a] + Cardinality(J(a))
  BY <1>0 DEF restore_missing_outputs, WalletDB
<1> HIDE DEF e
<1>3. \A k \in K : /\ RestoredId(d, K, k) \in Ids
                   /\ d.nextTx[k[1]] <= RestoredId(d, K, k)
                   /\ RestoredId(d, K, k) < d.nextTx[k[1]] + Cardinality(J(k[1]))
  <2> TAKE k \in K
  <2>1. k \in J(k[1]) /\ J(k[1]) \subseteq Key /\ k[1] \in Acct
    BY DEF Key
  <2>2. Rank(J(k[1]), k) \in Nat /\ Rank(J(k[1]), k) < Cardinality(J(k[1]))
    <3> HIDE DEF J
    <3> QED
      BY <2>1, RankBound
  <2>3. RestoredId(d, K, k) = d.nextTx[k[1]] + Rank(J(k[1]), k)
    BY DEF RestoredId
  <2>4. d.nextTx[k[1]] \in Nat /\ Cardinality(J(k[1])) \in Nat
    <3>1. d.nextTx[k[1]] \in Nat
      BY <1>0, <2>1 DEF WalletDB
    <3> HIDE DEF J
    <3> QED
      BY <2>1, <3>1, KeyFinite
  <2>5. RestoredId(d, K, k) \in Ids
    BY <1>0, RestoredIdType
  <2> HIDE DEF J
  <2> QED
    BY <2>2, <2>3, <2>4, <2>5
<1>4. \A a \in Acct : /\ Cardinality(J(a)) \in Nat /\ d.nextTx[a] \in Nat
  <2> TAKE a \in Acct
  <2>1. J(a) \subseteq Key
    OBVIOUS
  <2> HIDE DEF J
  <2> QED
    BY <1>0, <2>1, KeyFinite DEF WalletDB
<1> HIDE DEF J
<1>5. \A a \in Acct, i \in Ids :
        new(a, i) # {} => d.nextTx[a] <= i /\ i < e.nextTx[a]
  <2> TAKE a \in Acct, i \in Ids
  <2>1. ASSUME NEW k \in new(a, i) PROVE d.nextTx[a] <= i /\ i < e.nextTx[a]
    BY <1>2, <1>3
  <2> QED
    BY <2>1
<1>6. \A a \in Acct, i \in Ids : f(a, i).id = i /\ f(a, i).type # "None"
  OBVIOUS
<1> HIDE DEF f
<1>7. \A p \in Pos : /\ p[1] \in Acct /\ p[2] \in Ids /\ p[2] \in Int
                     /\ Entry(d, p) = d.txlog[p[1]][p[2]]
                     /\ Entry(e, p) = e.txlog[p[1]][p[2]]
  BY DEF Pos, Entry, Ids
<1>8. \A p \in Written(d) : p \in Written(e) /\ Entry(e, p) = Entry(d, p)
  <2> TAKE p \in Written(d)
  <2>1. p \in Pos /\ p[2] < d.nextTx[p[1]]
    BY DEF Written, GoodLog, LogOK
  <2>2. new(p[1], p[2]) = {}
    <3> HIDE DEF new
    <3> QED
      BY <1>4, <1>5, <1>7, <2>1
  <2>3. Entry(e, p) = Entry(d, p)
    BY <1>2, <1>7, <2>1, <2>2
  <2> QED
    BY <2>1, <2>3 DEF Written
<1>9. \A p \in Written(e) : Entry(e, p).id = p[2] /\ p[2] < e.nextTx[p[1]]
  <2> TAKE p \in Written(e)
  <2>1. p \in Pos
    BY DEF Written
  <2> HIDE DEF new
  <2>2. CASE new(p[1], p[2]) = {}
    <3>1. p \in Written(d) /\ Entry(e, p) = Entry(d, p)
      BY <1>2, <1>7, <2>1, <2>2 DEF Written
    <3>2. Entry(d, p).id = p[2] /\ p[2] < d.nextTx[p[1]]
      BY <3>1 DEF GoodLog, LogOK
    <3> QED
      BY <1>2, <1>4, <1>7, <2>1, <3>1, <3>2
  <2>3. CASE new(p[1], p[2]) # {}
    BY <1>2, <1>5, <1>6, <1>7, <2>1, <2>3
  <2> QED
    BY <2>2, <2>3
<1>10. \A x \in Slot : e.outs[x].tx # -1 => <<e.outs[x].root, e.outs[x].tx>> \in Written(e)
  <2> TAKE x \in Slot
  <2>1. CASE x \in K \X {TRUE}
    <3> DEFINE k == x[1]
               i == RestoredId(d, K, k)
    <3>1. k \in K /\ k[1] \in Acct /\ i \in Ids
      BY <1>3, <2>1 DEF Key
    <3>2. e.outs[x].root = k[1] /\ e.outs[x].tx = i
      BY <1>2, <2>1 DEF RestoredOutputs
    <3>3. new(k[1], i) # {}
      BY <3>1
    <3>4. e.txlog[k[1]][i] = f(k[1], i)
      BY <1>2, <3>1, <3>3
    <3> HIDE DEF k, i, new
    <3>5. <<k[1], i>> \in Written(e)
      BY <1>6, <3>1, <3>4 DEF Written, Entry, Pos
    <3> QED
      BY <3>2, <3>5
  <2>2. CASE x \notin K \X {TRUE}
    <3>1. e.outs[x] = d.outs[x]
      BY <1>2, <2>2 DEF RestoredOutputs
    <3> QED
      BY <1>8, <3>1 DEF GoodLog, LogOK
  <2> QED
    BY <2>1, <2>2
<1> QED
  BY <1>1, <1>8, <1>9, <1>10, CalmSelf DEF QuietChange, Quiet, GoodLog, LogOK, e

(* What a refresh makes of the entry stored under an id: a new coinbase's  *)
(* entry where there was none, or a calm change of the old one.            *)
LEMMA RefreshedLog ==
    ASSUME OneAccount, NEW d, GoodLog(d), NEW a \in Acct, NEW M, M \subseteq Slot,
           NEW api, NEW kernels,
           HasIds(d, a, Cardinality(NewCoinbases(d, M, api))), NEW i \in Ids
    PROVE  LET rev == find_reverted_kernels(d, a, M, api, kernels)
               f == RefreshedEntry(d, a, M, api, rev, i)
               new == {x \in NewCoinbases(d, M, api) : CoinbaseId(d, a, M, api, x) = i}
           IN  /\ new # {} => /\ <<a, i>> \notin Written(d)
                              /\ f.id = i /\ f.type = "ConfirmedCoinbase"
                              /\ i < d.nextTx[a] + Cardinality(KeysOf(NewCoinbases(d, M, api)))
               /\ new = {} /\ <<a, i>> \in Written(d) => Calm(d.txlog[a][i], f)
               /\ new = {} /\ <<a, i>> \notin Written(d) => f = d.txlog[a][i]
<1> DEFINE rev == find_reverted_kernels(d, a, M, api, kernels)
           f == RefreshedEntry(d, a, M, api, rev, i)
           N == NewCoinbases(d, M, api)
           new == {x \in N : CoinbaseId(d, a, M, api, x) = i}
           P == TxsWithId(d, a, i)
           old == d.txlog[a][i]
<1>0. d \in WalletDB /\ d.nextTx[a] \in Nat /\ N \subseteq Slot
  BY DEF GoodLog, WalletDB, NewCoinbases
<1>1. CASE new # {}
  <2>1. PICK x \in N : CoinbaseId(d, a, M, api, x) = i
    BY <1>1
  <2>2. KeysOf(N) \subseteq Key /\ x[1] \in KeysOf(N)
    BY <1>0 DEF KeysOf, Slot
  <2>3. /\ Rank(KeysOf(N), x[1]) \in Nat
        /\ Rank(KeysOf(N), x[1]) < Cardinality(KeysOf(N))
        /\ Cardinality(KeysOf(N)) \in Nat
    <3> HIDE DEF N
    <3> QED
      BY <2>2, RankBound, KeyFinite
  <2>4. i = d.nextTx[a] + Rank(KeysOf(N), x[1])
    BY <2>1 DEF CoinbaseId
  <2>5. <<a, i>> \notin Written(d)
    <3> HIDE DEF N
    <3> QED
      BY <1>0, <2>3, <2>4 DEF GoodLog, LogOK
  <2>6. f = CoinbaseEntry(a, i, (CHOOSE y \in new : TRUE)[1])
    BY <1>1 DEF RefreshedEntry
  <2>7. f.id = i /\ f.type = "ConfirmedCoinbase"
    BY <2>6 DEF CoinbaseEntry
  <2> HIDE DEF f, new
  <2>8. i < d.nextTx[a] + Cardinality(KeysOf(N))
    <3> HIDE DEF N
    <3> QED
      BY <1>0, <2>3, <2>4
  <2> QED
    BY <1>1, <2>5, <2>7, <2>8 DEF f, new
<1>2. CASE new = {} /\ <<a, i>> \in Written(d)
  <2> DEFINE conf == [old EXCEPT !.confirmed = TRUE,
                        !.type = IF @ = "TxReverted" THEN "TxReceived" ELSE @]
             last == IF i \in ConfirmedIds(d, a, M, api) /\ \A p \in P : p[1] <= a
                     THEN conf ELSE old
             back == [last EXCEPT !.type = "TxReverted", !.confirmed = FALSE]
  <2>1. /\ P = {<<a, i>>} /\ First(P) = <<a, i>> /\ LastOf(P) = <<a, i>>
        /\ Entry(d, First(P)) = old /\ Entry(d, LastOf(P)) = old
    <3>1. P = {<<a, i>>}
      BY <1>2, WithId
    <3> HIDE DEF P
    <3>2. First(P) = <<a, i>> /\ LastOf(P) = <<a, i>>
      BY <3>1, FirstWithId DEF P
    <3> QED
      BY <3>1, <3>2 DEF Entry
  <2>2. old \in TxLogEntry
    BY <1>0 DEF WalletDB
  <2>3. i \in rev => old.type = "TxReceived"
    BY <2>1 DEF find_reverted_kernels, Entry
  <2>4. \/ i \in rev /\ f = back
        \/ f = conf
        \/ f = old
    BY <1>2, <2>1 DEF RefreshedEntry
  <2> HIDE DEF old, rev, f, P
  <2>5. /\ conf \in TxLogEntry /\ SameEntry(old, conf) /\ conf.confirmed
        /\ Related(old.type, conf.type) /\ conf.type # "TxReverted"
    BY <2>2 DEF TxLogEntry, TxLogEntryType, SameEntry, Related, Received
  <2>6. last \in TxLogEntry /\ SameEntry(old, last) /\ Related(old.type, last.type)
    <3> HIDE DEF conf
    <3> QED
      BY <2>2, <2>5 DEF SameEntry, Related
  <2> HIDE DEF last
  <2>7. SameEntry(old, back) /\ back.type = "TxReverted"
    BY <2>6 DEF TxLogEntry, SameEntry
  <2> HIDE DEF conf, back
  <2>8. Calm(old, f)
    BY <2>3, <2>4, <2>5, <2>7, CalmSelf DEF Calm, Related, Received
  <2> QED
    BY <1>2, <2>8 DEF old, rev, f
<1>3. CASE new = {} /\ <<a, i>> \notin Written(d)
  <2>1. P = {}
    BY <1>3, WithId
  <2>2. i \notin ConfirmedIds(d, a, M, api)
    BY <2>1 DEF ConfirmedIds
  <2>3. f = old
    BY <1>3, <2>1, <2>2 DEF RefreshedEntry
  <2> QED
    BY <1>3, <2>3
<1> QED
  BY <1>1, <1>2, <1>3

(* apply_api_outputs gives new coinbases new entries and changes the       *)
(* others calmly.                                                          *)
LEMMA ApplyLog ==
    ASSUME OneAccount, NEW d, GoodLog(d), NEW a \in Acct, NEW M, M \subseteq Slot,
           NEW api, NEW kernels, NEW h \in Nat,
           HasIds(d, a, Cardinality(NewCoinbases(d, M, api)))
    PROVE  QuietChange(d, apply_api_outputs(d, a, M, api,
                              find_reverted_kernels(d, a, M, api, kernels), h))
<1> DEFINE rev == find_reverted_kernels(d, a, M, api, kernels)
           e == apply_api_outputs(d, a, M, api, rev, h)
           N == NewCoinbases(d, M, api)
           n == Cardinality(KeysOf(N))
           new(i) == {x \in N : CoinbaseId(d, a, M, api, x) = i}
           f(i) == RefreshedEntry(d, a, M, api, rev, i)
<1>0. d \in WalletDB /\ d.nextTx[a] \in Nat /\ N \subseteq Slot /\ a = 0 /\ Acct = {0}
  BY OnlyAccount DEF GoodLog, WalletDB, NewCoinbases
<1>1. e \in WalletDB
  BY <1>0, ApplyType
<1>2. \A i \in Ids :
        /\ new(i) # {} => /\ <<a, i>> \notin Written(d)
                          /\ f(i).id = i /\ f(i).type = "ConfirmedCoinbase"
                          /\ i < d.nextTx[a] + n
        /\ new(i) = {} /\ <<a, i>> \in Written(d) => Calm(d.txlog[a][i], f(i))
        /\ new(i) = {} /\ <<a, i>> \notin Written(d) => f(i) = d.txlog[a][i]
  BY RefreshedLog
<1>3. n \in Nat
  <2>1. KeysOf(N) \subseteq Key
    BY <1>0 DEF KeysOf, Slot
  <2> QED
    BY <2>1, KeyFinite
<1>4. CASE h < d.confH[a]
  <2>1. e = d
    BY <1>4 DEF apply_api_outputs
  <2> QED
    BY <2>1, QuietSelf
<1>5. CASE ~(h < d.confH[a])
  <2> DEFINE outs == [x \in Slot |-> IF x \in M
                                     THEN RefreshedOutput(d, a, M, api, rev, x)
                                     ELSE d.outs[x]]
             log == [i \in Ids |-> f(i)]
  <2>1. e = [d EXCEPT !.outs = outs, !.txlog[a] = log, !.nextTx[a] = @ + n, !.confH[a] = h]
    BY <1>5 DEF apply_api_outputs
  <2>2. \A x \in Slot : \/ x \in N /\ outs[x].tx = CoinbaseId(d, a, M, api, x)
                        \/ outs[x].tx = d.outs[x].tx
    <3> TAKE x \in Slot
    <3>1. d.outs[x] \in OutputData
      BY <1>0 DEF WalletDB
    <3>2. \A o \in OutputData : \A y, i : /\ [o EXCEPT !.status = y].tx = o.tx
                                          /\ [o EXCEPT !.status = y, !.tx = i].tx = i
      BY DEF OutputData
    <3>3. /\ mark_unspent(d.outs[x]).tx = d.outs[x].tx
          /\ mark_spent(d.outs[x]).tx = d.outs[x].tx
          /\ mark_reverted(d.outs[x]).tx = d.outs[x].tx
      BY <3>1, <3>2 DEF mark_unspent, mark_spent, mark_reverted
    <3>4. CASE x \in M
      <4>1. outs[x] = RefreshedOutput(d, a, M, api, rev, x)
        BY <3>4
      <4> HIDE DEF outs, rev
      <4> QED
        BY <3>1, <3>2, <3>3, <4>1 DEF RefreshedOutput
    <3>5. CASE x \notin M
      BY <3>5
    <3> QED
      BY <3>4, <3>5
  <2> HIDE DEF f, outs, log, n, e
  <2>3. /\ e.outs = outs /\ e.nextTx[a] = d.nextTx[a] + n /\ e.txlog[a] = log
    BY <1>0, <2>1 DEF WalletDB
  <2>4. \A i \in Ids : e.txlog[a][i] = f(i)
    BY <2>3 DEF log
  <2>5. \A p \in Pos : /\ p[2] \in Ids /\ p[2] \in Int /\ p = <<a, p[2]>> /\ p[1] = a
                       /\ Entry(d, p) = d.txlog[a][p[2]] /\ Entry(e, p) = f(p[2])
    BY <1>0, <2>4 DEF Pos, Entry, Ids
  <2> HIDE DEF new, N
  <2>6. \A p \in Written(d) : p \in Written(e) /\ Calm(Entry(d, p), Entry(e, p))
    <3> TAKE p \in Written(d)
    <3>1. p \in Pos /\ Entry(d, p).type # "None"
      BY DEF Written
    <3>2. new(p[2]) = {}
      BY <1>2, <2>5, <3>1
    <3>3. Calm(Entry(d, p), Entry(e, p))
      BY <1>2, <2>5, <3>1, <3>2
    <3>4. Entry(e, p).type # "None"
      BY <3>1, <3>3 DEF Calm, Related, Received
    <3> QED
      BY <3>1, <3>3, <3>4 DEF Written
  <2>7. \A p \in Written(e) : Entry(e, p).id = p[2] /\ p[2] < e.nextTx[p[1]]
    <3> TAKE p \in Written(e)
    <3>1. p \in Pos /\ Entry(e, p).type # "None"
      BY DEF Written
    <3>2. CASE new(p[2]) # {}
      BY <1>2, <2>3, <2>5, <3>1, <3>2
    <3>3. CASE new(p[2]) = {}
      <4>1. p \in Written(d)
        BY <1>2, <2>5, <3>1, <3>3 DEF Written
      <4>2. Entry(d, p).id = p[2] /\ p[2] < d.nextTx[a]
        BY <2>5, <3>1, <4>1 DEF GoodLog, LogOK
      <4>3. Entry(e, p).id = p[2]
        BY <2>6, <4>1, <4>2 DEF Calm, SameEntry
      <4> QED
        BY <1>0, <1>3, <2>3, <2>5, <3>1, <4>2, <4>3
    <3> QED
      BY <3>2, <3>3
  <2>8. \A x \in Slot : e.outs[x].tx # -1 => <<e.outs[x].root, e.outs[x].tx>> \in Written(e)
    <3> TAKE x \in Slot
    <3>1. e.outs[x].root = a /\ d.outs[x].root = a
      BY <1>0, <1>1 DEF WalletDB, OutputData
    <3>2. CASE x \in N /\ outs[x].tx = CoinbaseId(d, a, M, api, x)
      <4> DEFINE i == CoinbaseId(d, a, M, api, x)
      <4>1. i \in Ids
        BY <1>0, <3>2, CoinbaseIdType DEF N
      <4>2. new(i) # {}
        BY <3>2 DEF new
      <4>3. f(i).type = "ConfirmedCoinbase"
        BY <1>2, <4>1, <4>2
      <4> HIDE DEF i
      <4>4. <<a, i>> \in Written(e)
        BY <2>4, <4>1, <4>3 DEF Written, Entry, Pos
      <4> QED
        BY <2>3, <3>1, <3>2, <4>4 DEF i
    <3>3. CASE outs[x].tx = d.outs[x].tx
      <4>1. d.outs[x].tx # -1 => <<a, d.outs[x].tx>> \in Written(d)
        BY <3>1 DEF GoodLog, LogOK
      <4> QED
        BY <2>3, <2>6, <3>1, <3>3, <4>1
    <3> QED
      BY <2>2, <3>2, <3>3
  <2> QED
    BY <1>1, <2>6, <2>7, <2>8 DEF QuietChange, Quiet, GoodLog, LogOK, e
<1> QED
  BY <1>4, <1>5

(* A refresh as a whole is quiet.                                          *)
LEMMA RefreshLog ==
    ASSUME OneAccount, NEW d, GoodLog(d), NEW a \in Acct, NEW all, NEW h \in Nat,
           NEW api, NEW kernels, RefreshHasIds(d, a, all, api)
    PROVE  QuietChange(d, refresh_output_state(d, a, all, h, api, kernels))
<1> DEFINE M == map_wallet_outputs(d, a, all)
           e == apply_api_outputs(d, a, M, api, find_reverted_kernels(d, a, M, api, kernels), h)
           f == clean_old_unconfirmed(e, h)
<1>1. M \subseteq Slot
  BY DEF map_wallet_outputs, Refreshable
<1>2. QuietChange(d, e)
  <2>1. HasIds(d, a, Cardinality(NewCoinbases(d, M, api)))
    BY DEF RefreshHasIds
  <2> HIDE DEF M
  <2> QED
    BY <1>1, <2>1, ApplyLog
<1> HIDE DEF e
<1>3. GoodLog(e) /\ e \in WalletDB /\ f \in WalletDB
  BY <1>2, CleanType DEF QuietChange, GoodLog
<1>4. /\ f.txlog = e.txlog /\ f.nextTx = e.nextTx
      /\ \A x \in Slot : f.outs[x] = e.outs[x] \/ f.outs[x] = NoOutput
  BY <1>3 DEF clean_old_unconfirmed, WalletDB
<1>5. refresh_output_state(d, a, all, h, api, kernels) = f
  BY DEF refresh_output_state, e
<1> HIDE DEF f
<1>6. \A x \in Slot : f.outs[x].tx = -1 \/ <<f.outs[x].root, f.outs[x].tx>> \in Written(e)
  BY <1>3, <1>4 DEF NoOutput, GoodLog, LogOK
<1>7. QuietChange(e, f)
  BY <1>3, <1>4, <1>6, SameLog
<1> QED
  BY <1>2, <1>5, <1>7, QuietThen

-----------------------------------------------------------------------------
(* API calls                                                               *)

(* What the proofs of the steps start from.                                *)
LEMMA LogFacts ==
    ASSUME LogInv
    PROVE  /\ Inv /\ GoodLog(db) /\ QuietChange(db, db)
           /\ GoodDb(db) /\ db \in WalletDB /\ active \in Acct /\ Height \in Nat
           /\ \A t \in Threads : th[t] \in ThreadState /\ ThreadLog(db, th[t])
<1>1. Inv /\ GoodLog(db)
  BY InvFacts DEF LogInv, GoodLog
<1> QED
  BY <1>1, QuietSelf, InvFacts, ThreadFacts DEF LogInv

(* What a thread remembers of the log stays good when the log changes; its *)
(* copies stay up to date if nothing is cancelled.                         *)
LEMMA ThreadLogStays ==
    ASSUME NEW d, GoodLog(d), NEW e, GoodLog(e), Kept(d, e), OneThread => Quiet(d, e),
           NEW r \in ThreadState, ThreadLog(d, r)
    PROVE  ThreadLog(e, r)
<1>1. ASSUME NEW c, Copy(d, c)
      PROVE  Copy(e, c)
  BY <1>1 DEF Copy, Kept, SameEntry
<1>2. ASSUME NEW c, Copy(d, c), UpToDate(d, c), OneThread
      PROVE  UpToDate(e, c)
  BY <1>2 DEF Copy, UpToDate, Quiet, Calm, Related, Received
<1>3. \A x \in Slot : r.outs[x].tx # -1 => <<r.outs[x].root, r.outs[x].tx>> \in Written(e)
  BY DEF ThreadLog, Kept
<1> QED
  BY <1>1, <1>2, <1>3 DEF ThreadLog

(* An idle thread remembers nothing of the log.                            *)
LEMMA IdleLog == \A d : ThreadLog(d, Idle)
  BY DEF ThreadLog, Idle, NoOutputs, NoOutput

(* An API call that cancels nothing is a good step.                        *)
LEMMA ApiLog ==
    ASSUME LogInv, QuietChange(db, db'), WalletStep
    PROVE  LogStep
<1>1. GoodLog(db') /\ Kept(db, db') /\ Stepped(db, db') /\ Quiet(db, db')
  BY QuietFacts
<1>2. CASE UNCHANGED <<active, lock, th>>
  BY <1>1, <1>2, LogFacts, ThreadLogStays DEF LogStep, GoodLog
<1>3. CASE Restart
  BY <1>1, <1>3, IdleLog DEF LogStep, GoodLog, Restart
<1> QED
  BY <1>2, <1>3 DEF WalletStep

(* A step of a thread that keeps every entry is a good step: other threads *)
(* have copies that may be out of date, a single one has not.              *)
LEMMA ThreadLogStep ==
    ASSUME LogInv, NEW t \in Threads, NEW r, Become(t, r),
           GoodLog(db'), Kept(db, db'), OneThread => Stepped(db, db'), ThreadLog(db', r)
    PROVE  LogStep
<1>1. \A u \in Threads : th'[u] = IF u = t THEN r ELSE th[u]
  BY DEF Become, LogInv, Inv, TypeOK
<1>2. ASSUME NEW u \in Threads, u # t PROVE ThreadLog(db', th'[u])
  <2>1. ~OneThread
    BY <1>2 DEF OneThread
  <2> QED
    BY <1>1, <1>2, <2>1, LogFacts, ThreadLogStays
<1> QED
  BY <1>1, <1>2 DEF LogStep, GoodLog

(* The refresh at the start of a call.                                     *)
LEMMA CallRefreshLog ==
    ASSUME OneAccount, LogInv, NEW a \in Acct, NEW d \in Refreshed(db, a)
    PROVE  QuietChange(db, d) /\ GoodLog(d)
<1>1. RefreshHasIds(db, a, FALSE, Utxo) =>
        QuietChange(db, refresh_output_state(db, a, FALSE, Height, Utxo, Kernels))
  BY LogFacts, RefreshLog
<1> QED
  BY <1>1, LogFacts DEF Refreshed, QuietChange

(* A selection leaves the log alone.                                       *)
LEMMA SelectedLog ==
    ASSUME NEW d, GoodLog(d), GoodDb(d), active \in Acct, NEW n \in Nat,
           HasChildren(d, active, n), NEW b, NEW S, S \subseteq Eligible(d, b, ZeroConf),
           NEW a \in Acct, NEW s \in Slates, NEW kern \in Kern, NEW ttl \in Nat,
           NEW kind \in {"Send", "Pay"}
    PROVE  /\ QuietChange(d, next_child(d, active, n))
           /\ QuietChange(d, SaveContext(next_child(d, active, n), s,
                                         Selected(d, kind, S, n, a, kern, ttl)))
<1> DEFINE d1 == next_child(d, active, n)
           c == Selected(d, kind, S, n, a, kern, ttl)
<1>1. c \in Context
  BY SelectedKeeps
<1>2. QuietChange(d, d1)
  BY NextChildLog
<1> HIDE DEF d1, c
<1>3. QuietChange(d1, SaveContext(d1, s, c))
  BY <1>1, <1>2, SaveContextLog DEF QuietChange
<1> QED
  BY <1>2, <1>3, QuietThen DEF d1, c

(* Storing a finished transaction saves an entry that is there again, with *)
(* its kernel.                                                             *)
LEMMA StoredLog ==
    ASSUME OneAccount, NEW d, GoodLog(d), NEW s \in Slates,
           NEW type \in {"TxSent", "TxReceived"}, NEW kern \in Kern,
           EntriesToFinish(d, s, type) # {}, active \in Acct
    PROVE  /\ QuietChange(d, Stored(d, s, type, kern))
           /\ QuietChange(d, Closed(d, s, type, kern))
           /\ QuietChange(d, Finished(d, s, type, kern))
<1> DEFINE P == EntriesToFinish(d, s, type)
           p == First(P)
           e == Entry(d, p)
           f == [e EXCEPT !.kern = kern]
           d1 == Stored(d, s, type, kern)
           d2 == Closed(d, s, type, kern)
<1>0. d \in WalletDB
  BY DEF GoodLog
<1>1. P \subseteq Pos /\ P \subseteq Written(d)
  BY DEF EntriesToFinish, TxsWithSlate, Written
<1>2. p \in P
  BY <1>1, FirstIn
<1>3. e.type = type /\ e.slate = s /\ p \in Written(d) /\ p \in Pos
  BY <1>1, <1>2 DEF EntriesToFinish, TxsWithSlate
<1>4. e \in TxLogEntry /\ e.acct = 0 /\ p = <<e.acct, e.id>> /\ e.acct \in Acct
  <2> HIDE DEF p
  <2> QED
    BY <1>0, <1>3, Places DEF GoodLog, LogOK
<1> HIDE DEF P, p
<1>5. d1 = SaveEntry(d, e.acct, f)
  BY DEF Stored, update_stored_tx, P, p
<1> HIDE DEF e
<1>6. /\ f \in TxLogEntry /\ f.type = e.type /\ f.id = e.id /\ f.slate = s
      /\ SameEntry(e, f) /\ Calm(e, f) /\ f.type # "None"
  BY <1>3, <1>4 DEF TxLogEntry, SameEntry, Calm, Related
<1> HIDE DEF f, d1
<1>7. QuietChange(d, d1)
  BY <1>3, <1>4, <1>5, <1>6, SaveAgain DEF e
<1>8. QuietChange(d1, d2) /\ d2.txlog = d1.txlog
  <2>1. d2 = SaveContext(d1, s, NoContext)
    BY DEF Closed, DeleteContext, d1
  <2>2. d1 \in WalletDB /\ GoodLog(d1)
    BY <1>7 DEF QuietChange, GoodLog
  <2> HIDE DEF d2
  <2>3. QuietChange(d1, d2)
    BY <2>1, <2>2, SaveContextLog, NothingTyped
  <2>4. d2.txlog = d1.txlog
    BY <2>1, <2>2 DEF SaveContext, WalletDB
  <2> QED
    BY <2>3, <2>4
<1> HIDE DEF d2
<1>9. QuietChange(d, d2) /\ GoodLog(d2)
  BY <1>7, <1>8, QuietThen DEF QuietChange
<1>10. p \in TxsWithSlate(d2, s)
  <2>1. e.id \in Ids
    BY <1>4 DEF TxLogEntry
  <2>2. d1.txlog[e.acct][e.id] = f
    BY <1>0, <1>4, <1>5, <1>6, <2>1 DEF SaveEntry, WalletDB
  <2>3. Entry(d2, p) = f
    BY <1>4, <1>8, <2>2 DEF Entry
  <2> QED
    BY <1>3, <1>6, <2>3 DEF TxsWithSlate, Written
<1>11. QuietChange(d2, update_tx_slate_state(d2, active, s))
  BY <1>9, <1>10, SlateStateLog
<1>12. QuietChange(d, update_tx_slate_state(d2, active, s))
  BY <1>9, <1>11, QuietThen
<1> QED
  BY <1>7, <1>9, <1>12 DEF Finished, d1, d2

(* init_send_tx leaves the log alone but for its refresh.                  *)
LEMMA SendLog ==
    ASSUME OneAccount, LogInv, NEW s \in SendSlates, NEW a \in Acct, init_send_tx(s, a)
    PROVE  LogStep
<1>1. PICK d \in Refreshed(db, a), n \in 0 .. MaxChange, b \in Ttls :
      \E S \in (SUBSET Eligible(d, a, ZeroConf)) \ {{}} :
          /\ HasChildren(d, active, n)
          /\ LET d1 == next_child(d, active, n)
                 c == Selected(d, "Send", S, n, a, NoKern, Expiry(b))
             IN  Call({d, d1}, SaveContext(d1, s, c),
                      /\ issued' = issued \cup {s}
                      /\ UNCHANGED <<chain, signed, reorgs>>)
  BY DEF init_send_tx
<1>2. PICK S \in (SUBSET Eligible(d, a, ZeroConf)) \ {{}} :
          /\ HasChildren(d, active, n)
          /\ LET d1 == next_child(d, active, n)
                 c == Selected(d, "Send", S, n, a, NoKern, Expiry(b))
             IN  Call({d, d1}, SaveContext(d1, s, c),
                      /\ issued' = issued \cup {s}
                      /\ UNCHANGED <<chain, signed, reorgs>>)
  BY <1>1
<1> DEFINE d1 == next_child(d, active, n)
           d2 == SaveContext(d1, s, Selected(d, "Send", S, n, a, NoKern, Expiry(b)))
<1>3. GoodLog(d) /\ QuietChange(db, d) /\ GoodDb(d)
  BY CallRefreshLog, LogFacts, RefreshedKeeps
<1>4. n \in Nat /\ Expiry(b) \in Nat /\ s \in Slates /\ NoKern \in Kern
  BY LogFacts, ExpiryNat, RolesTyped, NothingTyped, CoreAssumption
<1>5. QuietChange(d, d1) /\ QuietChange(d, d2)
  BY <1>2, <1>3, <1>4, LogFacts, SelectedLog
<1>6. db' \in {d, d1, d2} /\ WalletStep
  BY <1>2 DEF Call, WalletStep
<1> HIDE DEF d1, d2
<1>7. QuietChange(db, db')
  BY <1>3, <1>5, <1>6, QuietThen
<1> QED
  BY <1>6, <1>7, ApiLog

(* init_send_tx with late locking leaves the log alone but for its refresh.*)
LEMMA SendLateLog ==
    ASSUME OneAccount, LogInv, NEW s \in SendSlates, NEW a \in Acct, init_send_tx_late(s, a)
    PROVE  LogStep
<1>1. PICK d \in Refreshed(db, a), b \in Ttls :
          LET c == [NoContext EXCEPT !.kind = "Late", !.acct = a, !.ttl = Expiry(b)]
          IN  Call({d}, SaveContext(d, s, c),
                   /\ issued' = issued \cup {s}
                   /\ UNCHANGED <<chain, signed, reorgs>>)
  BY DEF init_send_tx_late
<1> DEFINE c == [NoContext EXCEPT !.kind = "Late", !.acct = a, !.ttl = Expiry(b)]
           d1 == SaveContext(d, s, c)
<1>2. GoodLog(d) /\ QuietChange(db, d)
  BY CallRefreshLog
<1>3. s \in Slates /\ c \in Context
  BY LogFacts, ExpiryNat, RolesTyped, NothingTyped DEF NoContext, Context
<1>4. db' \in {d, d1} /\ WalletStep
  BY <1>1 DEF Call, WalletStep
<1> HIDE DEF c
<1>5. QuietChange(d, d1)
  BY <1>2, <1>3, SaveContextLog
<1> HIDE DEF d1
<1>6. QuietChange(db, db')
  BY <1>2, <1>4, <1>5, QuietThen
<1> QED
  BY <1>4, <1>6, ApiLog

(* A failed selection: at most a refresh happened.                         *)
LEMMA FailLog ==
    ASSUME OneAccount, LogInv, NEW a \in Acct, SelectionFails(a)
    PROVE  LogStep
<1>1. PICK d \in Refreshed(db, a) : db' = d /\ WalletStep
  BY DEF SelectionFails, Call, WalletStep
<1> QED
  BY <1>1, CallRefreshLog, ApiLog

(* tx_lock_outputs writes one new entry.                                   *)
LEMMA TxLockLog ==
    ASSUME OneAccount, LogInv, NEW s \in Slates, tx_lock_outputs(s)
    PROVE  LogStep
<1>1. QuietChange(db, db') /\ WalletStep
  BY LogFacts, LockLog DEF tx_lock_outputs, WalletStep
<1> QED
  BY <1>1, ApiLog

(* Finishing a slate saves its entry again.                                *)
LEMMA FinishLog ==
    ASSUME OneAccount, LogInv, NEW d, QuietChange(db, d), NEW s \in Slates,
           NEW type \in {"TxSent", "TxReceived"}, NEW kern \in Kern,
           EntriesToFinish(d, s, type) # {}, Finish(d, s, type, kern)
    PROVE  LogStep
<1>1. GoodLog(d) /\ active \in Acct
  BY LogFacts DEF QuietChange
<1>2. QuietChange(d, db')
  BY <1>1, StoredLog, QuietSelf DEF Finish
<1>3. QuietChange(db, db') /\ WalletStep
  BY <1>2, QuietThen DEF Finish, WalletStep
<1> QED
  BY <1>3, ApiLog

(* finalize_tx of a payment or an invoice.                                 *)
LEMMA FinalizeLog ==
    ASSUME OneAccount, LogInv, NEW s \in Slates, finalize_tx(s) \/ finalize_invoice(s)
    PROVE  LogStep
<1>1. CASE finalize_tx(s)
  <2>1. SendKern(s) \in Kern
    BY DEF SendKern, Kern
  <2> QED
    BY <1>1, <2>1, LogFacts, FinishLog DEF finalize_tx, CanFinish
<1>2. CASE finalize_invoice(s)
  <2>1. db.ctxs[s] \in Context
    BY LogFacts DEF WalletDB
  <2>2. <<s, db.ctxs[s].outs>> \in Kern
    BY <2>1 DEF Kern, Context
  <2> QED
    BY <1>2, <2>2, LogFacts, FinishLog DEF finalize_invoice
<1> QED
  BY <1>1, <1>2

(* finalize_tx of a late-locked payment: selection, lock and finish.       *)
LEMMA FinalizeLateLog ==
    ASSUME OneAccount, LogInv, NEW s \in Slates, finalize_tx_late(s)
    PROVE  LogStep
<1> DEFINE a == db.ctxs[s].acct
           ttl == db.ctxs[s].ttl
           d1(n) == next_child(db, active, n)
           d2(n, S) == SaveContext(d1(n), s, Selected(db, "Send", S, n, a, NoKern, ttl))
           d3(n, S) == lock_tx_context(d2(n, S), s)
<1>1. PICK n \in 0 .. MaxChange : \E S \in (SUBSET Eligible(db, active, ZeroConf)) \ {{}} :
          /\ HasChildren(db, active, n) /\ HasIds(db, a, 1)
          /\ \/ CanFinish(d3(n, S), s) /\ Finish(d3(n, S), s, "TxSent", SendKern(s))
             \/ ~CanFinish(d3(n, S), s) /\ Call({}, d3(n, S), UNCHANGED world)
             \/ db' \in {d1(n), d2(n, S), d3(n, S)} /\ Restart /\ UNCHANGED world
             \/ Call({}, d1(n), UNCHANGED world)
  BY DEF finalize_tx_late
<1>2. PICK S \in (SUBSET Eligible(db, active, ZeroConf)) \ {{}} :
          /\ HasChildren(db, active, n) /\ HasIds(db, a, 1)
          /\ \/ CanFinish(d3(n, S), s) /\ Finish(d3(n, S), s, "TxSent", SendKern(s))
             \/ ~CanFinish(d3(n, S), s) /\ Call({}, d3(n, S), UNCHANGED world)
             \/ db' \in {d1(n), d2(n, S), d3(n, S)} /\ Restart /\ UNCHANGED world
             \/ Call({}, d1(n), UNCHANGED world)
  BY <1>1
<1> DEFINE c == Selected(db, "Send", S, n, a, NoKern, ttl)
           e1 == d1(n)
           e2 == d2(n, S)
           e3 == d3(n, S)
<1>3. n \in Nat /\ NoKern \in Kern /\ a \in Acct /\ ttl \in Nat
  <2>1. db.ctxs[s] \in Context
    BY LogFacts DEF WalletDB
  <2> QED
    BY <2>1, NothingTyped, CoreAssumption DEF Context
<1>4. QuietChange(db, e1) /\ QuietChange(db, e2)
  BY <1>2, <1>3, LogFacts, SelectedLog
<1>5. GoodLog(e2) /\ e2.ctxs[s].acct = a /\ e2.nextTx = db.nextTx
  <2>1. e1 \in WalletDB /\ GoodLog(e2)
    BY <1>4 DEF QuietChange, GoodLog
  <2>2. e1.nextTx = db.nextTx
    BY LogFacts DEF next_child, WalletDB
  <2>3. c.acct = a
    BY DEF Selected
  <2> HIDE DEF e1, c
  <2>4. e2 = SaveContext(e1, s, c)
    BY DEF e1, c
  <2> QED
    BY <2>1, <2>2, <2>3, <2>4 DEF SaveContext, WalletDB
<1>6. QuietChange(db, e3)
  <2> HIDE DEF d2
  <2>1. QuietChange(e2, e3)
    BY <1>2, <1>5, LockLog DEF HasIds
  <2> QED
    BY <1>4, <2>1, QuietThen
<1>7. CASE CanFinish(e3, s) /\ Finish(e3, s, "TxSent", SendKern(s))
  <2>1. SendKern(s) \in Kern
    BY DEF SendKern, Kern
  <2> HIDE DEF d3
  <2> QED
    BY <1>6, <1>7, <2>1, FinishLog DEF CanFinish
<1>8. CASE db' \in {e1, e2, e3} /\ WalletStep
  <2> HIDE DEF d1, d2, d3
  <2> QED
    BY <1>4, <1>6, <1>8, ApiLog
<1> QED
  <2> HIDE DEF d1, d2, d3
  <2> QED
    BY <1>2, <1>7, <1>8 DEF Call, WalletStep

(* receive_tx writes one new entry, gives it its kernel and saves it again,*)
(* wherever it stops.                                                      *)
LEMMA ReceiveLog ==
    ASSUME OneAccount, LogInv, NEW s \in Slates, NEW a \in Acct, receive_tx(s, a)
    PROVE  LogStep
<1> DEFINE k == <<active, db.nextChild[active]>>
           d1 == next_child(db, active, 1)
           i == db.nextTx[a]
           tx == [EmptyBlock EXCEPT !.outs = {k}, !.kern = <<s, {k}>>]
           d2(b) == build_recipient_output(d1, s, k, a, Expiry(b))
           d3(b) == [d2(b) EXCEPT !.txlog[a][i].kern = <<s, {k}>>]
<1>1. HasChildren(db, active, 1) /\ HasIds(db, a, 1)
  BY DEF receive_tx
<1>2. PICK b \in Ttls :
        Call({d1, d2(b), d3(b)}, update_tx_slate_state(d3(b), a, s), Sign(tx))
  BY DEF receive_tx
<1>3. k \in Key /\ QuietChange(db, d1) /\ GoodLog(d1) /\ d1.nextTx = db.nextTx
  BY <1>1, LogFacts, OneChild, NextChildLog DEF QuietChange
<1> HIDE DEF d1, k
<1>4. Expiry(b) \in Nat
  BY LogFacts, ExpiryNat
<1> DEFINE e2 == d2(b)
           e3 == d3(b)
           e4 == update_tx_slate_state(e3, a, s)
           r == ReceivedEntry(d1, s, a, Expiry(b))
           f == [r EXCEPT !.kern = <<s, {k}>>]
<1>5. /\ QuietChange(d1, e2) /\ r \in TxLogEntry /\ r.id = i /\ r.slate = s
      /\ Entry(e2, <<a, i>>) = r /\ <<a, i>> \in Written(e2)
  <2>1. GoodLog(d1) /\ HasIds(d1, a, 1)
    BY <1>1, <1>3 DEF HasIds
  <2>2. /\ QuietChange(d1, e2) /\ r \in TxLogEntry /\ r.id = d1.nextTx[a]
        /\ r.slate = s
        /\ Entry(e2, <<a, r.id>>) = r /\ <<a, r.id>> \in Written(e2)
    <3>1. ASSUME NEW n \in Nat
          PROVE  LET e == build_recipient_output(d1, s, k, a, n)
                     g == ReceivedEntry(d1, s, a, n)
                 IN  /\ QuietChange(d1, e)
                     /\ g \in TxLogEntry /\ g.id = d1.nextTx[a] /\ g.slate = s
                     /\ Entry(e, <<a, g.id>>) = g /\ <<a, g.id>> \in Written(e)
      BY <1>3, <2>1, RecipientLog
    <3> QED
      BY <1>4, <3>1
  <2> QED
    BY <1>3, <2>2
<1>6. /\ f \in TxLogEntry /\ f.id = i /\ f.slate = s /\ f.type # "None"
      /\ SameEntry(r, f) /\ Calm(r, f)
  <2>1. <<s, {k}>> \in Kern
    BY <1>3 DEF Kern
  <2>2. r.type = "TxReceived"
    BY DEF ReceivedEntry
  <2> HIDE DEF r
  <2> QED
    BY <1>5, <2>1, <2>2 DEF TxLogEntry, SameEntry, Calm, Related
<1>7. GoodLog(e2) /\ e2 \in WalletDB /\ i \in Ids
  BY <1>5 DEF QuietChange, GoodLog, TxLogEntry
<1>8. e3 = SaveEntry(e2, a, f)
  <2>1. e2.txlog[a][i] = r
    BY <1>5 DEF Entry
  <2> HIDE DEF e2, r
  <2>2. e3 = [e2 EXCEPT !.txlog[a][i].kern = <<s, {k}>>]
    BY DEF e2
  <2> QED
    BY <1>6, <1>7, <2>1, <2>2 DEF SaveEntry, WalletDB
<1> HIDE DEF d2, d3, r, f
<1>9. QuietChange(e2, e3) /\ GoodLog(e3)
  BY <1>5, <1>6, <1>7, <1>8, SaveAgain DEF QuietChange
<1>10. <<a, i>> \in TxsWithSlate(e3, s)
  BY <1>6, <1>7, <1>8, SaveEffect DEF TxsWithSlate
<1>11. QuietChange(e3, e4)
  BY <1>9, <1>10, SlateStateLog
<1>12. QuietChange(db, e2) /\ QuietChange(db, e3) /\ QuietChange(db, e4)
  BY <1>3, <1>5, <1>9, <1>11, QuietThen
<1>13. WalletStep /\ db' \in {d1, e2, e3, e4}
  BY <1>2 DEF Call, WalletStep
<1> HIDE DEF e4
<1> QED
  BY <1>3, <1>12, <1>13, ApiLog

(* issue_invoice_tx writes one new entry.                                  *)
LEMMA IssueLog ==
    ASSUME OneAccount, LogInv, NEW s \in Slates, NEW a \in Acct, issue_invoice_tx(s, a)
    PROVE  LogStep
<1> DEFINE k == <<active, db.nextChild[active]>>
           d1 == next_child(db, active, 1)
           d2 == build_recipient_output(d1, s, k, a, 0)
           c == [NoContext EXCEPT !.kind = "Invoice", !.outs = {k}, !.acct = a]
           d3 == SaveContext(d2, s, c)
<1>1. /\ HasChildren(db, active, 1) /\ HasIds(db, a, 1)
      /\ Call({d1, d2}, d3, /\ issued' = issued \cup {s}
                            /\ UNCHANGED <<chain, signed, reorgs>>)
  BY DEF issue_invoice_tx
<1>2. k \in Key /\ QuietChange(db, d1) /\ GoodLog(d1) /\ d1.nextTx = db.nextTx
  BY <1>1, LogFacts, OneChild, NextChildLog DEF QuietChange
<1> HIDE DEF d1, k
<1>3. QuietChange(d1, d2) /\ GoodLog(d2)
  BY <1>1, <1>2, RecipientLog DEF HasIds, QuietChange
<1> HIDE DEF d2
<1>4. c \in Context
  BY <1>2, NothingTyped DEF NoContext, Context
<1> HIDE DEF c
<1>5. QuietChange(d2, d3)
  BY <1>3, <1>4, SaveContextLog
<1>6. db' \in {d1, d2, d3} /\ WalletStep
  BY <1>1 DEF Call, WalletStep
<1> HIDE DEF d3
<1>7. QuietChange(db, db')
  BY <1>2, <1>3, <1>5, <1>6, QuietThen
<1> QED
  BY <1>6, <1>7, ApiLog

(* process_invoice_tx leaves the log alone but for its refresh.            *)
LEMMA PayLog ==
    ASSUME OneAccount, LogInv, NEW s \in Slates, NEW a \in Acct, process_invoice_tx(s, a)
    PROVE  LogStep
<1> DEFINE kern(d, n, S) == <<s, KeysOf(S) \cup NewKeys(d, active, n)>>
           c(d, n, b, S) == Selected(d, "Pay", S, n, a, kern(d, n, S), Expiry(b))
<1>1. PICK d \in Refreshed(db, a), n \in 0 .. MaxChange, b \in Ttls :
      \E S \in (SUBSET Eligible(d, a, ZeroConf)) \ {{}} :
          /\ HasChildren(d, active, n)
          /\ Call({d, next_child(d, active, n)},
                  SaveContext(next_child(d, active, n), s, c(d, n, b, S)),
                  Sign(SignedTx(c(d, n, b, S), kern(d, n, S))))
  BY DEF process_invoice_tx
<1>2. PICK S \in (SUBSET Eligible(d, a, ZeroConf)) \ {{}} :
          /\ HasChildren(d, active, n)
          /\ Call({d, next_child(d, active, n)},
                  SaveContext(next_child(d, active, n), s, c(d, n, b, S)),
                  Sign(SignedTx(c(d, n, b, S), kern(d, n, S))))
  BY <1>1
<1> DEFINE d1 == next_child(d, active, n)
           e == kern(d, n, S)
           d2 == SaveContext(d1, s, c(d, n, b, S))
<1>3. GoodLog(d) /\ QuietChange(db, d) /\ GoodDb(d)
  BY CallRefreshLog, LogFacts, RefreshedKeeps
<1>4. n \in Nat /\ Expiry(b) \in Nat
  BY LogFacts, ExpiryNat, CoreAssumption
<1>5. e \in Kern
  <2>1. KeysOf(S) \subseteq Key
    BY <1>3, EligibleDerived
  <2>2. NewKeys(d, active, n) \subseteq Key
    BY <1>2, <1>3, <1>4, LogFacts, NewKeysType DEF GoodDb
  <2> QED
    BY <2>1, <2>2 DEF Kern
<1> HIDE DEF kern
<1>6. QuietChange(d, d1) /\ QuietChange(d, d2)
  BY <1>2, <1>3, <1>4, <1>5, LogFacts, SelectedLog
<1>7. db' \in {d, d1, d2} /\ WalletStep
  BY <1>2 DEF Call, WalletStep
<1> HIDE DEF d1, d2
<1>8. QuietChange(db, db')
  BY <1>3, <1>6, <1>7, QuietThen
<1> QED
  BY <1>7, <1>8, ApiLog

(* build_coinbase saves an output that has no entry yet.                   *)
LEMMA CoinbaseLog ==
    ASSUME OneAccount, LogInv, NEW n \in 1 .. MaxHeight, build_coinbase(n)
    PROVE  LogStep
<1> DEFINE old == KeysOf({x \in Slot : /\ ~x[2] /\ db.outs[x].cb > 0
                                       /\ db.outs[x].status = "Unconfirmed"})
           isnew(k) == k \in NewKeys(db, active, 1)
           d1(k) == IF isnew(k) THEN next_child(db, active, 1) ELSE db
           o == [root |-> active, status |-> "Unconfirmed", tx |-> -1, cb |-> n]
           tx(k) == [ins |-> {}, outs |-> {k}, kern |-> <<NoSlate, {k}>>, cb |-> n]
<1>1. PICK k \in old \cup NewKeys(db, active, 1) :
        /\ isnew(k) => HasChildren(db, active, 1)
        /\ Call({d1(k)}, SaveOutput(d1(k), <<k, FALSE>>, o), Sign(tx(k)))
  BY DEF build_coinbase
<1> DEFINE e1 == d1(k)
           e2 == SaveOutput(e1, <<k, FALSE>>, o)
<1>2. k \in Key /\ QuietChange(db, e1) /\ GoodLog(e1)
  <2>1. CASE isnew(k)
    BY <1>1, <2>1, LogFacts, OneChild, NextChildLog DEF QuietChange
  <2>2. CASE ~isnew(k)
    <3>1. PICK x \in Slot : x[1] = k
      BY <1>1, <2>2 DEF KeysOf
    <3> QED
      BY <2>2, <3>1, LogFacts DEF Slot
  <2> QED
    BY <2>1, <2>2
<1> HIDE DEF d1
<1>3. o \in OutputData /\ o.tx = -1 /\ <<k, FALSE>> \in Slot
  <2>1. n \in Nat /\ active \in Acct
    BY LogFacts, CoreAssumption
  <2> QED
    BY <1>2, <2>1 DEF OutputData, OutputStatus, Slot
<1> HIDE DEF o
<1>4. QuietChange(e1, e2)
  BY <1>2, <1>3, SaveOutputLog
<1> HIDE DEF e1, e2
<1>5. db' \in {e1, e2} /\ WalletStep
  BY <1>1 DEF Call, WalletStep, e1, e2
<1>6. QuietChange(db, db')
  BY <1>2, <1>4, <1>5, QuietThen
<1> QED
  BY <1>5, <1>6, ApiLog

(* Every API call is a good step for the log.                              *)
LEMMA ApiCallLog ==
    ASSUME OneAccount, LogInv, ApiCall
    PROVE  LogStep
<1>1. ASSUME NEW a \in Acct, set_active_account(a)
      PROVE  LogStep
  <2>1. UNCHANGED <<db, th>>
    BY <1>1 DEF set_active_account
  <2> QED
    BY <2>1, LogFacts, QuietFacts DEF LogStep, GoodLog
<1> QED
  BY <1>1, RolesTyped, SendLog, SendLateLog, FailLog, TxLockLog, FinalizeLog,
     FinalizeLateLog, ReceiveLog, IssueLog, PayLog, CoinbaseLog
  DEF ApiCall


-----------------------------------------------------------------------------
(* Threads                                                                 *)

(* A thread that only forgets copies, and is not about to confirm any,     *)
(* still remembers the log well.                                           *)
LEMMA ForgetLog ==
    ASSUME NEW d, NEW q, ThreadLog(d, q), NEW r,
           r.txs \subseteq q.txs, r.todo \subseteq q.txs \cup q.todo,
           r.outs = q.outs \/ r.outs = NoOutputs,
           r.pc \notin {"kernels", "kernel", "confirm"}
    PROVE  ThreadLog(d, r)
<1>1. \A x \in Slot : NoOutputs[x].tx = -1
  BY DEF NoOutputs, NoOutput
<1> HIDE DEF NoOutputs
<1>2. \A x \in Slot : r.outs[x].tx # -1 =>
          <<r.outs[x].root, r.outs[x].tx>> \in Written(d)
  BY <1>1 DEF ThreadLog
<1>3. \A e \in r.txs \cup r.todo : Copy(d, e)
  BY DEF ThreadLog
<1> QED
  BY <1>2, <1>3 DEF ThreadLog

(* A step that touches only a thread, not the database.                    *)
LEMMA ThreadOnlyLog ==
    ASSUME LogInv, NEW t \in Threads, NEW r, Become(t, r), db' = db, ThreadLog(db, r)
    PROVE  LogStep
<1>1. GoodLog(db) /\ Kept(db, db) /\ Stepped(db, db)
  BY LogFacts, QuietFacts
<1>2. GoodLog(db') /\ Kept(db, db') /\ Stepped(db, db') /\ ThreadLog(db', r)
  BY <1>1
<1> QED
  BY <1>2, ThreadLogStep

(* A step that cancels nothing; the thread remembers no more than before.  *)
LEMMA ThreadQuietLog ==
    ASSUME LogInv, NEW t \in Threads, NEW r, Become(t, r), QuietChange(db, db'),
           r.txs \subseteq th[t].txs, r.todo \subseteq th[t].txs \cup th[t].todo,
           r.outs = th[t].outs \/ r.outs = NoOutputs,
           r.pc \notin {"kernels", "kernel", "confirm"}
    PROVE  LogStep
<1>1. GoodLog(db') /\ Kept(db, db') /\ Stepped(db, db') /\ Quiet(db, db')
  BY QuietFacts
<1>2. ThreadLog(db', th[t])
  BY <1>1, LogFacts, ThreadLogStays
<1>3. ThreadLog(db', r)
  BY <1>2, ForgetLog
<1> QED
  BY <1>1, <1>3, ThreadLogStep

(* A step that cancels; the thread is not about to confirm anything.       *)
LEMMA ThreadCancelLog ==
    ASSUME LogInv, NEW t \in Threads, NEW r, Become(t, r),
           GoodLog(db'), Kept(db, db'), Stepped(db, db'),
           th[t].pc \notin {"kernels", "kernel", "confirm"},
           r.txs \subseteq th[t].txs, r.todo \subseteq th[t].txs \cup th[t].todo,
           r.outs = th[t].outs \/ r.outs = NoOutputs,
           r.pc \notin {"kernels", "kernel", "confirm"}
    PROVE  LogStep
<1>1. ASSUME NEW c, Copy(db, c)
      PROVE  Copy(db', c)
  BY <1>1 DEF Copy, Kept, SameEntry
<1>2. ThreadLog(db', th[t])
  BY <1>1, LogFacts DEF ThreadLog, Kept
<1>3. ThreadLog(db', r)
  BY <1>2, ForgetLog
<1> QED
  BY <1>3, ThreadLogStep

(* An idle thread has nothing to forget.                                   *)
LEMMA IdleFields ==
    /\ Idle.txs = {} /\ Idle.todo = {} /\ Idle.outs = NoOutputs /\ Idle.pc = "idle"
  BY DEF Idle

(* Starting a job.                                                         *)
LEMMA StartLog ==
    ASSUME LogInv, NEW t \in Threads, NEW job, NEW del, NEW s, NEW i,
           Start(t, job, del, s, i)
    PROVE  LogStep
<1> DEFINE r == [Idle EXCEPT !.pc = "refresh", !.job = job, !.del = del,
                             !.target = s, !.id = i, !.acct = active]
<1>1. r.txs = {} /\ r.todo = {} /\ r.outs = NoOutputs /\ r.pc = "refresh"
  BY DEF Idle
<1>2. Become(t, r) /\ db' = db
  BY DEF Start, NoDbStep
<1> HIDE DEF r
<1> QED
  BY <1>1, <1>2, LogFacts, ThreadQuietLog

(* The refresh of an update or a scan.                                     *)
LEMMA RefreshStepLog ==
    ASSUME OneAccount, LogInv, NEW t \in Threads, RefreshStep(t)
    PROVE  LogStep
<1>1. th[t] \in ThreadState
  BY LogFacts
<1>2. CASE RefreshTip(t)
  <2> DEFINE r == [Goto(t, "outputs") EXCEPT !.h = Height]
  <2>1. r.txs = th[t].txs /\ r.todo = th[t].todo /\ r.outs = th[t].outs /\ r.pc = "outputs"
    BY <1>1 DEF ThreadState, Goto
  <2>2. Become(t, r) /\ db' = db
    BY <1>2 DEF RefreshTip
  <2> HIDE DEF r
  <2> QED
    BY <2>1, <2>2, LogFacts, ThreadQuietLog
<1>3. CASE RefreshOutputs(t)
  <2> DEFINE r == [Goto(t, "apply") EXCEPT !.api = Utxo]
  <2>1. r.txs = th[t].txs /\ r.todo = th[t].todo /\ r.outs = th[t].outs /\ r.pc = "apply"
    BY <1>1 DEF ThreadState, Goto
  <2>2. Become(t, r) /\ db' = db
    BY <1>3 DEF RefreshOutputs, NoDbStep
  <2> HIDE DEF r
  <2> QED
    BY <2>1, <2>2, LogFacts, ThreadQuietLog
<1>4. CASE RefreshApply(t)
  <2> DEFINE all == th[t].job = "scan"
             pc == IF all THEN "tip" ELSE "txs"
             r == [Goto(t, pc) EXCEPT !.api = {}, !.h = 0]
  <2>1. pc \notin {"kernels", "kernel", "confirm"}
    OBVIOUS
  <2>2. /\ RefreshHasIds(db, active, all, th[t].api)
        /\ db' = refresh_output_state(db, active, all, th[t].h, th[t].api, Kernels)
        /\ Become(t, r)
    BY <1>4 DEF RefreshApply
  <2> HIDE DEF all, pc
  <2>3. r.txs = th[t].txs /\ r.todo = th[t].todo /\ r.outs = th[t].outs /\ r.pc = pc
    BY <1>1 DEF ThreadState, Goto
  <2>4. QuietChange(db, db')
    <3>1. th[t].h \in Nat
      BY <1>1 DEF ThreadState
    <3> QED
      BY <2>2, <3>1, LogFacts, RefreshLog
  <2> HIDE DEF r
  <2> QED
    BY <2>1, <2>2, <2>3, <2>4, ThreadQuietLog
<1> QED
  BY <1>2, <1>3, <1>4 DEF RefreshStep


(* An update copies the entries that are outstanding.                      *)
LEMMA SnapshotTxsLog ==
    ASSUME OneAccount, LogInv, NEW t \in Threads, SnapshotTxs(t)
    PROVE  LogStep
<1> DEFINE txs == OutstandingTxs(db, th[t].acct)
           r == [Goto(t, "kernels") EXCEPT !.txs = txs]
<1>1. th[t] \in ThreadState /\ ThreadLog(db, th[t]) /\ GoodLog(db)
  BY LogFacts
<1>2. ASSUME NEW e \in txs PROVE Copy(db, e) /\ UpToDate(db, e)
  <2>1. PICK p \in Written(db) : e = Entry(db, p)
    BY <1>2 DEF OutstandingTxs, TxsOf
  <2>2. Place(e) = p
    <3>1. p \in Pos /\ db \in WalletDB
      BY <1>1 DEF Written, GoodLog
    <3> QED
      BY <1>1, <2>1, <3>1, Places DEF Place, GoodLog, LogOK
  <2>3. e.type # "None"
    BY <2>1 DEF Written
  <2> QED
    BY <2>1, <2>2, <2>3 DEF Copy, UpToDate, SameEntry, Related
<1>3. Become(t, r) /\ db' = db
  BY DEF SnapshotTxs, NoDbStep
<1> HIDE DEF txs
<1>4. r.txs = txs /\ r.todo = th[t].todo /\ r.outs = th[t].outs /\ r.pc = "kernels"
  BY <1>1 DEF ThreadState, Goto
<1> HIDE DEF r
<1>5. ThreadLog(db, r)
  BY <1>1, <1>2, <1>4 DEF ThreadLog
<1> QED
  BY <1>3, <1>5, ThreadOnlyLog

(* The entries whose kernels are looked up are among the copies.           *)
LEMMA StartKernelsLog ==
    ASSUME LogInv, NEW t \in Threads, StartKernels(t)
    PROVE  LogStep
<1> DEFINE todo == {e \in th[t].txs : ~(e.debit /\ e.credit) /\ e.kern # NoKern}
           r == [Goto(t, "kernel") EXCEPT !.acct = active, !.h = Height, !.todo = todo]
<1>1. th[t] \in ThreadState /\ ThreadLog(db, th[t])
  BY LogFacts
<1>2. todo \subseteq th[t].txs
  OBVIOUS
<1>3. Become(t, r) /\ db' = db /\ th[t].pc = "kernels"
  BY DEF StartKernels, NoDbStep, At
<1> HIDE DEF todo
<1>4. r.txs = th[t].txs /\ r.todo = todo /\ r.outs = th[t].outs /\ r.pc = "kernel"
  BY <1>1 DEF ThreadState, Goto
<1> HIDE DEF r
<1>5. ThreadLog(db, r)
  BY <1>1, <1>2, <1>3, <1>4 DEF ThreadLog
<1> QED
  BY <1>3, <1>5, ThreadOnlyLog

(* A copy that is marked confirmed is still a copy.                        *)
LEMMA LookupKernelLog ==
    ASSUME LogInv, NEW t \in Threads, NEW e \in th[t].todo, LookupKernel(t, e)
    PROVE  LogStep
<1> DEFINE f == [e EXCEPT !.confirmed = TRUE]
           r1 == [Goto(t, "confirm") EXCEPT !.todo = (@ \ {e}) \cup {f}]
           r2 == [th[t] EXCEPT !.todo = @ \ {e}]
<1>1. th[t] \in ThreadState /\ ThreadLog(db, th[t])
  BY LogFacts
<1>2. /\ f.id = e.id /\ f.acct = e.acct /\ f.slate = e.slate /\ f.debit = e.debit
      /\ f.credit = e.credit /\ f.type = e.type
  <2>1. e \in TxLogEntry
    BY <1>1 DEF ThreadState
  <2> QED
    BY <2>1 DEF TxLogEntry
<1>3. (Become(t, r1) \/ Become(t, r2)) /\ db' = db /\ th[t].pc = "kernel"
  BY DEF LookupKernel, NoDbStep, At
<1> HIDE DEF f
<1>4. /\ r1.txs = th[t].txs /\ r1.todo = (th[t].todo \ {e}) \cup {f}
      /\ r1.outs = th[t].outs /\ r1.pc = "confirm"
      /\ r2.txs = th[t].txs /\ r2.todo = th[t].todo \ {e}
      /\ r2.outs = th[t].outs /\ r2.pc = "kernel"
  BY <1>1, <1>3 DEF ThreadState, Goto
<1> HIDE DEF r1, r2
<1>5. Copy(db, e) /\ (OneThread => UpToDate(db, e))
  BY <1>1, <1>3 DEF ThreadLog
<1>6. Copy(db, f) /\ (OneThread => UpToDate(db, f))
  BY <1>2, <1>5 DEF Copy, UpToDate, Place, SameEntry
<1>7. ThreadLog(db, r1)
  BY <1>1, <1>3, <1>4, <1>6 DEF ThreadLog
<1>8. ThreadLog(db, r2)
  BY <1>1, <1>3, <1>4 DEF ThreadLog
<1> QED
  BY <1>3, <1>7, <1>8, ThreadOnlyLog

(* The copy that is written back is of the entry that is there; with one   *)
(* thread nothing has cancelled that entry since it was copied.            *)
LEMMA SaveConfirmedLog ==
    ASSUME OneAccount, LogInv, NEW t \in Threads, NEW e \in th[t].todo, SaveConfirmed(t, e)
    PROVE  LogStep
<1> DEFINE r == [Goto(t, "kernel") EXCEPT !.todo = @ \ {e}]
           a == th[t].acct
           old == Entry(db, <<a, e.id>>)
<1>1. th[t] \in ThreadState /\ ThreadLog(db, th[t]) /\ GoodLog(db)
  BY LogFacts
<1>2. e \in TxLogEntry /\ a \in Acct /\ e.acct = a
  <2>1. e \in TxLogEntry /\ a \in Acct
    BY <1>1 DEF ThreadState
  <2> QED
    BY <2>1, OnlyAccount DEF TxLogEntry
<1>3. Become(t, r) /\ db' = SaveEntry(db, a, e) /\ e.confirmed /\ th[t].pc = "confirm"
  BY DEF SaveConfirmed, Section, At
<1>4. r.txs = th[t].txs /\ r.todo = th[t].todo \ {e} /\ r.outs = th[t].outs /\ r.pc = "kernel"
  BY <1>1 DEF ThreadState, Goto
<1> HIDE DEF r
<1>5. Copy(db, e) /\ (OneThread => UpToDate(db, e))
  BY <1>1, <1>3 DEF ThreadLog
<1>6. e.type # "None" /\ <<a, e.id>> \in Written(db) /\ SameEntry(old, e)
  BY <1>2, <1>5 DEF Copy, Place
<1>7. OneThread => Calm(old, e)
  BY <1>2, <1>3, <1>5, <1>6 DEF UpToDate, Place, Calm
<1> HIDE DEF a, old
<1>8. /\ GoodLog(db') /\ Kept(db, db')
      /\ OneThread => QuietChange(db, db')
  BY <1>1, <1>2, <1>3, <1>6, <1>7, SaveAgain DEF old
<1>9. OneThread => Stepped(db, db') /\ Quiet(db, db')
  BY <1>8, QuietFacts
<1>10. ThreadLog(db', th[t])
  BY <1>1, <1>8, <1>9, ThreadLogStays
<1>11. ThreadLog(db', r)
  BY <1>3, <1>4, <1>10 DEF ThreadLog
<1> QED
  BY <1>3, <1>8, <1>9, <1>11, ThreadLogStep

(* The kernel lookups of an update.                                        *)
LEMMA KernelStepLog ==
    ASSUME OneAccount, LogInv, NEW t \in Threads, KernelStep(t)
    PROVE  LogStep
<1>1. CASE KernelsDone(t)
  <2> DEFINE r == [Goto(t, "tip") EXCEPT !.h = 0]
  <2>1. th[t] \in ThreadState
    BY LogFacts
  <2>2. r.txs = th[t].txs /\ r.todo = th[t].todo /\ r.outs = th[t].outs /\ r.pc = "tip"
    BY <2>1 DEF ThreadState, Goto
  <2>3. Become(t, r) /\ db' = db
    BY <1>1 DEF KernelsDone, NoDbStep
  <2> HIDE DEF r
  <2> QED
    BY <2>2, <2>3, LogFacts, ThreadQuietLog
<1> QED
  BY <1>1, SnapshotTxsLog, StartKernelsLog, LookupKernelLog, SaveConfirmedLog
  DEF KernelStep


(* Repairing an output, first half: its entry is cancelled.                *)
LEMMA FixEntryLog ==
    ASSUME OneAccount, LogInv, NEW t \in Threads, NEW x \in th[t].fix, NEW pc, NEW next,
           FixEntry(t, x, pc, next),
           pc \notin {"kernels", "kernel", "confirm"},
           next \notin {"kernels", "kernel", "confirm"}
    PROVE  LogStep
<1> DEFINE r == [Goto(t, next) EXCEPT !.cur = {x}]
<1>1. th[t] \in ThreadState /\ GoodLog(db)
  BY LogFacts
<1>2. r.txs = th[t].txs /\ r.todo = th[t].todo /\ r.outs = th[t].outs /\ r.pc = next
  BY <1>1 DEF ThreadState, Goto
<1>3. /\ Become(t, r) /\ th[t].pc = pc
      /\ db' = cancel_tx_log_entry(db, x, th[t].outs[x])
  BY DEF FixEntry, Section, At
<1> HIDE DEF r
<1>4. x \in Slot
  BY <1>1 DEF ThreadState
<1>5. GoodLog(db') /\ Kept(db, db') /\ Stepped(db, db')
  BY <1>1, <1>3, <1>4, CancelLogLog
<1> QED
  BY <1>2, <1>3, <1>5, ThreadCancelLog

(* Second half: the copied record is written back, or the record removed.  *)
LEMMA FixOutputLog ==
    ASSUME LogInv, NEW t \in Threads, NEW x \in th[t].cur, NEW pc, NEW next,
           NEW o \in OutputData, FixOutput(t, x, pc, next, o),
           o.tx = -1 \/ <<o.root, o.tx>> \in Written(db),
           next \notin {"kernels", "kernel", "confirm"}
    PROVE  LogStep
<1> DEFINE r == [Goto(t, next) EXCEPT !.cur = {}, !.fix = @ \ {x}]
<1>1. th[t] \in ThreadState /\ GoodLog(db)
  BY LogFacts
<1>2. r.txs = th[t].txs /\ r.todo = th[t].todo /\ r.outs = th[t].outs /\ r.pc = next
  BY <1>1 DEF ThreadState, Goto
<1>3. Become(t, r) /\ db' = SaveOutput(db, x, o)
  BY DEF FixOutput, Section
<1> HIDE DEF r
<1>4. x \in Slot
  BY <1>1 DEF ThreadState
<1>5. QuietChange(db, db')
  BY <1>1, <1>3, <1>4, SaveOutputLog
<1> QED
  BY <1>2, <1>3, <1>5, ThreadQuietLog

(* The readings of a scan: the tip, the chain's outputs, the records.      *)
LEMMA ScanReadLog ==
    ASSUME LogInv, NEW t \in Threads,
           ScanTip(t) \/ collect_chain_outputs(t) \/ SnapshotOutputs(t)
    PROVE  LogStep
<1>1. th[t] \in ThreadState /\ ThreadLog(db, th[t]) /\ GoodLog(db)
  BY LogFacts
<1>2. CASE ScanTip(t)
  <2> DEFINE r == [Goto(t, "collect") EXCEPT !.h = Height]
  <2>1. r.txs = th[t].txs /\ r.todo = th[t].todo /\ r.outs = th[t].outs /\ r.pc = "collect"
    BY <1>1 DEF ThreadState, Goto
  <2>2. Become(t, r) /\ db' = db
    BY <1>2 DEF ScanTip, NoDbStep
  <2> HIDE DEF r
  <2> QED
    BY <2>1, <2>2, LogFacts, ThreadQuietLog
<1>3. CASE collect_chain_outputs(t)
  <2> DEFINE r == [Goto(t, "snapshot") EXCEPT !.found = UtxoUpTo(th[t].h)]
  <2>1. r.txs = th[t].txs /\ r.todo = th[t].todo /\ r.outs = th[t].outs /\ r.pc = "snapshot"
    BY <1>1 DEF ThreadState, Goto
  <2>2. Become(t, r) /\ db' = db
    BY <1>3 DEF collect_chain_outputs, NoDbStep
  <2> HIDE DEF r
  <2> QED
    BY <2>1, <2>2, LogFacts, ThreadQuietLog
<1>4. CASE SnapshotOutputs(t)
  <2> DEFINE r == [Goto(t, "spent") EXCEPT
                      !.outs = db.outs, !.fix = Matched(db.outs, th[t].found, "Spent")]
  <2>1. r.txs = th[t].txs /\ r.todo = th[t].todo /\ r.outs = db.outs /\ r.pc = "spent"
    BY <1>1 DEF ThreadState, Goto
  <2>2. Become(t, r) /\ db' = db
    BY <1>4 DEF SnapshotOutputs, NoDbStep
  <2> HIDE DEF r
  <2>3. ThreadLog(db, r)
    BY <1>1, <2>1 DEF ThreadLog, GoodLog, LogOK
  <2> QED
    BY <2>2, <2>3, ThreadOnlyLog
<1> QED
  BY <1>2, <1>3, <1>4

(* The turns of a scan from one phase to the next.                         *)
LEMMA ScanTurnLog ==
    ASSUME OneAccount, LogInv, NEW t \in Threads,
           \/ SpentDone(t) \/ LockedDone(t) \/ UnconfirmedDone(t)
           \/ RestoreMissing(t) \/ ScanDone(t)
    PROVE  LogStep
<1>1. th[t] \in ThreadState /\ GoodLog(db)
  BY LogFacts
<1> DEFINE K == Missing(th[t].outs, th[t].found)
<1>2. K \subseteq Key
  BY <1>1, MatchedTyped DEF ThreadState
<1>3. CASE SpentDone(t) \/ UnconfirmedDone(t)
  <2>1. PICK pc \in {"restore", "children"} : Become(t, Goto(t, pc)) /\ db' = db
    BY <1>3 DEF SpentDone, UnconfirmedDone, NoDbStep
  <2> DEFINE r == Goto(t, pc)
  <2>2. r.txs = th[t].txs /\ r.todo = th[t].todo /\ r.outs = th[t].outs /\ r.pc = pc
    BY <1>1 DEF ThreadState, Goto
  <2>3. Become(t, r)
    BY <2>1
  <2> HIDE DEF r
  <2> QED
    BY <2>1, <2>2, <2>3, LogFacts, ThreadQuietLog
<1>4. CASE LockedDone(t)
  <2> DEFINE F == {x \in Slot : th[t].outs[x].status = "Unconfirmed"}
             r == [Goto(t, "unconfirmed") EXCEPT !.fix = F]
  <2>1. Become(t, r) /\ db' = db
    BY <1>4 DEF LockedDone, NoDbStep
  <2> HIDE DEF F
  <2>2. /\ r.txs = th[t].txs /\ r.todo = th[t].todo /\ r.outs = th[t].outs
        /\ r.pc = "unconfirmed"
    BY <1>1 DEF ThreadState, Goto
  <2> HIDE DEF r
  <2> QED
    BY <2>1, <2>2, LogFacts, ThreadQuietLog
<1>5. CASE RestoreMissing(t)
  <2> DEFINE F == IF th[t].del THEN Matched(th[t].outs, th[t].found, "Locked") ELSE {}
             next == IF th[t].del THEN "locked" ELSE "children"
             r == [Goto(t, next) EXCEPT !.fix = F]
  <2>1. /\ Become(t, r) /\ RestoreHasIds(db, K)
        /\ db' = restore_missing_outputs(db, K, CoinbaseHeight)
    BY <1>5 DEF RestoreMissing, Section
  <2> HIDE DEF F, K
  <2>2. /\ r.txs = th[t].txs /\ r.todo = th[t].todo /\ r.outs = th[t].outs
        /\ r.pc \in {"locked", "children"}
    BY <1>1 DEF ThreadState, Goto
  <2> HIDE DEF r
  <2>3. QuietChange(db, db')
    BY <1>1, <1>2, <2>1, LogFacts, ChainTyped, RestoreLog DEF Inv
  <2> QED
    BY <2>1, <2>2, <2>3, ThreadQuietLog
<1>6. CASE ScanDone(t)
  <2> DEFINE E == {e \in th[t].txs : e.ttl # 0 /\ th[t].h >= e.ttl}
             r == [Goto(t, "ttl") EXCEPT !.found = {}, !.outs = NoOutputs, !.todo = E]
  <2>1. /\ Become(t, Idle) \/ Become(t, r)
        /\ db' = restore_child_indices(db, K)
    BY <1>6 DEF ScanDone, Section
  <2>2. E \subseteq th[t].txs
    OBVIOUS
  <2> HIDE DEF E, K
  <2>3. r.txs = th[t].txs /\ r.todo = E /\ r.outs = NoOutputs /\ r.pc = "ttl"
    BY <1>1 DEF ThreadState, Goto
  <2> HIDE DEF r
  <2>4. QuietChange(db, db')
    BY <1>1, <1>2, <2>1, ChildIndicesLog
  <2>5. CASE Become(t, r)
    BY <2>2, <2>3, <2>4, <2>5, ThreadQuietLog
  <2>6. CASE Become(t, Idle)
    BY <2>4, <2>6, IdleFields, ThreadQuietLog
  <2> QED
    BY <2>1, <2>5, <2>6
<1> QED
  BY <1>3, <1>4, <1>5, <1>6

(* Every step of a scan.                                                   *)
LEMMA ScanStepLog ==
    ASSUME OneAccount, LogInv, NEW t \in Threads, ScanStep(t)
    PROVE  LogStep
<1>1. ASSUME NEW x \in th[t].fix,
             SpentEntry(t, x) \/ LockedEntry(t, x) \/ UnconfirmedEntry(t, x)
      PROVE  LogStep
  BY <1>1, FixEntryLog DEF SpentEntry, LockedEntry, UnconfirmedEntry
<1>2. ASSUME NEW x \in th[t].cur,
             SpentOutput(t, x) \/ LockedOutput(t, x) \/ UnconfirmedOutput(t, x)
      PROVE  LogStep
  <2> DEFINE o == CopyUnspent(t, x)
  <2>1. th[t] \in ThreadState /\ ThreadLog(db, th[t])
    BY LogFacts
  <2>2. th[t].outs[x] \in OutputData /\ x \in Slot
    BY <2>1 DEF ThreadState
  <2>3. o \in OutputData /\ o.root = th[t].outs[x].root /\ o.tx = th[t].outs[x].tx
    BY <2>2 DEF CopyUnspent, OutputData, OutputStatus
  <2>4. o.tx = -1 \/ <<o.root, o.tx>> \in Written(db)
    BY <2>1, <2>2, <2>3 DEF ThreadLog
  <2>5. NoOutput \in OutputData /\ NoOutput.tx = -1
    BY NothingTyped DEF NoOutput
  <2>6. CASE SpentOutput(t, x)
    BY <2>3, <2>4, <2>6, FixOutputLog DEF SpentOutput
  <2>7. CASE LockedOutput(t, x)
    BY <2>3, <2>4, <2>7, FixOutputLog DEF LockedOutput
  <2>8. CASE UnconfirmedOutput(t, x)
    BY <2>5, <2>8, FixOutputLog DEF UnconfirmedOutput
  <2> QED
    BY <1>2, <2>6, <2>7, <2>8
<1> QED
  BY <1>1, <1>2, ScanReadLog, ScanTurnLog DEF ScanStep


(* Cancelling, by time-to-live or on request.                              *)
LEMMA CancelStepLog ==
    ASSUME OneAccount, LogInv, NEW t \in Threads, CancelStep(t)
    PROVE  LogStep
<1>1. th[t] \in ThreadState /\ GoodLog(db) /\ active \in Acct
  BY LogFacts
<1>2. ASSUME NEW P, P \subseteq Written(db), NEW d,
             d = (IF CanCancel(db, P) THEN cancel_tx_and_outputs(db, active, P) ELSE db)
      PROVE  GoodLog(d) /\ Kept(db, d) /\ Stepped(db, d)
  <2>1. CASE CanCancel(db, P)
    <3>1. P # {}
      BY <2>1, FS_EmptySet DEF CanCancel
    <3> QED
      BY <1>1, <1>2, <2>1, <3>1, CancelLog
  <2>2. CASE ~CanCancel(db, P)
    BY <1>1, <1>2, <2>2, QuietSelf, QuietFacts
  <2> QED
    BY <2>1, <2>2
<1>3. ASSUME NEW e \in th[t].todo, CancelExpired(t, e)
      PROVE  LogStep
  <2> DEFINE P == TxsWithId(db, active, e.id)
             r == [th[t] EXCEPT !.todo = @ \ {e}]
  <2>1. P \subseteq Written(db)
    BY DEF TxsWithId, TxsOf
  <2>2. /\ Become(t, r) \/ Become(t, Idle)
        /\ th[t].pc = "ttl"
        /\ db' = (IF CanCancel(db, P) THEN cancel_tx_and_outputs(db, active, P) ELSE db)
    BY <1>3 DEF CancelExpired, Section, At
  <2>3. /\ r.txs = th[t].txs /\ r.todo \subseteq th[t].todo /\ r.outs = th[t].outs
        /\ r.pc = "ttl"
    BY <1>1, <2>2 DEF ThreadState
  <2> HIDE DEF r, P
  <2>4. GoodLog(db') /\ Kept(db, db') /\ Stepped(db, db')
    BY <1>2, <2>1, <2>2
  <2>5. CASE Become(t, r)
    BY <2>2, <2>3, <2>4, <2>5, ThreadCancelLog
  <2>6. CASE Become(t, Idle)
    BY <2>2, <2>4, <2>6, IdleFields, ThreadCancelLog
  <2> QED
    BY <2>2, <2>5, <2>6
<1>4. CASE UpdateDone(t)
  <2> DEFINE r == [Idle EXCEPT !.pc = "cancel", !.job = "cancel",
                               !.target = th[t].target, !.id = th[t].id]
  <2>1. r.txs = {} /\ r.todo = {} /\ r.outs = NoOutputs /\ r.pc = "cancel"
    BY DEF Idle
  <2>2. (Become(t, r) \/ Become(t, Idle)) /\ db' = db
    BY <1>4 DEF UpdateDone, NoDbStep
  <2> HIDE DEF r
  <2>3. CASE Become(t, r)
    BY <2>1, <2>2, <2>3, LogFacts, ThreadQuietLog
  <2>4. CASE Become(t, Idle)
    BY <2>2, <2>4, IdleFields, LogFacts, ThreadQuietLog
  <2> QED
    BY <2>2, <2>3, <2>4
<1>5. CASE CancelTx(t)
  <2> DEFINE P == IF th[t].id # -1
                  THEN TxsWithId(db, active, th[t].id)
                  ELSE {p \in TxsWithSlate(db, th[t].target) : Entry(db, p).acct = active}
  <2>1. P \subseteq Written(db)
    BY DEF TxsWithId, TxsOf, TxsWithSlate
  <2>2. /\ Become(t, Idle) /\ th[t].pc = "cancel"
        /\ db' = (IF CanCancel(db, P) THEN cancel_tx_and_outputs(db, active, P) ELSE db)
    BY <1>5 DEF CancelTx, Section, At
  <2> HIDE DEF P
  <2>3. GoodLog(db') /\ Kept(db, db') /\ Stepped(db, db')
    BY <1>2, <2>1, <2>2
  <2> QED
    BY <2>2, <2>3, IdleFields, ThreadCancelLog
<1> QED
  BY <1>3, <1>4, <1>5 DEF CancelStep

(* A failed call to the node.                                              *)
LEMMA NodeFailureLog ==
    ASSUME LogInv, NEW t \in Threads, NodeFailure(t)
    PROVE  LogStep
<1> DEFINE r == [Goto(t, "tip") EXCEPT !.api = {}, !.h = 0]
<1>1. r.txs = th[t].txs /\ r.todo = th[t].todo /\ r.outs = th[t].outs /\ r.pc = "tip"
  BY LogFacts DEF ThreadState, Goto
<1>2. (Become(t, r) \/ Become(t, Idle)) /\ db' = db
  BY DEF NodeFailure
<1> HIDE DEF r
<1>3. CASE Become(t, r)
  BY <1>1, <1>2, <1>3, LogFacts, ThreadQuietLog
<1>4. CASE Become(t, Idle)
  BY <1>2, <1>4, IdleFields, LogFacts, ThreadQuietLog
<1> QED
  BY <1>2, <1>3, <1>4

-----------------------------------------------------------------------------
(* All steps                                                               *)

(* Blocks and reorganisations touch neither the database nor a thread.     *)
LEMMA ChainStepLog ==
    ASSUME LogInv, UNCHANGED <<db, th>>
    PROVE  LogStep
<1>1. Kept(db, db) /\ Stepped(db, db)
  BY LogFacts, QuietFacts
<1> QED
  BY <1>1 DEF LogInv, LogStep

(* Every step keeps the log.                                               *)
LEMMA NextLog ==
    ASSUME OneAccount, LogInv, [Next]_vars
    PROVE  LogStep
<1>1. CASE UNCHANGED vars
  BY <1>1, ChainStepLog DEF vars
<1>2. ASSUME NEW t \in Threads, ThreadStep(t)
      PROVE  LogStep
  <2>1. CASE StartJob(t)
    BY <2>1, StartLog DEF StartJob
  <2>2. CASE JobStep(t)
    BY <2>2, RefreshStepLog, KernelStepLog, ScanStepLog, CancelStepLog DEF JobStep
  <2>3. CASE NodeFailure(t)
    BY <2>3, NodeFailureLog
  <2> QED
    BY <1>2, <2>1, <2>2, <2>3 DEF ThreadStep
<1>3. CASE Crash
  BY <1>3, LogFacts, ApiLog DEF Crash, WalletStep
<1>4. CASE ApiCall
  BY <1>4, ApiCallLog
<1>5. CASE ChainStep
  <2>1. UNCHANGED <<db, th>>
    BY <1>5 DEF ChainStep, Mine, MineEmpty, AddBlock, Reorg, wallet
  <2> QED
    BY <2>1, ChainStepLog
<1> QED
  BY <1>1, <1>2, <1>3, <1>4, <1>5 DEF Next

(* The wallet starts with a good log.                                      *)
LEMMA InitLog ==
    ASSUME OneAccount, Init
    PROVE  LogInv
<1>1. Written(InitDB) = {p \in Pos : p[2] < Funds}
  <2>1. ASSUME NEW p \in Pos
        PROVE  Entry(InitDB, p) = InitEntry(p[1], p[2])
    BY DEF Pos, Entry, InitDB
  <2>2. \A a, i : InitEntry(a, i).type # "None" <=> i < Funds
    BY DEF InitEntry, NoEntry
  <2> QED
    BY <2>1, <2>2 DEF Written
<1>2. ASSUME NEW p \in Written(InitDB)
      PROVE  Entry(InitDB, p).id = p[2] /\ p[2] < InitDB.nextTx[p[1]]
  <2>1. p \in Pos /\ p[1] \in Acct /\ p[2] \in Ids /\ p[2] < Funds
    BY <1>1, <1>2 DEF Pos
  <2>2. Entry(InitDB, p) = InitEntry(p[1], p[2])
    BY <2>1 DEF Pos, Entry, InitDB
  <2>3. InitDB.nextTx[p[1]] = Funds
    BY <2>1 DEF InitDB
  <2> QED
    BY <2>1, <2>2, <2>3 DEF InitEntry, NoEntry
<1>3. ASSUME NEW x \in Slot, InitDB.outs[x].tx # -1
      PROVE  <<InitDB.outs[x].root, InitDB.outs[x].tx>> \in Written(InitDB)
  <2>1. x \in Genesis \X {TRUE}
    BY <1>3 DEF InitDB, NoOutput
  <2>2. InitDB.outs[x].root = x[1][1] /\ InitDB.outs[x].tx = x[1][2]
    BY <2>1, <1>3 DEF InitDB
  <2>3. x[1][1] \in Acct /\ x[1][2] \in Ids /\ x[1][2] < Funds
    BY <2>1, CoreAssumption, SizesAssumption DEF Genesis, Ids
  <2> QED
    BY <1>1, <2>2, <2>3 DEF Pos
<1> QED
  BY <1>2, <1>3, InitInv, IdleLog DEF LogInv, LogOK, Init

(* LogInv is inductive.                                                    *)
LEMMA LogInvariant == OneAccount => (Spec => []LogInv)
<1> SUFFICES ASSUME OneAccount PROVE Spec => []LogInv
  OBVIOUS
<1>1. Init => LogInv
  BY InitLog
<1>2. LogInv /\ [Next]_vars => LogInv'
  <2> SUFFICES ASSUME LogInv, [Next]_vars PROVE LogInv'
    OBVIOUS
  <2>1. LogStep
    BY NextLog
  <2>2. Inv'
    BY NextInv DEF LogInv
  <2> QED
    BY <2>1, <2>2 DEF LogStep, LogInv
<1> QED
  BY <1>1, <1>2, PTL DEF Spec


(* In a wallet with one account every output that names a log entry names  *)
(* one that exists (OutputData::tx_log_entry), for any number of slates,   *)
(* keys, threads, crashes and reorganisations.                             *)
THEOREM LinksHold == OneAccount => (Spec => []LinkOK)
<1> SUFFICES ASSUME OneAccount PROVE Spec => []LinkOK
  OBVIOUS
<1>1. LogInv => LinkOK
  <2> SUFFICES ASSUME LogInv, NEW x \in Slot, db.outs[x].tx # -1
               PROVE  Linked(x) # {}
    BY DEF LinkOK
  <2> DEFINE a == db.outs[x].root
             i == db.outs[x].tx
  <2>1. GoodLog(db)
    BY LogFacts
  <2>2. <<a, i>> \in Written(db)
    BY <2>1 DEF GoodLog, LogOK
  <2>3. a \in Acct
    BY <2>1 DEF GoodLog, WalletDB, OutputData
  <2> HIDE DEF a, i
  <2>4. TxsWithId(db, a, i) = {<<a, i>>}
    BY <2>1, <2>2, <2>3, WithId
  <2> QED
    BY <2>4 DEF Linked, a, i
<1> QED
  BY <1>1, LogInvariant, PTL

(* A log entry is never lost, and never overwritten by the entry of        *)
(* another transaction: its id, account, slate and the presence of debit   *)
(* and credit stay, whatever threads write back the copies they made.      *)
THEOREM EntriesAreKept ==
    OneAccount =>
      (Spec => [][\A p \in Written(db) :
                    p \in Written(db') /\ SameEntry(Entry(db, p), Entry(db', p))]_vars)
<1> SUFFICES ASSUME OneAccount
             PROVE  Spec => [][\A p \in Written(db) :
                                 p \in Written(db') /\ SameEntry(Entry(db, p), Entry(db', p))]_vars
  OBVIOUS
<1>1. LogInv /\ [Next]_vars =>
        \A p \in Written(db) : p \in Written(db') /\ SameEntry(Entry(db, p), Entry(db', p))
  BY NextLog DEF LogStep, Kept
<1> QED
  BY <1>1, LogInvariant, PTL DEF Spec

(* With a single thread a cancelled entry stays cancelled, and a confirmed *)
(* one is only unconfirmed by a revert (TxLogEntryType, cancel_tx).        *)
THEOREM LogStepsHold == OneAccount /\ OneThread => (Spec => LogSteps)
<1> SUFFICES ASSUME OneAccount, OneThread PROVE Spec => LogSteps
  OBVIOUS
<1>1. LogInv /\ [Next]_vars =>
        \A p \in Written(db) : EntryStep(Entry(db, p), Entry(db', p))
  BY NextLog DEF LogStep, Stepped
<1> QED
  BY <1>1, LogInvariant, PTL DEF Spec, LogSteps

=============================================================================
