# grin-wallet in TLA+

A verification project for the wallet of this repository: TLA+ models of the
wallet's database and the calls and threads that change it, of the slates two
wallets exchange and the messages that carry them, of the server around it with
its lifecycle, configuration and Tor listener, and of restoring a wallet from
its seed; TLC runs on small instances; and TLAPS proofs for every value of the
constants. Paths below are relative to the repository's `src/`; `api_impl/`,
`internal/`, `slate_versions/`, `slatepack/` and `mwixnet/` are under
`libwallet/src/`.

## The system

A grin wallet owns Mimblewimble outputs. An output is a commitment to a value
under a key that only the wallet can derive; there is nothing on the chain that
says whose it is. What the wallet has, is therefore what its own LMDB database
says, corrected now and then by what a node reports. A payment is built by two
wallets that hand a *slate* back and forth; in between each keeps a private
*context*.

| component | state | operations | interacts with | modelled in |
| --- | --- | --- | --- | --- |
| database (`libwallet/src/backend.rs`, `types.rs`) | output records by key and MMR index, log entries by account and id, child index and log id per account, confirmed heights, contexts, account labels, last scanned block, init status | batches that save, delete and commit; `next_child`, `next_tx_log_id` | used by all below | `WalletDb`, `Restore`, `Lifecycle` |
| transaction building (`internal/selection.rs`, `internal/tx.rs`) | contexts, locks, stored transactions | select and lock inputs, add an output, complete, cancel, payment proofs | database, node for the refresh | `WalletCore`, `Exchange` |
| coin selection (`internal/selection.rs`) | none | `select_coins`, the fee loop, `max_spendable_amount`, the change split | building, the `send` command | `Selection` |
| output refresh (`internal/updater.rs`) | statuses, log confirmations, confirmed height | map outputs, query node, apply, clean; build coinbases | database, node | `Reconcile`, `WalletCore`, `Restore` |
| scan (`internal/scan.rs`) | statuses, restored outputs, accounts, child indices | collect the wallet's outputs from the UTXO set, compare, repair, restore | database (a section at a time), node | `Reconcile`, `WalletCore`, `Restore` |
| owner and foreign API (`api_impl/`) | none of their own | send, invoice, lock, finalize, post, cancel, receive, build coinbase, update, scan | all above | `WalletCore`, `Exchange` |
| accounts (`internal/keys.rs`) | labels, paths | create, switch | database, scan | `WalletDb`, `Restore` |
| slates (`slate.rs`, `slate_versions/`) | the message | participants, two rounds, offsets, compaction, finalize; JSON and binary forms | building | `SlateOps`, `SlateWire`, `Framing` |
| slatepacks (`slatepack/`) | the envelope | encrypt, pack, armor and back | slates | `SlateWire`, `Framing` |
| commands (`controller/src/command.rs`) | a command in progress | send, receive, invoice, pay, finalize, post, repost, cancel | APIs, slatepacks, Tor | `Exchange` |
| owner server (`controller/src/controller.rs`, `api/src/`) | shared keys, tokens, updater flag | secure session, lifecycle methods, `start_updater`, `stop_updater` | lifecycle, APIs | `OwnerServer` |
| lifecycle (`impls/src/lifecycle/`) | seed file, backups, database directory, open wallet and mask | create, open, close, change password, delete | files | `Lifecycle` |
| configuration (`config/src/`) | file, copy in memory, API secret | load, migrate, change, reload, save, notify | listener | `Config` |
| foreign listener and Tor (`controller.rs`, `impls/src/tor/`) | rounds, Tor process, pid file, onion service | listen, restart, launch, kill | configuration, wallet | `Listener` |
| node client (`impls/src/node_clients/http.rs`) | none | pages of outputs, requests in parts | refresh, scan | `Restore` |
| mixnet requests (`mwixnet/`, `create_mwixnet_req`) | the swapped output | onion, commitment signature | database | `Mixnet` |
| command line, utilities | none | parse, convert | | not modelled |

What is hard here:

* **Interleaving.** One mutex guards the wallet. A plain API call holds it from
  beginning to end, but `update_wallet_state`, `scan` and `cancel_tx` take it
  for one section at a time and ask the node in between. What a section read can
  be old when the next one writes it; by then even another wallet may be open.
* **Two sources of truth.** Every repair (refresh, kernel lookup, scan, expiry,
  cancel) compares a copy of the database with an answer of the node, each from
  a time of its own; the chain grows and loses blocks meanwhile.
* **Two wallets.** A slate can be answered late, twice, by the wrong command, by
  two carriers at once, or never; the two logs and the chain must still agree.
* **Crashes.** Calls commit several batches; seed file, configuration, API
  secret, pid file and the onion service's directory are files written in steps.
* **Accounts.** Keys come from the active account, records are filed under the
  account of the call, log ids count per account, labels per wallet, and several
  places look the account up again.
* **Arithmetic at the edge**: of coin selection, of pages, batches and windows
  of blocks, of offsets of key streams and lengths of optional fields.

What makes the components correct, in one line each: no key is derived twice
and no nonce signs twice; every record leads to its log entry; locks belong to
live payments and live payments hold their inputs; the log only moves forward;
statuses agree with the chain; what is mined is confirmed in the end; scans
repair and restore; the chain moves what was agreed, once; a message is read as
it was written or not at all; seeds and configurations survive any crash; the
copies that threads and handlers share agree; coin selection conserves value,
pays its fee and refuses only when it must.

## Modules

| module | what it is |
| --- | --- |
| `WalletDb` | the database as one value and each batch as an operator on it |
| `Reconcile` | the refresh of `updater.rs` and the repair steps of `scan.rs`, as operators |
| `WalletCore` | the state machine: API calls, threads, the node's chain, crashes |
| `WalletProps` | its invariants, action properties, liveness, and a statement of the repository the code does not meet |
| `MCWallet`, `MCRepair` | instances for TLC; `MCRepair` adds a history variable |
| `WalletProofs`, `WalletChainProofs` | lemmas on the batches; theorems on types and keys and on the log; theorems on wallet and chain |
| `Selection` | coin selection with amounts, fees and weights, on its own |
| `SelectionProofs` | theorems on all its properties |
| `SlateOps` | slates, and what each party does to one, as operators |
| `SlateWire` | what becomes of a slate between two wallets: V4, JSON, binary, slatepack, encryption |
| `Exchange` | the state machine of wallets that exchange slates by message or Tor |
| `Ledger` | the abstract specification of an exchange: offers are settled at most once, for the amount agreed |
| `ExchangeProps`, `MCExchange` | its properties, the refinement of `Ledger`; the instance |
| `ExchangeProofs` | theorem on nonces |
| `LedgerProofs` | theorem that `Exchange` implements `Ledger` |
| `Framing` | the bytes of slate, envelope, metadata and armor, written and read |
| `Mixnet` | onions, commitment signatures and the request for a swap |
| `MCFraming` | the instance of `Framing` and, as a system of its own, of `Mixnet` |
| `Lifecycle` | the provider's operations as single file operations |
| `OwnerServer` | sessions, tokens, updater, refreshes, over `Lifecycle` |
| `OwnerProps`, `MCOwner` | its properties; the instance |
| `OwnerProofs` | theorems on seeds, masks and shared keys |
| `Config` | file, copy, save lock, first start, API secret |
| `Listener` | the foreign listener, its watcher, Tor, over `Config`; properties of both |
| `MCListener` | the instance |
| `ListenerProofs` | theorems on both |
| `Restore` | scans of a restored wallet in batches and pages; its properties |
| `MCRestore` | the instance |
| `RestoreProofs` | theorems on all its safety properties |

`WalletDb` <- `Reconcile` <- `WalletCore` <- `WalletProps` <- `MCWallet` <- `MCRepair`;
`WalletProofs` extends `WalletProps`, `WalletChainProofs` extends `WalletProofs`.
`SlateOps` <- `SlateWire` <- `Exchange` <- `ExchangeProps`
(INSTANCE `Ledger` WITH the chain as the ledger) <- `MCExchange`. `Framing` <-
`MCFraming` (INSTANCE `Mixnet`). `Lifecycle` <- `OwnerServer` <- `OwnerProps` <-
`MCOwner`. `Config` <- `Listener` <- `MCListener`. `Restore` <- `MCRestore`.
`ExchangeProofs`, `OwnerProofs`, `ListenerProofs`, `RestoreProofs` and
`SelectionProofs` extend `ExchangeProps`, `OwnerProps`, `Listener`, `Restore` and
`Selection`; `LedgerProofs` extends `ExchangeProofs`.

Each family looks at the wallet through what its questions need. `WalletCore`
has one wallet, its chain and its threads, and no content of slates; `Exchange`
has two wallets and the slates, and no refresh or crash; `Restore` has scans in
pieces, and no forks or locks; `OwnerServer` has the wallets behind one handle
and what a refresh writes as "records of this seed".

### WalletDb, Reconcile, WalletCore

* `db.outs` maps a *slot* (a key, and whether an MMR index is part of the
  database key) to an `OutputData`. Only `restore_missing_outputs` writes an MMR
  index, so a key can own two records, and the code's lookups (`batch.get`,
  `find`, a hash map keyed by commitment) disagree about which they mean; the
  model keeps this. `tx = -1` is `None`, `cb` is the height of a coinbase.
* `db.txlog[a][i]` is the entry stored under account `a` and id `i`. Its own
  `acct` and `id` are part of the value, because the code saves entries under
  accounts other than their own. Iteration is in key order (`First`).
* A kernel is identified by the slate and the keys that determine its excess;
  `NoKern` is both "none" and the partial excess of an unfinished slate, which
  no node ever finds.
* `th[t]` is a running `update_wallet_state`, `scan` or `cancel_tx`: its program
  counter and its local copies. `lock` is the mutex where it is held across
  several steps (`update_outputs` reads the node twice while holding it); every
  other section is one step and requires `Free`.
* `chain`, `signed`, `issued`, `reorgs` are the world: blocks with at most one
  transaction of this wallet, finished transactions anyone may post at any time,
  or never, and slates this wallet has created.

An API call is one action, guarded by the code's early returns. `Call(early,
final, effect)` is a call that commits the databases of `early` one after the
other and then `final`: it either completes, or the process stops after one of
the earlier batches and restarts. `Finish` also lets the process stop between
the transaction file and the log entry. `init_send_tx` selects *any* nonempty
set of eligible outputs: which one the amounts decide is the subject of
`Selection`. The refresh inside a call (`refresh_outputs_from_node`) is
`Refreshed`.

A thread's steps are the sections between two releases of the mutex and the
queries of the node: refresh (`RefreshTip`, `RefreshOutputs`, `RefreshApply`),
kernels (`SnapshotTxs` to `KernelsDone`), scan (`ScanTip` to `ScanDone`), expiry
(`CancelExpired`) and cancel (`CancelTx`). `NodeFailure` is an error of any of
the queries. Where the order of a loop over a list or a hash map is not
determined, or does not matter, elements are taken in any order.

### SlateOps, SlateWire, Exchange

* A key pair and nonce are one fresh name per context drawn (`KeyPair`), a
  commitment is key and value, an excess the set of keys that sum to it, an
  offset the *bag* of its signed terms: an adjustment done twice or forgotten is
  seen. A partial signature remembers the keys and the fee it was made over, and
  verifies only over the same.
* `SlateWire` is the conversion to V4 and back, with what each form leaves out
  when it has its default, the recomputed kernel of a compact slate, and who can
  open an encrypted pack. A message that was damaged (`damage`) is refused by
  its checksum.
* `db[w]` is the part of a wallet's database an exchange touches: coins, log
  entries with excess and proof, contexts, stored transactions, the next key.
  `msgs` only grows: a message can be read never, late, again, by any command.
  `tor[w]` is a command that waits for its answer over Tor, in which the peer's
  foreign API acts; the answer may fail to come although it acted.
* Commands are actions (`send`, `receive`, `finalize`, `issue_invoice_tx`,
  `process_invoice`, `post`, `repost`, `cancel`); `api_init_send_tx` and
  `api_tx_lock_outputs` are the owner API's calls on their own. Where the code
  commits part of a call before an error, so does the model (`ReceiveFails`).
* `agreed` and `seen` are history: what was asked for, and every partial
  signature that left a wallet.

### Framing, Mixnet

`Framing` writes bytes and reads them with a reader that can run out, field by
field in the order of `v4_bin.rs`, `types.rs`, `address.rs` and `armor.rs`. A
pack is made (`make`), its text broken into other lines, altered or cut short
(`how`), then `read` with the right key, the wrong one or none. Fields of fixed
width have one byte; base58 is left out, and the check code is a sum that tells
apart the texts one change away.

`Mixnet` makes requests for outputs of the wallet, received or restored, and
lets any server try to peel. A commitment is value and blinding factor in a
small group; an encrypted byte is a value and the set of key stream positions it
is masked with, so that decrypting at the wrong position is visible.

### Lifecycle, OwnerServer

`disk[d]` is a data directory: seed file, backups, database; a file being
written is first empty. An operation (`op`) holds the wallet mutex and takes one
step per file operation; `WriteFails` and `Crash` come between any two. `lc` is
the provider with its open backend and the mask it was opened with.
`OwnerServer` adds clients with their keys and tokens, the handler's and the
API's copy of the shared key (`hkey`, `okey`), the mask the foreign API uses
(`smask`), refreshes that read in one section and write in another, and updater
threads with their flag. A request is handled in a step and its reply sealed in
a later one, with the key of that moment.

### Config, Listener

`file` is absent, torn or whole with its settings; `cache` is the copy of
`CONFIG_INSTANCES`; a save takes the lock, reads, changes, writes a temporary
file, renames it, and updates the copy, each a step. `Setup` and `SetupSecret`
are the start of the process, which makes both secrets, `create_config` the
lifecycle call, which makes that of the foreign API. Each of these steps that
touches a file can fail (`JobFails`; a start that fails is a crash): a new
configuration may be left torn, or without its secret in a process that stays
up, as `unwrap` panics in one request only. `bare` is history: the secrets a
`create_config` of the running process has not made.

`Listener` has the listener thread's rounds (register, read, take the key, serve,
join), the watcher thread with its two effects in order, the onion service's
directory, the Tor process and its pid file. A round can end because the wallet
is closed (`TakeKey`), the configuration cannot be read (`RegisterFails`), the
API server does not start (`ApiFails`) or the onion service inside the wallet
cannot be stopped (`StopFails`); a round goes on without Tor when it cannot be
launched (`LaunchFails`), does not bootstrap, or its pid file cannot be written
(`PidFails`), in which case Tor runs on, neither owned nor noted. A crash leaves
Tor running, too. `orphans` is history: the processes whose id never got into
the pid file. `register_config_listener` migrates an old file in one step; the
start and the workers take two.

### Restore

The chain is a sequence of outputs, one to a block, some owned by an earlier
wallet with this seed. A thread's scan reads the tip and the marker, then for
each batch collects pages, compares, restores in chunks, saves accounts and
indices, and moves the marker: each a step. A refresh sends its requests in
parts that are answered in any order or fail. `JobFails` ends a job at any step
with what it has committed (`scan.rs:256`, `309` to `357`, `630` to `650`): the
node fails, the wallet was closed or a batch cannot be committed. An updater
thread ends with the first such error (`owner_updater.rs:147`) and stays ended
until someone starts it again; only a refresh that fails and a tip that is not
told (`RefreshFails`, `NodeFails`) let it go on. `marks` is history: a scan told
to start late, a label used twice; so is `lost`: the outputs that were restored
when a crash or an error ended their job before their account and child index
were saved.

### Abstractions

* Amounts, fees, confirmations, lock heights and coinbase maturity are left out
  of `WalletCore`: they only restrict which outputs a call may select.
* A scan of `WalletCore` is one batch of blocks from before the model's first
  block, so it sees the whole UTXO set (`REORG_RESCAN_WINDOW` is 2880 blocks,
  the code's batches 10001; restored outputs are saved in one chunk). Batches,
  pages, chunks and the marker are in `Restore`.
* The wallet of `WalletCore` starts restored and scanned, with `Funds` confirmed
  outputs per account, each with its MMR index.
* A crash between the two batches of a refresh is left out: the next refresh
  repeats the second.
* Timestamps, wording and display are left out. In `WalletCore` a payment proof
  is checked only as far as its lookup in the active account decides whether
  finalizing succeeds; what it proves is in `Exchange`.
* A transaction of `Exchange` spends one coin and makes at most one change
  output; blocks hold one transaction and are not lost.
* In `Restore`, a key drawn again while an old output under it is on the chain
  makes a second output, which is not followed.

## Runs

`tlc -config X.cfg M`. All bounds are CONSTANTS (in the MC modules also
`Apart`, a CONSTRAINT); an action that would pass a bound is disabled.

| run | module, cfg | what happens in it | shows |
| --- | --- | --- | --- |
| `threads` | `MCWallet`, `MCThreads` | a payment with or without change that may expire, or coinbases; two threads, each updating (refresh, kernels, scan) and then cancelling | `SendHoldsInputs`, `LockedHasSend`, `ConfirmedMined`, `BalanceOK` |
| `crash` | `MCWallet`, `MCCrash` | a payment, locked at once or late, two accounts, crashes at any point, node failures, updates | `TypeOK`, `KeysFresh` |
| `receive` | `MCWallet`, `MCReceive` | a receipt, a reorganisation, updates, scans with and without deletion, cancels | `LinkOK`, `LogSteps` |
| `repair` | `MCRepair`, `MCRepair` | invoices issued and paid, with updates; or coinbases built, rebuilt, mined, expired, with updates and scans; or a payment, a reorganisation, scans with and without deletion | `BalanceOK`, `CoinbaseLogged`, `ScanRepairs` |
| `live` | `MCWallet`, `MCLive` | a payment that has change or may expire, two updaters, fair | `JobsEnd`, `PaymentSettles` |
| `selection` | `Selection`, `MCSelection` | all requests over up to five coins, a low weight limit, the retry with the maximum | `Conservation`, `RefusesOnlyShort`, `RetryFits` |
| `exchange` | `MCExchange`, `MCExchange` | two wallets, one slate, two coins: every command, by message and Tor | `PaysAsAgreed` (refinement of `Ledger`), `NoNonceReuse`, `ReplyCompletes`, `KernelFound`, `ProofVerifies` |
| `codecs` | `MCFraming`, `MCFraming` | every envelope around a family of slates, every carriage; or two mixnet requests with up to three servers | `RoundTrip`, `Refused`, `SwapPays`, `OnlyNextPeels` |
| `session` | `MCOwner`, `MCOwner` | two directories, two seeds, create, change, delete, with a crash or failed write; or two clients; or two updaters | `SeedKept`, `SharedStateAgrees`, `WritesOwn`, `Stops` |
| `listener` | `MCListener`, `MCListener` | two workers, the first start, a crash or a file that cannot be read or written, every kind of file; or rounds of the listener while a worker changes the Tor settings, with a crash, a failing pid file or a failing stop | `CacheFresh`, `SecretWhole`, `ConfigIntact`, `OneTor`, `RestartsNotEnds`, `ListenerFollows` |
| `restore` | `MCRestore`, `MCRestore` | an old wallet with three accounts or none; an updater that ends on an error and can be started again, and a caller; at most two disturbances (failing calls and jobs, a crash, blocks, spends, accounts) | `OutputsRestored`, `AccountsRestored`, `NothingLost`, `ViewComplete`, `Restores` |
| `cancelled` | `MCWallet`, `MCCancelled` | a payment and one updater | that `ConfirmedNotCancelled` is violated |

Why the bounds are enough for the questions asked.

*Wallet runs.* A payment, a receipt, an invoice each way and coinbases, each in
a run with the jobs that touch it, between them meet every status of a record
and every type of an entry. Two blocks (`receive`, `repair`) allow something to
be mined after, or while, a job looks at the chain, and with one reorganisation
a transaction can be mined, lost and mined again; the runs with two threads, two
accounts or crashes have one block, before or after every step of every job. Two
or three log ids allow a payment and its double locking, or a restored output.
Two threads are the least that can interleave, and each reads four times; with
the job `cancel` each first runs a whole update, so `threads` also has every
interleaving of two updates. `repair` takes its three families one at a time
(`Apart`): a payment, an invoice and a coinbase at once would multiply states
without touching each other's records; `threads` takes a payment or coinbases
(`CoinbaseAlone`). In `live` a payment has change, and is confirmed through its
output or its kernel, or has none and may expire, and is confirmed by its kernel
alone (`ChangeOrExpiry`); one that has change and expires is in `threads`, not
here. That constraint restricts a choice of `init_send_tx`, so no behaviour is
cut off on the way.

*Selection.* Values are such that sums tie, fees exceed coins and windows
overlap; unit weights keep the numbers small. One change output: with more, the
remainder is lost (below).

*Exchange.* Two coins, either enough, let a second attempt of the same command
choose another input; two contexts per wallet let a slate be answered twice; two
log entries let a payment be locked twice. One slate is enough as nothing is
shared between slates but coins, which `WalletCore` has.

*Codecs.* The slates have each optional field present and absent, amount and fee
each alone and together with different values, lists of 0, 1 and 2 elements,
with and without their own optional parts; addresses of different lengths; one
byte more than this version knows, in the envelope and in the metadata. Every
single byte is altered, every prefix cut. Three servers have a first, a middle
and a last one; two requests can share an output.

*Session.* A crash or a failed write lies between every two file operations of
every operation; a second crash would meet the files in a state the first can
leave. Two openings with different masks, two clients and two updaters are the
least that can race. The families of `Apart` separate faults from races between
clients: a client's races do not touch files.

*Listener.* Three values of the Tor setting distinguish every kind of change;
two processes, with a crash or a failure (one in all, `MaxCrashes`), are what
`OneTor` counts. `Apart` takes `create_config`, the races of
two workers and the first start while no listener is up, and the listener with
one worker.

*Restore.* Batches of two blocks, pages, chunks and requests of one element, a
window of one and chains of up to four blocks: each boundary (first and last
element, last partial batch, a chain shorter than the window, a tip that moves)
occurs. At most two disturbances at a time (`Apart`, which counts outputs lost to
a failed job among them): each property can be broken by one or two. A view by
rewind hash, which only reads, runs alone.

Where `CONSTRAINT Apart` bounds a run with a liveness property, the property is
checked on the behaviours that stay within it. Deadlock is checked in the wallet
runs, where a thread can always start another job; the others may come to an end
(`CHECK_DEADLOCK FALSE`): a message is read, all bounds are used up.

### Fairness

`FairSpec` (`WalletProps`) assumes that a thread with a job goes on, and gets the
mutex if it is free again and again (strong fairness of `JobStep`):
`grin_util::Mutex` is parking_lot's, whose unlock is eventually fair. It assumes
nothing of jobs that are not started: `Updater::run` ends when it is stopped, and
on the first error of an update (`owner_updater.rs:142`), after which nothing
starts it again. `PaymentSettles` therefore has the premise that updates are
started again and again (`KeepsUpdating`), by whomever. `OwnerServer` assumes
that updater threads go on (strong fairness of `UpdaterStep`, the mutex being
shared) and that a lifecycle operation does (`OpStep`). `Listener` assumes that
its threads run (strong fairness where they wait for the save lock or the
wallet, weak for the watcher, which waits for nothing but its channel); nothing
has to fail. `Restore` assumes that scans go on and that an updater thread that
has not ended starts an update again after each; nobody has to start an updater
that has ended, and `Restores` has the premise that one is there and does not end
any more. That calls fail only so often is the bound `MaxFails`. Nothing is
assumed of API calls, users, clients, the chain or the peers.

### Limits of the properties

Some passing properties are stated or checked with a limit that the next section
explains: `BalanceOK` and `ConfirmedMined` on chains that keep their blocks,
`SendHoldsInputs` for payments logged once and one payment per input,
`LockedHasSend` without scans that delete, `LinkOK` for one account, `LogSteps`
for one account and one thread (with two, a stale kernel save revives a
cancelled entry), `PaymentSettles` unless the payment is cancelled;
`ReplyCompletes` while the records made for the slate are still there;
`KernelFound` not for the payer of an invoice; `SwapPays` for outputs worth
their fees; `SharedStateAgrees` for calls that do not overlap; `ConfigIntact`
and `CacheFresh` for files that have a version; `SecretWhole` but for the
secrets a `create_config` of the running process has not made (`bare`; it never
makes that of the owner API); `OneTor` beside processes that were never noted
(`orphans`); `RestartsNotEnds` unless the process dies or its onion service
cannot be stopped; `OutputsRestored` unless a scan was told to start late;
`AccountsRestored` for outputs whose job did not end between restoring them and
saving their account and index (`lost`); `PaymentSettles` and `Restores` while
updates go on. `Conservation` is for one change output. Zero-confirmation
spending is modelled (`ZeroConf`) but no run uses it: what the code promises of
a payment whose input is taken back is not written down.

### Where the code and the repository's own words differ

One of these is a run in which TLC finds the violation: in `cancelled` a scan
cancels a payment that is confirmed and in the chain (`internal/scan.rs:552`,
`internal/tx.rs:370`).

Others were met while modelling; the models behave as the code does, and where
it matters the properties exclude them.

*Wallet.*

* Updates do not take back an output of a confirmed entry that a reorganisation
  removed (`api/src/owner.rs:2028`).
* Finalizing an invoice under another account replaces a log entry of that
  account (`api_impl/foreign.rs:169`).
* The remainder of the change is taken modulo the size of a part, not modulo the
  number of parts (`internal/selection.rs:627`, the comment at line 630).
* A receipt can be confirmed by its kernel while its output is not
  (`types.rs:645` says all or none); the next refresh then skips the output.
* Two payments created before either is locked can lock the same output
  (`types.rs:267`).
* A scan with deletion deletes an unconfirmed output that it has itself found in
  the UTXO set, if it was received and mined after the scan's refresh
  (`internal/scan.rs:614`).
* A late-locked payment finalized under another account links inputs of that
  account to an entry of the first (`api_impl/foreign.rs:194`). Expired payments
  are listed in one account and cancelled by id in the one active later
  (`api_impl/owner.rs:1226`).
* Once the fee makes a second selection necessary, `max_outputs` no longer
  limits it (`api_impl/types.rs:54`). A maximum without inputs makes the retry
  panic (`windows(0)`, `internal/selection.rs:684`).

*Exchange.*

* `send` locks and logs a late-locked payment as well, while
  `controller/tests/late_lock.rs:116` and `src/bin/grin-wallet.yml:125` say
  locking waits for finalizing.
* A payment of an invoice that succeeds over Tor logs and locks nothing in the
  payer's wallet, and `process_invoice_tx` does not look at the slate's state.
* A payment with a proof to oneself cannot be finalised if its receipt was
  logged before the lock (`internal/tx.rs:520` takes the first entry).
* `receive_tx` of the foreign API holds the wallet mutex while it sends its
  reply over Tor (`api/src/foreign.rs:350`).
* White space before an armored slatepack makes it unreadable (`deser_slatepack`
  compares the first bytes; `check_header` would allow it).

*Server and lifecycle.*

* An updater ends with the first update that fails and leaves the running flag
  set; `start_updater` called twice queues a second thread that starts when the
  first ends, and a stop right after a start is lost (`api/src/owner.rs:2083`,
  the comment at line 2093).
* Two `init_secure_api` calls at once leave API and handler with different keys,
  two `open_wallet` calls a foreign mask that fits neither.
* `create_wallet` after a `change_password` that was cut off finds no seed file
  and pairs a new seed with the old database; a partial seed file blocks both
  creating and opening; `delete_wallet` does not ask whether the wallet is open.

*Configuration and listener.*

* A file without a version is migrated in place and without the save lock: an
  update meanwhile is lost, a crash leaves a torn file; so does a crash during
  the first write. A torn file makes later starts panic.
* A change of the configuration while the wallet is closed ends the foreign
  listener, and so does one for which the onion service inside the wallet cannot
  be stopped (`controller.rs:377`).
* A `create_config` that fails after it wrote the file leaves a configuration
  without an API secret, or panics in the request (`default.rs:152` to `176`);
  the next start makes up for it.
* `output_onion_service_config` takes any existing directory as complete. An
  empty pid file, after a crash or a failed write, makes every later launch
  fail; a crash or an error between launch and pid file (`process.rs:187`)
  leaves Tor running for good, as does a next configuration that does not use
  external Tor; the process the pid file names is not checked to be Tor.
  `parse_tor_stdout` succeeds at the end of the output.

*Restore.*

* A crash, an error or a closed wallet between restoring outputs and saving
  accounts and child indices is never made up for, though the comments at
  `api_impl/owner.rs:1016` and `1189` say that batches save their data in case
  of interruption: the outputs are then known, so their account stays missing
  and their keys are drawn again.
* A scan that was given a start height moves the marker to the tip, so what lies
  before is not looked at by later updates; a wallet restored into a directory
  with an old database is not scanned in full.
* A generated label replaces that of a user who chose the same.
* Two scans at once can log a restored output twice. A wallet used before its
  first scan has ended can draw keys again; so can one whose outputs under those
  keys are spent, as a scan finds only unspent ones.
* `GRIN_OUTPUT_QUERY_SIZE=0` panics.

*Mixnet.*

* `create_mwixnet_req` ignores `fee_per_hop`; `amount - fee * n` is not checked
  and wraps for an output worth less than its fees.
* Locking looks the output up without its MMR index and fails for restored
  outputs, after a key was drawn; it makes no log entry, so cancelling cannot
  free the output; locked outputs can be swapped; the new output is found only
  by a later scan.

## Proofs

All theorems are for every value of the constants that the named assumptions
allow. Each family has one inductive invariant, one lemma per action that keeps
it, and theorems that follow from it; the runs check the same properties on
small instances.

| module | theorem | says | from |
| --- | --- | --- | --- |
| `WalletProofs` | `TypeCorrect`, `KeysAreFresh` | `[]TypeOK`, `[]KeysFresh` | `SizesAssumption`, `SlateAssumption`, `CoreAssumption` |
| | `LinksHold` | `[]LinkOK` | the same, one account |
| | `EntriesAreKept` | no step drops an entry or puts another in its place | the same, one account |
| | `LogStepsHold` | `LogSteps` | the same, one account, one thread |
| `WalletChainProofs` | `BalanceHolds` | `[]BalanceOK` | the same, no zero-confirmation spending |
| | `ConfirmedHolds` | `[]ConfirmedMined` | the same, one account, no reorganisation |
| `ExchangeProofs` | `NoncesAreUsedOnce` | `[]NoNonceReuse` | `SlateAssumption` of `SlateOps` |
| `LedgerProofs` | `BooksAgree` | offers, wallets, slates in flight and signed transactions fit together (`[]Agrees`) | `SlateAssumption`, `ExchangeAssumption`, `Bounded` |
| | `ExchangePaysAsAgreed` | `PaysAsAgreed`: `Exchange` implements `Ledger` | the same, `Bounded` |
| `SelectionProofs` | `RefusalsAreShort`, `RetriesFit` | `[]RefusesOnlyShort`, `[]RetryFits` | `SelectionAssumption` |
| | `FeesSuffice` | what is built pays its fee and keeps the weight limit, with any number of change outputs | `SelectionAssumption` |
| | `ValueIsConserved` | `[]Conservation` | the same, one change output |
| `OwnerProofs` | `TypeCorrect`, `SeedsAreKept`, `SharedStateIsAgreed`, `WritesAreOwn` | `[]TypeOK`, `[]SeedKept`, `[]SharedStateAgrees`, `WritesOwn` | `LifecycleAssumption`, `OwnerAssumption` |
| `ListenerProofs` | `TypeCorrect`, `SecretIsWhole`, `CacheIsFresh`, `OneTorProcess` | `[]TypeOK`, `[]SecretWhole`, `[]CacheFresh`, `[]OneTor` | `ConfigAssumption` |
| | `ConfigStaysIntact`, `ListenerRestarts` | `ConfigIntact`, `RestartsNotEnds` | `ConfigAssumption` |
| `RestoreProofs` | `RestoresOutputs`, `RestoresAccounts`, `LosesNothing`, `ViewsAreComplete` | `[]OutputsRestored`, `[]AccountsRestored`, `[]NothingLost`, `[]ViewComplete` | `RestoreAssumption` |

The assumptions say of what kind the constants are (numbers, finite sets of
accounts, slates, threads or workers) and that names that stand for "none" are
not among the values; `ExchangeAssumption` also says that a wallet's first coins
were made with its first child keys. "One account" (`OneAccount`), "one thread"
(`OneThread`), "no zero-confirmation spending" (`~ZeroConf`), "no reorganisation"
(`MaxReorg = 0`), "one change output" (`ChangeCounts = {1}`) and `Bounded` (at
most two contexts for a slate in a wallet, no amount of zero) are hypotheses of
the theorems, not assumptions on the constants: what they exclude is behaviour
the code has.

### Keys (WalletProofs)

`KeysFresh`, that `next_child` never hands out a key in use in a record, a
context, a signed transaction, the chain or a running scan, is not inductive: a
key a scan has *found* becomes a record later, an input of a context becomes
part of a transaction, a transaction becomes a block. `Inv` says of each of
these stores separately that its keys lie below the child index of their account
(`GoodDb` for records, contexts and entries, `ThreadsDerived` for the copies of
the threads, `ChainDerived` for transactions and blocks), next to `TypeOK`. It
rests on two facts about every batch, collected in `Keeps(d, e)`: the new
database is good, and no child index shrinks. The first part of `WalletProofs`
proves `Keeps` for each operator of `WalletDb` and `Reconcile`; the second lifts
them to one lemma per action and combines these in `NextInv`. `DerivedGrows` is
the step that makes it compose: what was below an index stays below it when the
index grows. In `WalletCore` every key on the chain was derived here; `Restore`
has the other case.

### The log (WalletProofs)

`LinkOK`, that an output's log entry exists, is lost if an entry is overwritten,
so `LogInv` adds to `Inv`: ids of entries lie below the next id and entries
stand where their id says (`LogOK`), and every entry or output a thread carries
between two sections is a copy of what the log still holds (`ThreadLog`). A
thread writes whole copies back; as no step changes the identity of an entry
(`Kept`), a copy, however old, only ever replaces the entry it was made of. That
its type and confirmation are not older ones than the log's (`UpToDate`) holds
for one thread only: with two, `SaveConfirmed` revives an entry the other has
cancelled. With several accounts even `LogOK` fails, in two places:
`update_tx_slate_state` files an entry under the active account, and late
locking links inputs of the active account to another account's entry.

### Wallet and chain (WalletChainProofs)

`BalanceOK` is about the records and the chain; what can break it is an answer
of the node that is applied late. `BalanceInv` therefore has, next to the
records (`Balanced`), what each thread has heard (`Heard`): every set of outputs
it carries was on the chain once, and while a refresh waits to be applied, each
record that counts as unspent or locked is in the node's answer or has been
spent. The last part needs the mutex, which the refresh holds from the tip to
the end (`Refreshing(th[t]) => lock = t`): the records cannot change between
question and answer. Blocks only add to what was mined and what was spent
(`BlocksAdded`, `BalanceGrows`), and a reorganisation ends the claim, which
`BalanceOK` makes for `reorgs = 0`. `~ZeroConf` is needed because otherwise an
output that was never mined can be locked, and a cancellation then makes it
unspent.

`ConfirmedMined` depends on which transaction an output belongs to. An entry
becomes confirmed when its kernel is found (`LookupKernel`, `SaveConfirmed`) or
when one of its outputs is (`apply_api_outputs`); both must imply that a
transaction of the entry's slate is in the chain. For a kernel this is
`EntrySound`: the kernel of an entry, and of every copy, is that of its slate.
For an output it is `Home`: a key that was drawn, that no other slate's context
will use, and that no signed transaction of another slate has. A received
output, or one still to be seen, has its home in the slate of its entry
(`RecordSound`); it may be reused neither by another slate (keys are fresh) nor
by a coinbase (`CoinKey`). `MinedInv` says this of the log, the records, the
contexts and the copies of the threads, and of what they heard from the node
(`Seen`). A change of the database that keeps it is a `SoundChange`, and these
compose (`SoundThen`); signing keeps homes because a transaction only has
outputs that are fresh or at home in its own slate (`HomesSigned`). Locking an
input links its record to the entry of the payment that spends it, which is not
the slate its key is at home in; `RecordSound` therefore asks for a home only of
records that can still confirm an entry. With several accounts the link from
record to entry is not reliable (see above) and the argument stops there.

### Nonces (ExchangeProofs)

`NoNonceReuse` is not inductive because a context can outlive a signature made
with its key: `process_invoice_tx` signs and keeps the context, so a later
`finalize_tx` would find it. `Inv` says of every slate that can reach a command,
from a message or from Tor (`Flying`), what its state promises: an offer has one
participant who has not signed, an answer one who has signed together with
another and has adjusted the offset, a complete slate only signatures
(`GoodSlate`). Keys in signatures were drawn (`SeenOK`), and the first key of a
live context has either not signed (`Unused`) or every slate in flight bars it
from finishing (`BarredOK`). `finalize_tx` then succeeds only on an answer that
was signed by another key together with this one: an answer of one's own has the
key's offset term already, and doubling it fails `Transaction::validate`; a
missing signature, or one over other keys, fails `finalize_signature`. Each
action is one of three kinds of step: it moves slates about (`QuietStep`), draws
a new key (`DrawStep`) or finishes (`FinishStep`).

### Amounts (LedgerProofs)

`PaysAsAgreed` is a refinement: under the mapping that takes the settled
transactions of a slate from the chain and sums each wallet's unspent coins,
every step of `Exchange` is an offer, a settlement or a stutter of `Ledger`.
What is agreed appears nowhere in a slate in flight except as its amount, and a
signed transaction names no slate; the proof therefore carries a ghost `g`
(`Agrees == \E g : PayInv(g)`) that remembers what was agreed for each slate
(`offer`), for which slate each child key made an output (`home`), and the
transaction of a slate once it is signed (`done`). `PayInv` says how everything
fits the ghost: each wallet's contexts, entries and stored transactions
(`PayDb`), every message that decodes (`MsgsOK`), every command that waits
(`TorOK`), the pool and the chain (`Known`, `ChainOK`).

The centre is the offset. An answer adds to it exactly the keys of the coins its
wallet puts in and takes out, and `Transaction::validate` accepts a sum of
inputs and outputs only with the offset that belongs to them. So `finalize_tx`
can complete nothing but two shares, each added once, of a slate whose first
context is still there, and two such shares move the amount agreed (`Settles`).
At most once holds because the outputs are made with child keys that were never
used (`KeysOK`): whatever is mined for a slate spends the same inputs.

Both parts of `Bounded` are needed; TLC gives the behaviours.

* *Three contexts.* A wallet calls `api_init_send_tx`, then receives its own
  offer and pays it as an invoice as well, from the same coin; another wallet
  also pays the offer as an invoice, and the first finalizes that answer. The
  other wallet pays on an offer to be paid. `finalize_tx` and
  `process_invoice_tx` do not ask in which direction a slate was opened
  (`api_impl/foreign.rs`, `api_impl/owner.rs`). The first wallet draws three
  contexts for the slate on the way; with two it has no key left to finish with.
* *An amount of zero.* A late-locked send of 0 is received by its own wallet and
  paid as an invoice by another; the two shares balance and the payee of nothing
  pays the fee. Nothing refuses the amount 0.

`Total` is a fold over a set of coins; its laws (the sum of a union, of a set
without an element) are proved from minimal counterexamples (`MinimalSet`).

### Coin selection (SelectionProofs)

One invariant, `SelInv`, ties what each step of the loop has computed to the
request: the selection is `select_coins` of it, the fee is one for as many
inputs and outputs, change and amount add up. `RefusesOnlyShort` then comes down
to: a selection as long as the list is worth the whole list (`Within`), also in
the branch that returns the largest coins in reverse. `RetryFits` needs that
sorting the coins and choosing the largest that fit gives a window of the sorted
list (`DecreasingIs`), and that the first window worth at least the total of
that one is worth exactly that (`SelectWindow`); the retry therefore makes no
change, and the weight, which was checked without change, still fits. Sums over
prefixes (`Sums`) and least counterexamples (`LeastNat`) replace induction.

### Seeds, sessions and masks (OwnerProofs)

`SeedInv` says which file holds the seed at each step of an operation, the
backup of a password change included. `MaskInv` says that masks are given out in
order: the mask a refresh kept fits the wallet that is open only if it is the
wallet it read, which is what `WritesOwn` needs. `JobInv` ties refreshes to
their requests, and `SharedInv` says what a request that has been handled, but
not answered, has yet to do to the key of the handler and the foreign mask.

### Configuration and listener (ListenerProofs)

`ConfigInv` has the wallet mutex (`Exclusive`), the files a start can find
(`StartOK`), and what a worker carries between two of its steps: for a file with
a version it agrees with the file (`FreshOK`), for one without at least no
setting of another version is missing (`OldFileOK`). A job that fails drops what
it carries and both locks, so these facts outlive it; a `create_config` enters
the secrets it may leave unmade in `bare` as it begins, under the wallet mutex.
`ListenerInv` says that a set stop means a set restart, and that the only Tor
process beside the orphans is the one launched last, until its pid is written or
it becomes an orphan, and the one the pid file names afterwards.

### Restoring (RestoreProofs)

`RefreshInv`: while a refresh runs the mutex keeps the records as it found them,
so what it has not asked for and not heard of is spent, in whatever order its
requests are answered. `ScanInv` says for each phase of a batch which of its
blocks are collected, still to be restored, or settled, and that the blocks
before the batch are settled unless a scan was started late; it includes the
arithmetic of pages, batches, chunks and windows for any sizes (`Behind`,
`LastPage`). `AccountInv`: a restored record whose key could still be drawn
again, or whose account cannot be selected, is being worked on by the thread
that restored it or was when that thread's job ended (`lost`); generated labels
have numbers below the number of accounts, and what the loop over accounts took
as known before it began (`known`) can be reached still, so the only label a
scan replaces is a user's. All of it rests on what only grows: the chain, what
is spent, records and `marks` (`Grows`).

### Only model-checked

* Liveness needs fairness, and ENABLED is out of the prover's reach: `JobsEnd`,
  `PaymentSettles`, `ScanRepairs`, `Stops`, `ListenerFollows`, `Restores`.
* The installed provers cannot apply an induction theorem. `LedgerProofs` and
  `SelectionProofs` avoid it by least counterexamples over numbers and finite
  sets; the byte formats of `Framing` and the onions of `Mixnet` recurse over
  their own structure, where this does not carry: `RoundTrip`, `Refused`,
  `SwapPays`, `OnlyNextPeels`.
* Not proved: `SendHoldsInputs`, `LockedHasSend`, `CoinbaseLogged` and
  `ReplyCompletes`, `KernelFound`, `ProofVerifies`. Each holds in the run's
  configuration and fails in a wider one, so that a theorem would need the
  configuration as its hypothesis. The first three: "Limits of the properties".
  The last three fail with two accounts: the entry a command finds is then not
  the one another made. `ProofVerifies` also fails where `send` locks late (with
  one account `KernelFound` still holds there), `ReplyCompletes` also where two
  slates are exchanged at once and a wallet draws three contexts for one.

## Not modelled

The parsing of command lines and prompts, the display of tables, the text forms
of onion addresses and the byte serialisation helper keep no state and decide
nothing the models ask about. HTTP, JSON-RPC dispatch of each method, the ciphers
and signature schemes themselves, LMDB below its batches, Tor bridges and
proxies are taken as they are used. `recover_from_mnemonic` has no caller. Listing
outputs and entries, balances and filters only read. A wallet database whose
format has to be migrated is outside.

## Plan

Modelled and checked: everything in the table of components. Proved: all safety
properties of `OwnerServer`, `Config`, `Listener`, `Restore` and `Selection`, the
refinement of `Ledger`, and of the wallet and the exchange those of the table
above. Next, in this order:

1. `KernelFound` for one account, and `ProofVerifies` for one account without
   late locking by `send`, from `PayInv` with the excess and the proof of
   entries and of stored transactions added.
2. `SendHoldsInputs`, `LockedHasSend` and `CoinbaseLogged` for one account, from
   `LogInv` and `MinedInv`.
3. The round trips of `Framing`, for one envelope at a time.
