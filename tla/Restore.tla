------------------------------ MODULE Restore ------------------------------
(***************************************************************************)
(* Rebuilding a wallet from its seed: the scan of                          *)
(* libwallet/src/internal/scan.rs in batches of blocks, the pages of the   *)
(* node client it reads, the outputs, accounts and child indices it saves, *)
(* and the progress marker from which an interrupted scan is resumed.      *)
(*                                                                         *)
(* The chain has one output per block, so heights and PMMR indices agree,  *)
(* and no forks: WalletCore has those, the transaction log, locked outputs *)
(* and delete_unconfirmed.  A restored output is identified by its key.    *)
(***************************************************************************)
EXTENDS Naturals, Sequences, FiniteSets, FiniteSetsExt

CONSTANTS
    MaxPath, MaxChild,  \* accounts are paths 0..MaxPath, keys <<path, child>>
    MaxTip,             \* length of the longest chain
    Histories,          \* chains an earlier wallet with this seed left behind
    Scanners,           \* threads that update, scan or view
    Updaters,           \* those that are updater threads
    UserLabels,         \* labels a user gives to accounts
    Batch,              \* blocks per batch (10001)
    Window,             \* REORG_RESCAN_WINDOW
    Page,               \* outputs per page of the node (1000)
    Chunk,              \* MISSING_OUTPUTS_BATCH_SIZE
    Query,              \* commitments per get_outputs request (500)
    MaxFails, MaxCrash  \* failing calls and jobs, crashes

Path == 0..MaxPath
Key == Path \X (0..MaxChild)
NoKey == <<>>
NoOne == "no one"

ASSUME RestoreAssumption ==
    /\ {Batch, Page, Chunk, Query} \subseteq Nat \ {0}
    /\ {MaxPath, MaxChild, MaxTip, Window, MaxFails, MaxCrash} \subseteq Nat
    /\ Histories \subseteq Seq(Key \cup {NoKey})
    /\ Updaters \subseteq Scanners /\ NoOne \notin Scanners

VARIABLES
    chain, spent,           \* the node: the key of each block's output; spent keys
    outs,                   \* database: status of each key's output
    accts, child,           \* database: account paths by label, child indices
    last, init,             \* database: last scanned height, init status
    active, lock,           \* the open wallet: parent_key_id; who holds its mutex
    th,                     \* the scanning threads
    view,                   \* the result of the latest scan_rewind_hash
    fails, crashes,         \* calls and jobs that failed, crashes so far
    marks,                  \* history: what went wrong for good
    lost                    \* history: restored outputs whose job ended before
                            \* their account and child index were saved

node == <<chain, spent>>
db == <<outs, accts, child, last, init>>
vars == <<node, db, active, lock, th, view, fails, crashes, marks, lost>>

Label(n) == <<"account", n>>
Default == <<"default", 0>>

Idle == [kind |-> "none", pc |-> "idle", ask |-> {}, heard |-> {}, tip |-> 0,
         from |-> 0, h |-> 0, idx |-> 0, got |-> {}, todo |-> {}, again |-> {},
         found |-> {}, left |-> {}, known |-> {}, at |-> 0, n |-> 0]

(* An updater thread that does not run.                                    *)
Ended == [Idle EXCEPT !.pc = "ended"]

NoView == [from |-> 1, tip |-> 0, got |-> {}]

(* A created wallet has no history; a restored one finds its old outputs   *)
(* on the chain and starts with an empty database.                         *)
Init ==
    /\ chain \in Histories
    /\ spent \in SUBSET ({chain[i] : i \in DOMAIN chain} \ {NoKey})
    /\ outs = [k \in Key |-> "None"]
    /\ accts = [l \in {Default} |-> 0]
    /\ child = [p \in Path |-> 0]
    /\ last = 0
    /\ init \in {"InitNeedsScanning", "InitNoScanning"}
    /\ init = "InitNoScanning" => \A i \in DOMAIN chain : chain[i] = NoKey
    /\ active = 0 /\ lock = NoOne
    /\ th = [t \in Scanners |-> IF t \in Updaters THEN Ended ELSE Idle]
    /\ view = NoView
    /\ fails = 0 /\ crashes = 0 /\ marks = {} /\ lost = {}

-----------------------------------------------------------------------------
(* The node.                                                               *)

Tip == Len(chain)
OnChain == {chain[i] : i \in 1..Tip} \ {NoKey}
Unspent(i) == chain[i] \notin spent

(* The block mined next holds someone else's output or one this wallet     *)
(* waits for.                                                              *)
Mine ==
    /\ Tip < MaxTip
    /\ \E k \in {NoKey} \cup {x \in Key \ OnChain : outs[x] = "Unconfirmed"} :
          chain' = Append(chain, k)
    /\ UNCHANGED <<spent, db, active, lock, th, view, fails, crashes, marks, lost>>

(* An output is spent, by this wallet or another copy of it.               *)
Spend ==
    /\ \E k \in OnChain \ spent : spent' = spent \cup {k}
    /\ UNCHANGED <<chain, db, active, lock, th, view, fails, crashes, marks, lost>>

(* get_unspent_outputs: the node walks the indices from i until it has a   *)
(* full page or is at end, and says how far it came.                       *)
LastRetrieved(i, end) ==
    LET full == {j \in i..end : Cardinality({x \in i..j : Unspent(x)}) = Page}
    IN  IF full = {} THEN end ELSE Min(full)

get_outputs_by_pmmr_index(i, end) ==
    {chain[j] : j \in {x \in i..LastRetrieved(i, end) : Unspent(x)}}

-----------------------------------------------------------------------------
(* Accounts and keys.                                                      *)

Free == lock = NoOne
PathsOf(a) == {a[l] : l \in DOMAIN a}

(* save_acct_path: mappings are stored by label.                           *)
save_acct_path(label, p) ==
    [l \in DOMAIN accts \cup {label} |-> IF l = label THEN p ELSE accts[l]]

(* new_acct_path: the path after the highest one.                          *)
create_account(label) ==
    /\ Free
    /\ label \notin DOMAIN accts
    /\ Max(PathsOf(accts)) < MaxPath
    /\ accts' = save_acct_path(label, Max(PathsOf(accts)) + 1)
    /\ UNCHANGED <<node, outs, child, last, init, active, lock, th, view, fails, crashes, marks, lost>>

set_active_account(label) ==
    /\ Free
    /\ label \in DOMAIN accts
    /\ active' = accts[label]
    /\ UNCHANGED <<node, db, lock, th, view, fails, crashes, marks, lost>>

(* A receiver draws the next child of the active account.  If an output of *)
(* the earlier wallet has that key, the new one is a second output under   *)
(* it, which is not followed here.                                         *)
Receive ==
    /\ Free
    /\ child[active] < MaxChild + 1
    /\ LET k == <<active, child[active]>> IN
         outs' = IF k \in OnChain \/ outs[k] # "None" THEN outs
                 ELSE [outs EXCEPT ![k] = "Unconfirmed"]
    /\ child' = [child EXCEPT ![active] = @ + 1]
    /\ UNCHANGED <<node, accts, last, init, active, lock, th, view, fails, crashes, marks, lost>>

-----------------------------------------------------------------------------
(* Starting a job.                                                         *)

Become(t, r) == th' = [th EXCEPT ![t] = r]
Quiet == UNCHANGED <<node, active, fails, crashes, lost>>

(* The updater thread: Updater::run updates again and again, and ends      *)
(* when it was stopped.                                                    *)
start_updater(t) ==
    /\ t \in Updaters /\ th[t].pc = "ended" /\ Become(t, Idle)
    /\ Quiet /\ UNCHANGED <<db, lock, view, marks>>

stop_updater(t) ==
    /\ t \in Updaters /\ th[t].pc = "idle" /\ Become(t, Ended)
    /\ Quiet /\ UNCHANGED <<db, lock, view, marks>>

(* update_wallet_state and scan begin with update_outputs.  A scan may be  *)
(* told where to start; what lies before is then skipped for good.         *)
StartUpdate(t) ==
    /\ th[t].pc = "idle" /\ Tip > 0
    /\ Become(t, [Idle EXCEPT !.kind = "update", !.pc = "refresh"])
    /\ Quiet /\ UNCHANGED <<db, lock, view, marks>>

StartScan(t, from) ==
    /\ th[t].pc = "idle" /\ t \notin Updaters
    /\ Become(t, [Idle EXCEPT !.kind = "scan", !.pc = "refresh", !.from = from])
    /\ marks' = marks \cup (IF from = 1 THEN {} ELSE {"partial"})
    /\ Quiet /\ UNCHANGED <<db, lock, view>>

StartView(t, from) ==
    /\ th[t].pc = "idle" /\ t \notin Updaters
    /\ Become(t, [Idle EXCEPT !.kind = "view", !.pc = "tip", !.from = from])
    /\ Quiet /\ UNCHANGED <<db, lock, view, marks>>

-----------------------------------------------------------------------------
(* update_outputs, under the wallet's mutex: the outputs of the active     *)
(* account are asked for in requests of at most Query commitments, sent    *)
(* together and answered in any order.  One failure fails the refresh,     *)
(* which ends an update and is ignored by a scan.                          *)

RefreshAsk(t) ==
    /\ th[t].pc = "refresh" /\ Free
    /\ lock' = t
    /\ Become(t, [th[t] EXCEPT !.pc = "hear",
                    !.ask = {k \in Key : k[1] = active /\ outs[k] \in {"Unconfirmed", "Unspent"}}])
    /\ Quiet /\ UNCHANGED <<db, view, marks>>

Response(t) ==
    /\ th[t].pc = "hear"
    /\ \E C \in SUBSET th[t].ask :
          /\ C # {} /\ Cardinality(C) <= Query
          /\ C = th[t].ask \/ Cardinality(C) = Query
          /\ Become(t, [th[t] EXCEPT !.ask = @ \ C, !.heard = @ \cup (C \cap (OnChain \ spent))])
    /\ Quiet /\ UNCHANGED <<db, lock, view, marks>>

AfterRefresh(t, ok) ==
    IF ok \/ th[t].kind = "scan" THEN [th[t] EXCEPT !.pc = "tip", !.ask = {}, !.heard = {}] ELSE Idle

(* Mutant: a request that failed counts as answered, with nothing.         *)
RefreshFails_ignored(t) ==
    /\ th[t].pc = "hear" /\ th[t].ask # {}
    /\ fails < MaxFails /\ fails' = fails + 1
    /\ Become(t, [th[t] EXCEPT !.ask = {}])
    /\ UNCHANGED <<node, db, active, lock, view, crashes, marks, lost>>

RefreshFails(t) ==
    /\ th[t].pc = "hear" /\ th[t].ask # {}
    /\ fails < MaxFails /\ fails' = fails + 1
    /\ lock' = NoOne
    /\ Become(t, AfterRefresh(t, FALSE))
    /\ UNCHANGED <<node, db, active, view, crashes, marks, lost>>

(* apply_api_outputs                                                       *)
RefreshApply(t) ==
    /\ th[t].pc = "hear" /\ th[t].ask = {}
    /\ outs' = [k \in Key |->
          CASE k[1] = active /\ outs[k] = "Unconfirmed" /\ k \in th[t].heard -> "Unspent"
            [] k[1] = active /\ outs[k] = "Unspent" /\ k \notin th[t].heard -> "Spent"
            [] OTHER -> outs[k]]
    /\ lock' = NoOne
    /\ Become(t, AfterRefresh(t, TRUE))
    /\ Quiet /\ UNCHANGED <<accts, child, last, init, view, marks>>

-----------------------------------------------------------------------------
(* The range to scan.                                                      *)

(* The first block of a job's range: a scan's argument, or a window before *)
(* the last scanned block; for a wallet created without a history, before  *)
(* the tip.                                                                *)
(* Mutant: every wallet is taken for a new one.                            *)
ScanFrom_tip(r) == IF r.tip < Window THEN 0 ELSE r.tip - Window

(* Mutant: the subtraction wraps, to a height no chain has.                *)
ScanFrom_wraps(r) ==
    IF r.kind # "update" THEN r.from
    ELSE IF last < Window THEN MaxTip + 1 ELSE last - Window

ScanFrom(r) ==
    LET block == IF init = "InitNoScanning" THEN r.tip ELSE last
    IN  IF r.kind # "update" THEN r.from
        ELSE IF block < Window THEN 0 ELSE block - Window

BatchEnd(r) == IF r.kind = "view" \/ r.h + Batch - 1 > r.tip THEN r.tip ELSE r.h + Batch - 1

(* height_range_to_pmmr_indices: the indices start at 1.                   *)
FirstIndex(h) == IF h = 0 THEN 1 ELSE h

ReadTip(t) ==
    /\ th[t].pc = "tip" /\ Free
    /\ Become(t, [th[t] EXCEPT !.tip = Tip, !.pc = "range"])
    /\ Quiet /\ UNCHANGED <<db, lock, view, marks>>

(* The batches are h, h + Batch, ... up to the tip; the range is empty     *)
(* when another thread has scanned past the tip that was read.             *)
ReadLast(t) ==
    /\ th[t].pc = "range" /\ Free
    /\ LET from == ScanFrom(th[t]) IN
         Become(t, IF from > th[t].tip THEN Idle
                   ELSE [th[t] EXCEPT !.from = from, !.h = from,
                            !.idx = FirstIndex(from), !.pc = "page"])
    /\ Quiet /\ UNCHANGED <<db, lock, view, marks>>

(* The node does not say its tip: the job ends, and an updater tries again *)
(* later.                                                                  *)
NodeFails(t) ==
    /\ th[t].pc = "tip"
    /\ fails < MaxFails /\ fails' = fails + 1
    /\ Become(t, Idle)
    /\ UNCHANGED <<node, db, active, lock, view, crashes, marks, lost>>

-----------------------------------------------------------------------------
(* collect_chain_outputs and collect_chain_outputs_rewind_hash.            *)

(* Where the next page starts.                                             *)
NextIndex(i) == i + 1

(* The highest index of the range is reached.                              *)
(* Mutant: the last page is not asked for.                                 *)
LastPage_early(i, end) == end <= i + 1

LastPage(i, end) == end <= i

(* identify_utxo_outputs: the outputs whose range proof this seed rewinds. *)
identify_utxo_outputs(outputs) == outputs \ {NoKey}

(* One turn of the loop, for job r: what it has by then, whether it is the *)
(* last turn, and where the next one starts.                               *)
PageOf(r) ==
    LET i == LastRetrieved(r.idx, BatchEnd(r))
    IN  [got |-> r.got \cup identify_utxo_outputs(get_outputs_by_pmmr_index(r.idx, BatchEnd(r))),
         done |-> LastPage(i, BatchEnd(r)), next |-> NextIndex(i)]

CollectPage(t) ==
    /\ th[t].pc = "page" /\ th[t].kind # "view"
    /\ LET p == PageOf(th[t]) IN
         Become(t, IF p.done THEN [th[t] EXCEPT !.got = p.got, !.pc = "compare"]
                   ELSE [th[t] EXCEPT !.got = p.got, !.idx = p.next])
    /\ Quiet /\ UNCHANGED <<db, lock, view, marks>>

ViewPage(t) ==
    /\ th[t].pc = "page" /\ th[t].kind = "view"
    /\ LET p == PageOf(th[t]) IN
         IF p.done
         THEN /\ view' = [from |-> th[t].from, tip |-> th[t].tip, got |-> p.got]
              /\ Become(t, Idle)
         ELSE /\ Become(t, [th[t] EXCEPT !.got = p.got, !.idx = p.next])
              /\ UNCHANGED view
    /\ Quiet /\ UNCHANGED <<db, lock, marks>>

-----------------------------------------------------------------------------
(* scan: what to do about each output found.                               *)

(* The chain's outputs against the wallet's: missing ones are restored,    *)
(* ones marked spent are unspent after all.                                *)
Compare(t) ==
    /\ th[t].pc = "compare" /\ Free
    /\ Become(t, [th[t] EXCEPT !.pc = "again", !.got = {},
                    !.todo = {k \in th[t].got : outs[k] = "None"},
                    !.again = {k \in th[t].got : outs[k] = "Spent"}])
    /\ Quiet /\ UNCHANGED <<db, lock, view, marks>>

Again(t) ==
    /\ th[t].pc = "again" /\ Free
    /\ outs' = [k \in Key |-> IF k \in th[t].again THEN "Unspent" ELSE outs[k]]
    /\ Become(t, [th[t] EXCEPT !.pc = "restore", !.again = {}])
    /\ Quiet /\ UNCHANGED <<accts, child, last, init, lock, view, marks>>

(* restore_missing_outputs: a commit for every Chunk outputs.              *)
RestoreChunk(t) ==
    /\ th[t].pc = "restore" /\ Free
    /\ \E C \in SUBSET th[t].todo :
          /\ C # {} /\ Cardinality(C) <= Chunk
          /\ C = th[t].todo \/ Cardinality(C) = Chunk
          /\ outs' = [k \in Key |-> IF k \in C THEN "Unspent" ELSE outs[k]]
          /\ Become(t, [th[t] EXCEPT !.todo = @ \ C, !.found = @ \cup C])
    /\ Quiet /\ UNCHANGED <<accts, child, last, init, lock, view, marks>>

(* Accounts and child indices, under the mutex until the batch is done.    *)
BeginAccounts(t) ==
    /\ th[t].pc = "restore" /\ th[t].todo = {} /\ Free
    /\ lock' = t
    /\ Become(t, [th[t] EXCEPT !.pc = "account", !.n = Cardinality(DOMAIN accts),
                    !.known = PathsOf(accts), !.left = {k[1] : k \in th[t].found}])
    /\ Quiet /\ UNCHANGED <<db, view, marks>>

(* The number of the next generated label.                                 *)
NextLabel(n) == n + 1

(* An account for path p, if it had none when the loop began;              *)
(* set_acct_path overwrites that of a user who chose the generated label.  *)
SetAccount(t, p) ==
    /\ th[t].pc = "account" /\ p \in th[t].left
    /\ LET new == p \notin th[t].known
           label == Label(th[t].n)
       IN  /\ accts' = IF new THEN save_acct_path(label, p) ELSE accts
           /\ marks' = marks \cup (IF new /\ label \in UserLabels \cap DOMAIN accts
                                   THEN {"label"} ELSE {})
           /\ Become(t, [th[t] EXCEPT !.n = IF new THEN NextLabel(@) ELSE @,
                            !.at = p, !.left = @ \ {p}, !.pc = "child"])
    /\ Quiet /\ UNCHANGED <<outs, child, last, init, lock, view>>

(* The highest restored child of p is past the account's next one.         *)
(* Mutant: being the next one is not enough.                               *)
Behind_past(p, max) == max > child[p]

Behind(p, max) == max >= child[p]

SaveChild(t) ==
    /\ th[t].pc = "child"
    /\ LET p == th[t].at
           max == Max({k[2] : k \in {j \in th[t].found : j[1] = p}})
       IN  child' = IF Behind(p, max) THEN [child EXCEPT ![p] = max + 1] ELSE child
    /\ Become(t, [th[t] EXCEPT !.pc = "account", !.at = 0])
    /\ Quiet /\ UNCHANGED <<outs, accts, last, init, lock, view, marks>>

EndAccounts(t) ==
    /\ th[t].pc = "account" /\ th[t].left = {}
    /\ lock' = NoOne
    /\ Become(t, [th[t] EXCEPT !.pc = "save", !.found = {}, !.known = {}, !.n = 0])
    /\ Quiet /\ UNCHANGED <<db, view, marks>>

(* The progress is saved and the next batch begins; only an update         *)
(* completes the wallet's initialisation.                                  *)
NextBatch(t) ==
    LET next == BatchEnd(th[t]) + 1
    IN  /\ last' = BatchEnd(th[t])
        /\ Become(t, IF next > th[t].tip THEN Idle
                     ELSE [th[t] EXCEPT !.h = next, !.idx = next, !.pc = "page"])

SaveScan(t) ==
    /\ th[t].pc = "save" /\ th[t].kind = "scan" /\ Free
    /\ NextBatch(t)
    /\ Quiet /\ UNCHANGED <<outs, accts, child, init, lock, view, marks>>

SaveUpdate(t) ==
    /\ th[t].pc = "save" /\ th[t].kind = "update" /\ Free
    /\ NextBatch(t)
    /\ init' = "InitComplete"
    /\ Quiet /\ UNCHANGED <<outs, accts, child, lock, view, marks>>

(* What a job has restored and not yet saved accounts and indices for.     *)
Unsaved(r) == {k \in r.found : r.pc = "restore" \/ k[1] \in r.left \/ (r.pc = "child" /\ k[1] = r.at)}

(* Any other error ends a job with what it has saved so far: the node does *)
(* not answer, the wallet was closed, a batch cannot be begun or committed.*)
(* Updater::run returns it, and the thread is over.                        *)
JobFails(t) ==
    /\ th[t].pc \notin {"idle", "ended", "hear"}
    /\ fails < MaxFails /\ fails' = fails + 1
    /\ lock' = IF lock = t THEN NoOne ELSE lock
    /\ lost' = lost \cup Unsaved(th[t])
    /\ Become(t, IF th[t].kind = "update" /\ t \in Updaters THEN Ended ELSE Idle)
    /\ UNCHANGED <<node, db, active, view, crashes, marks>>

(* The process dies and is started again, on its default account.          *)
Crash ==
    /\ crashes < MaxCrash /\ crashes' = crashes + 1
    /\ th' = [t \in Scanners |-> IF t \in Updaters THEN Ended ELSE Idle]
    /\ lock' = NoOne /\ active' = 0
    /\ lost' = lost \cup UNION {Unsaved(th[t]) : t \in Scanners}
    /\ UNCHANGED <<node, db, view, fails, marks>>

-----------------------------------------------------------------------------
ScanStep(t) ==
    \/ RefreshAsk(t) \/ Response(t) \/ RefreshApply(t)
    \/ ReadTip(t) \/ ReadLast(t) \/ CollectPage(t) \/ ViewPage(t)
    \/ Compare(t) \/ Again(t) \/ RestoreChunk(t)
    \/ BeginAccounts(t) \/ SaveChild(t) \/ EndAccounts(t)
    \/ SaveScan(t) \/ SaveUpdate(t)
    \/ \E p \in Path : SetAccount(t, p)

Start(t) ==
    \/ StartUpdate(t) \/ start_updater(t) \/ stop_updater(t)
    \/ \E from \in 1..Tip : StartScan(t, from) \/ StartView(t, from)

User ==
    \/ \E label \in UserLabels : create_account(label)
    \/ \E label \in DOMAIN accts : set_active_account(label)
    \/ Receive

Next ==
    \/ Mine \/ Spend \/ User \/ Crash
    \/ \E t \in Scanners : Start(t) \/ ScanStep(t) \/ RefreshFails(t) \/ NodeFails(t) \/ JobFails(t)

(* Threads that hold or wait for the mutex go on, nodes answer in the end, *)
(* and an updater thread that runs calls update_wallet_state again and     *)
(* again.  Nobody has to start one.                                        *)
Fairness ==
    /\ \A t \in Scanners : SF_vars(ScanStep(t))
    /\ \A t \in Updaters : WF_vars(StartUpdate(t))

Spec == Init /\ [][Next]_vars /\ Fairness

-----------------------------------------------------------------------------
(* Outputs of the earlier wallet or of this one that are on the chain up   *)
(* to height h and unspent.                                                *)
Owned(h) == {chain[i] : i \in {j \in 1..Tip : j <= h}} \ (spent \cup {NoKey})

(* What the progress marker covers is in the wallet: however batches,      *)
(* pages, failures, crashes and other scans interleave, no output of a     *)
(* block up to the last scanned one is missing, unless a scan was told to  *)
(* start later than the first block.                                       *)
OutputsRestored == "partial" \in marks \/ \A k \in Owned(last) : outs[k] # "None"

(* Restored outputs can be used: each belongs to an account that can be    *)
(* selected, unless a user's label was reused by the scan, and the next    *)
(* child of the account is past it, so that its key is not drawn again.    *)
(* Outputs that are being worked on are excepted, and those that were when *)
(* a crash or an error (of a closed wallet, a failing batch) ended the job *)
(* between restoring them and saving their account and index: they are     *)
(* known by then, and no later scan restores them again.                   *)
AccountsRestored ==
    "partial" \notin marks =>
        \A k \in Owned(last) \ lost :
            \/ /\ child[k[1]] > k[2]
               /\ k[1] \in PathsOf(accts) \/ "label" \in marks
            \/ \E t \in Scanners : k \in th[t].found

(* A refresh writes off only what is gone: an output is recorded as spent  *)
(* only if it is, whichever requests failed and in whatever order the      *)
(* others were answered.                                                   *)
NothingLost == \A k \in Key : outs[k] = "Spent" => k \in spent

(* A view of the wallet by its rewind hash has every output of its range   *)
(* that was unspent all along, and nothing that is not on the chain.       *)
ViewComplete ==
    /\ \A i \in view.from..view.tip : chain[i] = NoKey \/ chain[i] \in spent \cup view.got
    /\ view.got \subseteq OnChain

(* A restored wallet gets its outputs back while an updater runs: crashes, *)
(* errors that ended an updater which was started again, a node that did   *)
(* not answer and other scans only delay it.                               *)
Restores ==
    (\E t \in Updaters : <>[](th[t].pc # "ended"))
        => <>[](\A k \in Owned(Tip) : outs[k] # "None") \/ <>("partial" \in marks)

=============================================================================
