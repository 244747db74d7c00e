---------------------------- MODULE RestoreProofs ----------------------------
(***************************************************************************)
(* The safety properties of restoring a wallet, for chains, batches,       *)
(* pages, chunks and requests of any length, any number of threads,        *)
(* failures and crashes, and any accounts and labels.                      *)
(*                                                                         *)
(* The inductive invariant has four parts.  RefreshInv: what a refresh     *)
(* under way has not asked for yet, has heard of or is spent, because the  *)
(* mutex keeps the records as it found them.  ScanInv: what a job knows of *)
(* the blocks before its batch, and, for each phase, of those inside it.   *)
(* AccountInv: a record whose key could be drawn again is still being      *)
(* worked on by the thread that restored it, or that thread's job ended    *)
(* before it was done.                                                     *)
(***************************************************************************)
EXTENDS Restore, FiniteSetTheorems, WellFoundedInduction, TLAPS

-----------------------------------------------------------------------------
(* Types.                                                                  *)

Steps == {"idle", "ended", "refresh", "hear", "tip", "range", "page", "compare", "again", "restore",
          "account", "child", "save"}

Jobs == [kind : {"none", "update", "scan", "view"}, pc : Steps,
         ask : SUBSET Key, heard : SUBSET Key, tip : Nat, from : Nat, h : Nat, idx : Nat,
         got : SUBSET Key, todo : SUBSET Key, again : SUBSET Key, found : SUBSET Key,
         left : SUBSET Path, known : SUBSET Path, at : Path, n : Nat]

Statuses == {"None", "Unconfirmed", "Unspent", "Spent"}

TypeOK ==
    /\ chain \in Seq(Key \cup {NoKey}) /\ spent \subseteq Key
    /\ outs \in [Key -> Statuses]
    /\ accts \in [DOMAIN accts -> Path] /\ IsFiniteSet(DOMAIN accts)
    /\ Default \in DOMAIN accts /\ accts[Default] = 0
    /\ child \in [Path -> Nat] /\ last \in Nat
    /\ init \in {"InitNeedsScanning", "InitNoScanning", "InitComplete"}
    /\ active \in Path /\ lock \in Scanners \cup {NoOne}
    /\ th \in [Scanners -> Jobs]
    /\ view \in [from : Nat \ {0}, tip : Nat, got : SUBSET Key]

(* The empty tuple is no key.                                              *)
LEMMA NoKeyIsNone == NoKey \notin Key
  BY DEF NoKey, Key

(* Keys are pairs of a path and a child.                                   *)
LEMMA KeyParts == ASSUME NEW k \in Key PROVE k[1] \in Path /\ k[2] \in 0 .. MaxChild
  BY DEF Key

(* Labels that scans generate are told apart by their number, and from the *)
(* label of the first account.                                             *)
LEMMA LabelsDiffer ==
  ASSUME NEW m, NEW n PROVE Label(m) # Default /\ (Label(m) = Label(n) => m = n)
<1>1. Label(m)[1] = "account" /\ Label(m)[2] = m /\ Label(n)[2] = n /\ Default[1] = "default"
  BY DEF Label, Default
<1> QED
  BY <1>1

(* A set of numbers has a least one (LastRetrieved): of the intervals from *)
(* 0 to each of them one is contained in all others.                       *)
LEMMA MinExists ==
  ASSUME NEW S, S \subseteq Nat, S # {}
  PROVE  Min(S) \in S /\ \A y \in S : Min(S) <= y
<1> DEFINE T == {0 .. y : y \in S}
<1>1. T \subseteq FiniteSubsetsOf(Nat) /\ T # {}
  <2>1. \A y \in S : IsFiniteSet(0 .. y) /\ 0 .. y \subseteq Nat
    BY FS_Interval
  <2> QED
    BY <2>1 DEF FiniteSubsetsOf
<1>2. PICK I \in T : \A J \in T : ~(<<J, I>> \in StrictSubsetOrdering(Nat))
  <2> HIDE DEF T
  <2> QED
    BY <1>1, FS_StrictSubsetOrderingWellFounded, WFMin
<1>3. PICK x \in S : I = 0 .. x
  OBVIOUS
<1>4. \A y \in S : x <= y
  <2> SUFFICES ASSUME NEW y \in S, y < x PROVE FALSE
    OBVIOUS
  <2>1. 0 .. y \in T /\ 0 .. y \subseteq 0 .. x /\ 0 .. y # 0 .. x /\ 0 .. x \subseteq Nat
    OBVIOUS
  <2> QED
    BY <1>2, <1>3, <2>1 DEF StrictSubsetOrdering
<1> QED
  BY <1>4 DEF Min

(* A set of numbers up to a bound has a greatest one (the highest path,    *)
(* the highest child restored).                                            *)
LEMMA MaxExists ==
  ASSUME NEW b \in Nat, NEW S, S \subseteq 0 .. b, S # {}
  PROVE  Max(S) \in S /\ \A y \in S : Max(S) >= y
<1> DEFINE D == {b - y : y \in S}
<1>1. D \subseteq Nat /\ D # {}
  <2>1. \A y \in S : y \in Int /\ y <= b
    OBVIOUS
  <2>2. \A y \in S : b - y \in Nat
    BY <2>1
  <2> QED
    BY <2>2
<1>2. Min(D) \in D /\ \A d \in D : Min(D) <= d
  BY <1>1, MinExists
<1>3. PICK x \in S : b - x = Min(D)
  BY <1>2
<1>4. \A y \in S : x >= y
  <2> SUFFICES ASSUME NEW y \in S PROVE x >= y
    OBVIOUS
  <2>1. b - y \in D /\ x \in Int /\ y \in Int
    OBVIOUS
  <2>2. b - x <= b - y
    BY <1>2, <1>3, <2>1
  <2> HIDE DEF D
  <2> QED
    BY <2>1, <2>2
<1>5. \E z \in S : \A y \in S : z >= y
  BY <1>4
<1> QED
  BY <1>5 DEF Max

-----------------------------------------------------------------------------
(* The inductive invariant.                                                *)

(* The steps at which a thread holds the wallet's mutex.                   *)
Holding == {"hear", "account", "child"}

(* What a thread or a record knows of is on the chain; a thread that holds *)
(* the mutex holds it alone, so a refresh finds the records as it read     *)
(* them, and what it has not asked for and not heard of is spent.          *)
RefreshInv ==
    /\ \A t \in Scanners : th[t].pc \in Holding <=> lock = t
    /\ \A t \in Scanners :
          th[t].heard \cup th[t].got \cup th[t].todo \cup th[t].again \cup th[t].found \subseteq OnChain
    /\ \A k \in Key : outs[k] \in {"Unspent", "Spent"} => k \in OnChain
    /\ \A t \in Scanners : th[t].pc = "hear" =>
          \A k \in Key : k[1] = active /\ outs[k] = "Unspent" => k \in th[t].ask \cup th[t].heard \cup spent
    /\ NothingLost

(* The output of block i is someone else's, spent, or in the wallet.       *)
Settled(i) == chain[i] \in spent \cup {NoKey} \/ outs[chain[i]] # "None"

(* What the job has of block i at each step of a batch.                    *)
Collected(r, i) == chain[i] \in r.got \cup spent \cup {NoKey}

BatchKnown(r) ==
    /\ r.pc = "page" => \A i \in 1 .. Tip : r.h <= i /\ i < r.idx => Collected(r, i)
    /\ r.pc = "compare" => \A i \in 1 .. Tip : r.h <= i /\ i <= BatchEnd(r) => Collected(r, i)
    /\ r.pc \in {"again", "restore"} =>
          \A i \in 1 .. Tip : r.h <= i /\ i <= BatchEnd(r) => chain[i] \in r.todo \/ Settled(i)
    /\ r.pc \in {"account", "child", "save"} =>
          \A i \in 1 .. Tip : r.h <= i /\ i <= BatchEnd(r) => Settled(i)

Batched == {"page", "compare", "again", "restore", "account", "child", "save"}

(* A job's range, and what it knows: of the blocks before its batch        *)
(* everything, unless some scan was told to start late.                    *)
JobOK(r) ==
    /\ r.kind = "none" <=> r.pc \in {"idle", "ended"}
    /\ r.kind = "view" => r.pc \in {"tip", "range", "page"} /\ r.from >= 1
    /\ r.tip <= Tip
    /\ r.pc \in Batched => r.h <= r.tip
    /\ r.kind = "view" /\ r.pc = "page" => r.h = r.from
    /\ r.pc = "page" => r.idx >= 1 /\ r.idx <= r.tip + 1
    /\ r.kind = "scan" /\ r.pc \in {"refresh", "hear", "tip", "range"} /\ "partial" \notin marks => r.from = 1
    /\ r.pc \in Batched /\ r.kind # "view" /\ "partial" \notin marks =>
          \A i \in 1 .. Tip : i < r.h => Settled(i)
    /\ BatchKnown(r)

ScanInv ==
    /\ \A t \in Scanners : JobOK(th[t])
    /\ "partial" \notin marks => \A i \in 1 .. Tip : i <= last => Settled(i)
    /\ init = "InitNoScanning" => \A i \in 1 .. Tip : Settled(i)
    /\ view.tip <= Tip /\ ViewComplete

(* The key of a record cannot be drawn again and its account be selected.  *)
Reachable(p) == p \in PathsOf(accts) \/ "label" \in marks
Usable(k) == child[k[1]] > k[2] /\ Reachable(k[1])

(* What has been done about accounts and child indices of the outputs a    *)
(* batch restored.                                                         *)
AccountsKnown(r) ==
    /\ \A k \in r.again : outs[k] # "None"
    /\ r.pc \notin {"restore", "account", "child"} => r.found = {}
    /\ r.pc \in {"account", "child"} =>
          /\ r.left \subseteq {k[1] : k \in r.found}
          /\ \A p \in r.known : Reachable(p)
          /\ "label" \notin marks => r.n = Cardinality(DOMAIN accts)
    /\ r.pc = "account" => \A k \in r.found : k[1] \in r.left \/ Usable(k)
    /\ r.pc = "child" =>
          /\ r.at \in {k[1] : k \in r.found} /\ Reachable(r.at)
          /\ \A k \in r.found : k[1] \in r.left \cup {r.at} \/ Usable(k)

(* The label l is the user's, or was generated with a number that is below *)
(* the next one.                                                           *)
LabelOK(l) ==
    l \in UserLabels \cup {Default} \/ \E m \in Nat : l = Label(m) /\ m < Cardinality(DOMAIN accts)

AccountInv ==
    /\ \A t \in Scanners : AccountsKnown(th[t])
    /\ \A k \in Key : outs[k] # "None" => Usable(k) \/ k \in lost \/ \E t \in Scanners : k \in th[t].found
    /\ Reachable(active)
    /\ "label" \notin marks => \A l \in DOMAIN accts : LabelOK(l)

Inv == TypeOK /\ RefreshInv /\ ScanInv /\ AccountInv

-----------------------------------------------------------------------------
(* Type correctness.                                                       *)

(* The parameters are numbers.                                             *)
LEMMA Parameters ==
  Batch \in Nat /\ Batch >= 1 /\ MaxPath \in Nat /\ MaxChild \in Nat /\ Window \in Nat /\ NoOne \notin Scanners
  BY RestoreAssumption

(* A page has keys of blocks and ends inside its range or at its end.      *)
LEMMA PageTyped ==
  ASSUME NEW i \in Nat, NEW end \in Nat
  PROVE  /\ LastRetrieved(i, end) \in Nat
         /\ LastRetrieved(i, end) # end => LastRetrieved(i, end) \in i .. end
<1> DEFINE full == {j \in i .. end : Cardinality({x \in i .. j : Unspent(x)}) = Page}
<1>1. full \subseteq Nat /\ full \subseteq i .. end
  OBVIOUS
<1>2. full # {} => Min(full) \in full
  <2> HIDE DEF full
  <2> QED
    BY <1>1, MinExists
<1>3. LastRetrieved(i, end) = IF full = {} THEN end ELSE Min(full)
  BY DEF LastRetrieved
<1> QED
  BY <1>1, <1>2, <1>3

(* The end of a batch is a height not above the tip read.                  *)
LEMMA BatchEndTyped ==
  ASSUME TypeOK, NEW t \in Scanners, th[t].h <= th[t].tip
  PROVE  BatchEnd(th[t]) \in Nat /\ BatchEnd(th[t]) <= th[t].tip /\ BatchEnd(th[t]) + 1 > th[t].h
<1>1. th[t].h \in Nat /\ th[t].tip \in Nat /\ Batch \in Nat /\ Batch >= 1
  BY Parameters DEF TypeOK, Jobs
<1>2. CASE th[t].kind = "view" \/ th[t].h + Batch - 1 > th[t].tip
  BY <1>1, <1>2 DEF BatchEnd
<1>3. CASE ~(th[t].kind = "view" \/ th[t].h + Batch - 1 > th[t].tip)
  <2>1. BatchEnd(th[t]) = th[t].h + Batch - 1
    BY <1>3 DEF BatchEnd
  <2> QED
    BY <1>1, <1>3, <2>1
<1> QED
  BY <1>2, <1>3

(* What is on the chain and not someone else's is a key.                   *)
LEMMA OnChainKeys == ASSUME TypeOK PROVE OnChain \subseteq Key /\ Tip \in Nat
  BY DEF TypeOK, OnChain, Tip

(* The initial states are well typed.                                      *)
LEMMA InitTyped == Init => TypeOK
<1> SUFFICES ASSUME Init PROVE TypeOK
  OBVIOUS
<1>1. chain \in Seq(Key \cup {NoKey}) /\ spent \subseteq Key
  <2>1. chain \in Seq(Key \cup {NoKey})
    BY RestoreAssumption DEF Init
  <2> QED
    BY <2>1 DEF Init
<1>2. IsFiniteSet(DOMAIN accts)
  BY FS_Singleton DEF Init
<1>3. accts \in [DOMAIN accts -> Path] /\ Default \in DOMAIN accts /\ accts[Default] = 0
  BY RestoreAssumption DEF Init, Path
<1>4. Idle \in Jobs /\ Ended \in Jobs
  BY RestoreAssumption DEF Idle, Ended, Jobs, Steps, Path
<1>5. th \in [Scanners -> Jobs]
  BY <1>4 DEF Init
<1>6. view \in [from : Nat \ {0}, tip : Nat, got : SUBSET Key]
  BY DEF Init, NoView
<1> QED
  BY <1>1, <1>2, <1>3, <1>5, <1>6, RestoreAssumption DEF Init, TypeOK, Statuses, Path

(* One thread takes a step, the others stay where they are.                *)
LEMMA BecomeTyped ==
  ASSUME th \in [Scanners -> Jobs], NEW t \in Scanners, NEW r, Become(t, r), r \in Jobs
  PROVE  /\ th' \in [Scanners -> Jobs] /\ th'[t] = r
         /\ \A u \in Scanners : u # t => th'[u] = th[u]
  BY DEF Become

(* The idle thread and the updater that does not run are well typed.       *)
LEMMA IdleTyped == Idle \in Jobs /\ Ended \in Jobs
  BY RestoreAssumption DEF Idle, Ended, Jobs, Steps, Path

(* Blocks are mined, outputs spent.                                        *)
LEMMA NodeTyped == TypeOK /\ (Mine \/ Spend) => TypeOK'
<1> SUFFICES ASSUME TypeOK, Mine \/ Spend PROVE TypeOK'
  OBVIOUS
<1>1. chain' \in Seq(Key \cup {NoKey}) /\ spent' \subseteq Key
  <2>1. CASE Mine
    <3>1. PICK k \in {NoKey} \cup Key : chain' = Append(chain, k)
      BY <2>1 DEF Mine
    <3> DEFINE C == Key \cup {NoKey}
    <3>2. chain \in Seq(C) /\ k \in C
      BY DEF TypeOK
    <3>3. chain' \in Seq(C)
      <4> HIDE DEF C
      <4> QED
        BY <3>1, <3>2
    <3> QED
      BY <2>1, <3>3 DEF Mine, TypeOK
  <2>2. CASE Spend
    BY <2>2, OnChainKeys DEF Spend, TypeOK
  <2> QED
    BY <2>1, <2>2
<1>2. UNCHANGED <<db, active, lock, th, view>>
  BY DEF Mine, Spend
<1> QED
  BY <1>1, <1>2 DEF TypeOK, db

(* A label added or given to another path.                                 *)
LEMMA SavedPath ==
  ASSUME TypeOK, NEW label, NEW p \in Path, accts' = save_acct_path(label, p)
  PROVE  /\ DOMAIN accts' = DOMAIN accts \cup {label}
         /\ accts' \in [DOMAIN accts' -> Path] /\ IsFiniteSet(DOMAIN accts')
         /\ accts'[label] = p /\ \A l \in DOMAIN accts : l # label => accts'[l] = accts[l]
<1>1. IsFiniteSet(DOMAIN accts \cup {label})
  BY FS_AddElement DEF TypeOK
<1> QED
  BY <1>1 DEF save_acct_path, TypeOK

(* The highest path of an account is a path.                               *)
LEMMA HighestPath ==
  ASSUME TypeOK PROVE Max(PathsOf(accts)) \in Path
<1>1. PathsOf(accts) \subseteq 0 .. MaxPath /\ PathsOf(accts) # {} /\ MaxPath \in Nat
  <2>1. \A l \in DOMAIN accts : accts[l] \in 0 .. MaxPath
    BY DEF TypeOK, Path
  <2> QED
    BY <2>1, Parameters DEF PathsOf, TypeOK
<1>2. Max(PathsOf(accts)) \in PathsOf(accts)
  BY <1>1, MaxExists
<1> QED
  BY <1>1, <1>2 DEF Path

(* Accounts, addresses and crashes.                                        *)
LEMMA UserTyped == TypeOK /\ (User \/ Crash) => TypeOK'
<1> SUFFICES ASSUME TypeOK, User \/ Crash PROVE TypeOK'
  OBVIOUS
<1>1. ASSUME NEW label, create_account(label) PROVE TypeOK'
  <2>1. Max(PathsOf(accts)) + 1 \in Path
    BY <1>1, HighestPath, RestoreAssumption DEF create_account, Path
  <2>2. accts' \in [DOMAIN accts' -> Path] /\ IsFiniteSet(DOMAIN accts')
    BY <1>1, <2>1, SavedPath DEF create_account
  <2>3. Default \in DOMAIN accts' /\ accts'[Default] = 0
    <3>1. Default \in DOMAIN accts /\ accts[Default] = 0 /\ label # Default
      BY <1>1 DEF create_account, TypeOK
    <3> QED
      BY <1>1, <2>1, <3>1, SavedPath DEF create_account
  <2> QED
    BY <1>1, <2>2, <2>3 DEF create_account, TypeOK, node
<1>2. ASSUME NEW label, set_active_account(label) PROVE TypeOK'
  BY <1>2 DEF set_active_account, TypeOK, node, db
<1>3. CASE Receive
  <2>1. child' \in [Path -> Nat]
    BY <1>3 DEF Receive, TypeOK
  <2>2. outs' \in [Key -> Statuses]
    BY <1>3 DEF Receive, TypeOK, Statuses
  <2> QED
    BY <1>3, <2>1, <2>2 DEF Receive, TypeOK, node
<1>4. CASE Crash
  <2>1. th' \in [Scanners -> Jobs]
    BY <1>4, IdleTyped DEF Crash
  <2> QED
    BY <1>4, <2>1, RestoreAssumption DEF Crash, TypeOK, node, db, Path
<1> QED
  BY <1>1, <1>2, <1>3, <1>4 DEF User

(* A job starts.                                                           *)
LEMMA StartTyped == ASSUME TypeOK, NEW t \in Scanners, Start(t) PROVE TypeOK'
<1>1. ASSUME StartUpdate(t) PROVE TypeOK'
  <2>1. [Idle EXCEPT !.kind = "update", !.pc = "refresh"] \in Jobs
    BY IdleTyped DEF Jobs, Steps
  <2> QED
    BY <1>1, <2>1, BecomeTyped DEF StartUpdate, TypeOK, Quiet, node, db
<1>2. ASSUME NEW from \in 1 .. Tip, StartScan(t, from) PROVE TypeOK'
  <2>0. from \in Nat
    BY OnChainKeys
  <2>1. [Idle EXCEPT !.kind = "scan", !.pc = "refresh", !.from = from] \in Jobs
    BY <2>0, IdleTyped DEF Jobs, Steps
  <2> QED
    BY <1>2, <2>1, BecomeTyped DEF StartScan, TypeOK, Quiet, node, db
<1>3. ASSUME NEW from \in 1 .. Tip, StartView(t, from) PROVE TypeOK'
  <2>0. from \in Nat
    BY OnChainKeys
  <2>1. [Idle EXCEPT !.kind = "view", !.pc = "tip", !.from = from] \in Jobs
    BY <2>0, IdleTyped DEF Jobs, Steps
  <2> QED
    BY <1>3, <2>1, BecomeTyped DEF StartView, TypeOK, Quiet, node, db
<1>4. ASSUME start_updater(t) PROVE TypeOK'
  BY <1>4, IdleTyped, BecomeTyped DEF start_updater, TypeOK, Quiet, node, db
<1>5. ASSUME stop_updater(t) PROVE TypeOK'
  BY <1>5, IdleTyped, BecomeTyped DEF stop_updater, TypeOK, Quiet, node, db
<1> QED
  BY <1>1, <1>2, <1>3, <1>4, <1>5 DEF Start

(* A job fails.                                                            *)
LEMMA FailTyped == ASSUME TypeOK, NEW t \in Scanners, JobFails(t) PROVE TypeOK'
<1> DEFINE r == IF th[t].kind = "update" /\ t \in Updaters THEN Ended ELSE Idle
<1>1. r \in Jobs
  BY IdleTyped
<1>2. Become(t, r)
  BY DEF JobFails
<1> HIDE DEF r
<1>3. th' \in [Scanners -> Jobs]
  BY <1>1, <1>2, BecomeTyped DEF TypeOK
<1>4. lock' \in Scanners \cup {NoOne}
  BY DEF JobFails, TypeOK
<1> QED
  BY <1>3, <1>4 DEF JobFails, TypeOK, node, db

(* A refresh.                                                              *)
LEMMA RefreshTyped ==
  ASSUME TypeOK, NEW t \in Scanners,
         RefreshAsk(t) \/ Response(t) \/ RefreshApply(t) \/ RefreshFails(t)
  PROVE  TypeOK'
<1>1. th[t] \in Jobs
  BY DEF TypeOK
<1>2. CASE RefreshAsk(t)
  <2> DEFINE r == [th[t] EXCEPT !.pc = "hear",
                     !.ask = {k \in Key : k[1] = active /\ outs[k] \in {"Unconfirmed", "Unspent"}}]
  <2>1. r \in Jobs
    BY <1>1 DEF Jobs, Steps
  <2>2. Become(t, r)
    BY <1>2 DEF RefreshAsk
  <2> HIDE DEF r
  <2> QED
    BY <1>2, <2>1, <2>2, BecomeTyped DEF RefreshAsk, TypeOK, Quiet, node, db
<1>3. CASE Response(t)
  <2>1. PICK C \in SUBSET th[t].ask :
               Become(t, [th[t] EXCEPT !.ask = @ \ C, !.heard = @ \cup (C \cap (OnChain \ spent))])
    BY <1>3 DEF Response
  <2>2. [th[t] EXCEPT !.ask = @ \ C, !.heard = @ \cup (C \cap (OnChain \ spent))] \in Jobs
    BY <1>1 DEF Jobs
  <2> QED
    BY <1>3, <2>1, <2>2, BecomeTyped DEF Response, TypeOK, Quiet, node, db
<1>4. \A ok \in BOOLEAN : AfterRefresh(t, ok) \in Jobs
  BY <1>1, IdleTyped DEF AfterRefresh, Jobs, Steps
<1>5. CASE RefreshApply(t)
  <2>1. outs' \in [Key -> Statuses]
    <3>1. \A k \in Key : outs'[k] \in Statuses
      BY <1>5 DEF RefreshApply, TypeOK, Statuses
    <3> QED
      BY <1>5, <3>1 DEF RefreshApply
  <2>2. th' \in [Scanners -> Jobs]
    BY <1>4, <1>5, BecomeTyped DEF RefreshApply, TypeOK
  <2> QED
    BY <1>5, <2>1, <2>2 DEF RefreshApply, TypeOK, Quiet, node
<1>6. CASE RefreshFails(t)
  <2>1. th' \in [Scanners -> Jobs]
    BY <1>4, <1>6, BecomeTyped DEF RefreshFails, TypeOK
  <2> QED
    BY <1>6, <2>1 DEF RefreshFails, TypeOK, node, db
<1> QED
  BY <1>2, <1>3, <1>5, <1>6

(* The tip and the range are read, or the node fails.                      *)
LEMMA RangeTyped ==
  ASSUME TypeOK, NEW t \in Scanners, ReadTip(t) \/ ReadLast(t) \/ NodeFails(t)
  PROVE  TypeOK'
<1>1. th[t] \in Jobs
  BY DEF TypeOK
<1>2. CASE ReadTip(t)
  <2>1. [th[t] EXCEPT !.tip = Tip, !.pc = "range"] \in Jobs
    BY <1>1, OnChainKeys DEF Jobs, Steps
  <2> QED
    BY <1>2, <2>1, BecomeTyped DEF ReadTip, TypeOK, Quiet, node, db
<1>3. CASE ReadLast(t)
  <2> DEFINE from == ScanFrom(th[t])
             r == IF from > th[t].tip THEN Idle
                  ELSE [th[t] EXCEPT !.from = from, !.h = from, !.idx = FirstIndex(from), !.pc = "page"]
  <2>1. from \in Nat
    <3>1. th[t].tip \in Nat /\ th[t].from \in Nat /\ last \in Nat /\ Window \in Nat
      BY <1>1, Parameters DEF Jobs, TypeOK
    <3>2. \A block \in Nat : (IF block < Window THEN 0 ELSE block - Window) \in Nat
      BY <3>1
    <3> QED
      BY <3>1, <3>2 DEF ScanFrom
  <2>2. FirstIndex(from) \in Nat
    BY <2>1 DEF FirstIndex
  <2>3. r \in Jobs
    <3> HIDE DEF from
    <3> QED
      BY <1>1, <2>1, <2>2, IdleTyped DEF Jobs, Steps
  <2>4. Become(t, r)
    BY <1>3 DEF ReadLast
  <2> HIDE DEF r
  <2> QED
    BY <1>3, <2>3, <2>4, BecomeTyped DEF ReadLast, TypeOK, Quiet, node, db
<1>4. CASE NodeFails(t)
  BY <1>4, IdleTyped, BecomeTyped DEF NodeFails, TypeOK, node, db
<1> QED
  BY <1>2, <1>3, <1>4

(* A page is read.                                                         *)
LEMMA PagesTyped ==
  ASSUME TypeOK, RefreshInv, ScanInv, NEW t \in Scanners, CollectPage(t) \/ ViewPage(t)
  PROVE  TypeOK'
<1>1. th[t] \in Jobs /\ th[t].h <= th[t].tip /\ th[t].tip <= Tip /\ th[t].idx >= 1
  BY DEF TypeOK, ScanInv, JobOK, Batched, CollectPage, ViewPage
<1> DEFINE end == BatchEnd(th[t])
           L == LastRetrieved(th[t].idx, end)
           p == PageOf(th[t])
<1>2. end \in Nat /\ end <= Tip
  BY <1>1, BatchEndTyped, OnChainKeys DEF Jobs
<1>3. L \in Nat /\ L <= Tip
  <2>1. th[t].idx \in Nat
    BY <1>1 DEF Jobs
  <2>2. L \in Nat /\ (L = end \/ L \in th[t].idx .. end)
    BY <1>2, <2>1, PageTyped
  <2> QED
    BY <1>2, <2>1, <2>2, OnChainKeys
<1>4. p.got \in SUBSET Key /\ p.next \in Nat
  <2>1. \A j \in th[t].idx .. L : chain[j] \in Key \cup {NoKey}
    <3>1. \A j \in 1 .. Tip : chain[j] \in Key \cup {NoKey}
      BY DEF TypeOK, Tip
    <3>2. th[t].idx \in Nat
      BY <1>1 DEF Jobs
    <3> QED
      BY <1>1, <1>3, <3>1, <3>2, OnChainKeys
  <2>2. get_outputs_by_pmmr_index(th[t].idx, end) \subseteq Key \cup {NoKey}
    BY <2>1 DEF get_outputs_by_pmmr_index
  <2>3. p.got = th[t].got \cup identify_utxo_outputs(get_outputs_by_pmmr_index(th[t].idx, end))
        /\ p.next = L + 1
    BY DEF PageOf, NextIndex
  <2> QED
    BY <1>1, <1>3, <2>2, <2>3 DEF identify_utxo_outputs, Jobs
<1> HIDE DEF p, end, L
<1>5. /\ [th[t] EXCEPT !.got = p.got, !.pc = "compare"] \in Jobs
      /\ [th[t] EXCEPT !.got = p.got, !.idx = p.next] \in Jobs
  BY <1>1, <1>4 DEF Jobs, Steps
<1>6. th' \in [Scanners -> Jobs]
  <2>1. CASE CollectPage(t)
    BY <1>5, <2>1, BecomeTyped DEF CollectPage, TypeOK, p
  <2>2. CASE ViewPage(t)
    BY <1>5, <2>2, BecomeTyped, IdleTyped DEF ViewPage, TypeOK, p
  <2> QED
    BY <2>1, <2>2
<1>7. view' \in [from : Nat \ {0}, tip : Nat, got : SUBSET Key]
  <2>1. CASE CollectPage(t)
    BY <2>1 DEF CollectPage, TypeOK
  <2>2. CASE ViewPage(t)
    <3>1. view' = view \/ view' = [from |-> th[t].from, tip |-> th[t].tip, got |-> p.got]
      BY <2>2 DEF ViewPage, p
    <3>2. th[t].from >= 1 /\ th[t].from \in Nat
      BY <1>1, <2>2 DEF ViewPage, ScanInv, JobOK, Jobs
    <3> QED
      BY <1>1, <1>4, <3>1, <3>2 DEF TypeOK, Jobs
  <2> QED
    BY <2>1, <2>2
<1> QED
  BY <1>6, <1>7 DEF CollectPage, ViewPage, TypeOK, Quiet, node, db

(* Outputs are compared, unspent again, restored.                          *)
LEMMA RestoreTyped ==
  ASSUME TypeOK, NEW t \in Scanners, Compare(t) \/ Again(t) \/ RestoreChunk(t)
  PROVE  TypeOK'
<1>1. th[t] \in Jobs
  BY DEF TypeOK
<1>2. CASE Compare(t)
  <2> DEFINE r == [th[t] EXCEPT !.pc = "again", !.got = {},
                     !.todo = {k \in th[t].got : outs[k] = "None"},
                     !.again = {k \in th[t].got : outs[k] = "Spent"}]
  <2>1. r \in Jobs
    BY <1>1 DEF Jobs, Steps
  <2>2. Become(t, r)
    BY <1>2 DEF Compare
  <2> HIDE DEF r
  <2> QED
    BY <1>2, <2>1, <2>2, BecomeTyped DEF Compare, TypeOK, Quiet, node, db
<1>3. CASE Again(t)
  <2>1. outs' \in [Key -> Statuses]
    BY <1>3 DEF Again, TypeOK, Statuses
  <2>2. [th[t] EXCEPT !.pc = "restore", !.again = {}] \in Jobs
    BY <1>1 DEF Jobs, Steps
  <2> QED
    BY <1>3, <2>1, <2>2, BecomeTyped DEF Again, TypeOK, Quiet, node
<1>4. CASE RestoreChunk(t)
  <2>1. PICK C \in SUBSET th[t].todo :
              /\ outs' = [k \in Key |-> IF k \in C THEN "Unspent" ELSE outs[k]]
              /\ Become(t, [th[t] EXCEPT !.todo = @ \ C, !.found = @ \cup C])
    BY <1>4 DEF RestoreChunk
  <2>2. outs' \in [Key -> Statuses]
    BY <2>1 DEF TypeOK, Statuses
  <2>3. [th[t] EXCEPT !.todo = @ \ C, !.found = @ \cup C] \in Jobs
    BY <1>1 DEF Jobs
  <2> QED
    BY <1>4, <2>1, <2>2, <2>3, BecomeTyped DEF RestoreChunk, TypeOK, Quiet, node
<1> QED
  BY <1>2, <1>3, <1>4

(* SaveChild finds the highest child restored for the path it is at.       *)
LEMMA HighestChild ==
  ASSUME TypeOK, AccountInv, NEW t \in Scanners, th[t].pc = "child"
  PROVE  LET max == Max({k[2] : k \in {j \in th[t].found : j[1] = th[t].at}})
         IN  max \in Nat /\ \A k \in th[t].found : k[1] = th[t].at => k[2] <= max
<1> DEFINE S == {k[2] : k \in {j \in th[t].found : j[1] = th[t].at}}
<1>0. th[t].found \subseteq Key /\ th[t].at \in {k[1] : k \in th[t].found}
  BY DEF TypeOK, Jobs, AccountInv, AccountsKnown
<1>1. S \subseteq 0 .. MaxChild
  <2>1. \A k \in th[t].found : k[2] \in 0 .. MaxChild
    BY <1>0, KeyParts
  <2> QED
    BY <2>1
<1>2. S # {}
  <2>1. PICK k \in th[t].found : k[1] = th[t].at
    BY <1>0
  <2>2. k[2] \in S
    BY <2>1
  <2> QED
    BY <2>2
<1>3. \A k \in th[t].found : k[1] = th[t].at => k[2] \in S
  OBVIOUS
<1>4. S \subseteq Nat
  BY <1>1, Parameters
<1> HIDE DEF S
<1>5. Max(S) \in S /\ \A y \in S : Max(S) >= y
  BY <1>1, <1>2, Parameters, MaxExists
<1>6. Max(S) \in Nat /\ \A k \in th[t].found : k[1] = th[t].at => k[2] <= Max(S)
  BY <1>3, <1>4, <1>5
<1> QED
  BY <1>6 DEF S

(* Accounts and child indices are saved.                                   *)
LEMMA AccountsTyped ==
  ASSUME TypeOK, AccountInv, NEW t \in Scanners,
         BeginAccounts(t) \/ (\E p \in Path : SetAccount(t, p)) \/ SaveChild(t) \/ EndAccounts(t)
  PROVE  TypeOK'
<1>1. th[t] \in Jobs
  BY DEF TypeOK
<1>2. CASE BeginAccounts(t)
  <2> DEFINE r == [th[t] EXCEPT !.pc = "account", !.n = Cardinality(DOMAIN accts),
                     !.known = PathsOf(accts), !.left = {k[1] : k \in th[t].found}]
  <2>1. Cardinality(DOMAIN accts) \in Nat
    BY FS_CardinalityType DEF TypeOK
  <2>2. {k[1] : k \in th[t].found} \subseteq Path /\ PathsOf(accts) \subseteq Path
    <3>1. {k[1] : k \in th[t].found} \subseteq Path
      BY <1>1, KeyParts DEF Jobs
    <3>2. \A l \in DOMAIN accts : accts[l] \in Path
      BY DEF TypeOK
    <3> QED
      BY <3>1, <3>2 DEF PathsOf
  <2>3. r \in Jobs
    BY <1>1, <2>1, <2>2 DEF Jobs, Steps
  <2>4. Become(t, r)
    BY <1>2 DEF BeginAccounts
  <2> HIDE DEF r
  <2> QED
    BY <1>2, <2>3, <2>4, BecomeTyped DEF BeginAccounts, TypeOK, Quiet, node, db
<1>3. ASSUME NEW p \in Path, SetAccount(t, p) PROVE TypeOK'
  <2> DEFINE new == p \notin th[t].known
             r == [th[t] EXCEPT !.n = IF new THEN NextLabel(@) ELSE @,
                     !.at = p, !.left = @ \ {p}, !.pc = "child"]
  <2>1. r \in Jobs
    <3>1. \A n \in Nat : NextLabel(n) \in Nat
      BY DEF NextLabel
    <3> QED
      BY <1>1, <3>1 DEF Jobs, Steps
  <2>2. Become(t, r)
    BY <1>3 DEF SetAccount
  <2> HIDE DEF r
  <2>3. accts' = accts \/ accts' = save_acct_path(Label(th[t].n), p)
    BY <1>3 DEF SetAccount
  <2>4. accts' \in [DOMAIN accts' -> Path] /\ IsFiniteSet(DOMAIN accts')
    BY <2>3, SavedPath DEF TypeOK
  <2>5. Default \in DOMAIN accts' /\ accts'[Default] = 0
    <3>1. Default \in DOMAIN accts /\ accts[Default] = 0 /\ Label(th[t].n) # Default
      BY LabelsDiffer DEF TypeOK
    <3>2. CASE accts' = accts
      BY <3>1, <3>2
    <3>3. CASE accts' = save_acct_path(Label(th[t].n), p)
      <4>1. /\ DOMAIN accts' = DOMAIN accts \cup {Label(th[t].n)}
            /\ \A l \in DOMAIN accts : l # Label(th[t].n) => accts'[l] = accts[l]
        BY <3>3, SavedPath
      <4> QED
        BY <3>1, <4>1
    <3> QED
      BY <2>3, <3>2, <3>3
  <2> QED
    BY <1>3, <2>1, <2>2, <2>4, <2>5, BecomeTyped DEF SetAccount, TypeOK, Quiet, node
<1>4. CASE SaveChild(t)
  <2>1. child' \in [Path -> Nat]
    <3> DEFINE max == Max({k[2] : k \in {j \in th[t].found : j[1] = th[t].at}})
    <3>1. max \in Nat
      BY <1>4, HighestChild DEF SaveChild
    <3>2. child' = child \/ child' = [child EXCEPT ![th[t].at] = max + 1]
      BY <1>4 DEF SaveChild
    <3> HIDE DEF max
    <3> QED
      BY <3>1, <3>2 DEF TypeOK
  <2>2. [th[t] EXCEPT !.pc = "account", !.at = 0] \in Jobs
    BY <1>1, IdleTyped DEF Jobs, Steps, Idle
  <2> QED
    BY <1>4, <2>1, <2>2, BecomeTyped DEF SaveChild, TypeOK, Quiet, node
<1>5. CASE EndAccounts(t)
  <2>1. [th[t] EXCEPT !.pc = "save", !.found = {}, !.known = {}, !.n = 0] \in Jobs
    BY <1>1 DEF Jobs, Steps
  <2> QED
    BY <1>5, <2>1, BecomeTyped DEF EndAccounts, TypeOK, Quiet, node, db
<1> QED
  BY <1>2, <1>3, <1>4, <1>5

(* A batch is done.                                                        *)
LEMMA SaveTyped ==
  ASSUME TypeOK, ScanInv, NEW t \in Scanners, SaveScan(t) \/ SaveUpdate(t)
  PROVE  TypeOK'
<1>1. th[t] \in Jobs /\ th[t].h <= th[t].tip
  BY DEF TypeOK, ScanInv, JobOK, Batched, SaveScan, SaveUpdate
<1> DEFINE next == BatchEnd(th[t]) + 1
           r == IF next > th[t].tip THEN Idle ELSE [th[t] EXCEPT !.h = next, !.idx = next, !.pc = "page"]
<1>2. BatchEnd(th[t]) \in Nat /\ next \in Nat
  BY <1>1, BatchEndTyped
<1>3. r \in Jobs
  <2> HIDE DEF next
  <2> QED
    BY <1>1, <1>2, IdleTyped DEF Jobs, Steps
<1>4. Become(t, r) /\ last' = BatchEnd(th[t])
  BY DEF SaveScan, SaveUpdate, NextBatch
<1> HIDE DEF r
<1> QED
  BY <1>2, <1>3, <1>4, BecomeTyped DEF SaveScan, SaveUpdate, TypeOK, Quiet, node

(* Every step is well typed.                                               *)
LEMMA NextTyped == Inv /\ [Next]_vars => TypeOK'
<1> SUFFICES ASSUME Inv, [Next]_vars PROVE TypeOK'
  OBVIOUS
<1>1. TypeOK /\ RefreshInv /\ ScanInv /\ AccountInv
  BY DEF Inv
<1>2. CASE UNCHANGED vars
  BY <1>1, <1>2 DEF vars, node, db, TypeOK
<1>3. CASE Mine \/ Spend
  BY <1>1, <1>3, NodeTyped
<1>4. CASE User \/ Crash
  BY <1>1, <1>4, UserTyped
<1>5. ASSUME NEW t \in Scanners, Start(t) \/ ScanStep(t) \/ RefreshFails(t) \/ NodeFails(t) \/ JobFails(t)
      PROVE  TypeOK'
  BY <1>1, <1>5, StartTyped, RefreshTyped, RangeTyped, PagesTyped, RestoreTyped, AccountsTyped, SaveTyped,
     FailTyped DEF ScanStep
<1> QED
  BY <1>2, <1>3, <1>4, <1>5 DEF Next

-----------------------------------------------------------------------------
(* What only grows.                                                        *)

(* No step takes back a block, a spending, a record or a mark, and what is *)
(* mined is in the wallet or someone else's.                               *)
Grows ==
    /\ Tip \in Nat /\ Tip' \in Nat /\ Tip <= Tip'
    /\ \A i \in 1 .. Tip : chain'[i] = chain[i]
    /\ \A i \in 1 .. Tip' : i > Tip => Settled(i)'
    /\ OnChain \subseteq OnChain' /\ spent \subseteq spent'
    /\ \A k \in Key : outs[k] # "None" => outs'[k] # "None"
    /\ marks \subseteq marks'

(* The chain, or what is left of it when nothing is mined.                 *)
LEMMA SameChain ==
  ASSUME TypeOK, UNCHANGED chain
  PROVE  /\ Tip' = Tip /\ OnChain' = OnChain /\ Tip \in Nat
         /\ \A i \in 1 .. Tip' : ~(i > Tip)
<1>1. Tip' = Tip /\ OnChain' = OnChain
  BY DEF Tip, OnChain
<1> QED
  BY <1>1, OnChainKeys

(* Every step only adds.                                                   *)
LEMMA StepGrows == TypeOK /\ [Next]_vars => Grows
<1> SUFFICES ASSUME TypeOK, [Next]_vars PROVE Grows
  OBVIOUS
<1>1. Tip \in Nat
  BY OnChainKeys
<1>2. CASE Mine
  <2>1. PICK k \in {NoKey} \cup {x \in Key \ OnChain : outs[x] = "Unconfirmed"} : chain' = Append(chain, k)
    BY <1>2 DEF Mine
  <2>2. /\ Len(chain') = Len(chain) + 1 /\ chain'[Len(chain) + 1] = k
        /\ \A i \in 1 .. Len(chain) : chain'[i] = chain[i]
    <3> DEFINE C == Key \cup {NoKey}
    <3>1. chain \in Seq(C) /\ k \in C
      BY DEF TypeOK
    <3> HIDE DEF C
    <3> QED
      BY <2>1, <3>1
  <2>3. Tip' = Tip + 1 /\ \A i \in 1 .. Tip' : i > Tip => chain'[i] = k
    BY <1>1, <2>2 DEF Tip
  <2>4. UNCHANGED <<outs, spent, marks>>
    BY <1>2 DEF Mine, db
  <2>5. \A i \in 1 .. Tip' : i > Tip => Settled(i)'
    BY <2>1, <2>3, <2>4 DEF Settled
  <2>6. OnChain \subseteq OnChain'
    <3>1. \A i \in 1 .. Tip : i \in 1 .. Tip' /\ chain'[i] = chain[i]
      BY <1>1, <2>2, <2>3 DEF Tip
    <3> QED
      BY <3>1 DEF OnChain
  <2> QED
    BY <1>1, <2>2, <2>3, <2>4, <2>5, <2>6 DEF Grows, Tip
<1>3. ASSUME UNCHANGED chain, spent \subseteq spent', marks \subseteq marks',
             \A k \in Key : outs[k] # "None" => outs'[k] # "None"
      PROVE  Grows
  BY <1>1, <1>3, SameChain DEF Grows
<1>4. CASE Spend
  BY <1>3, <1>4 DEF Spend, db
<1>5. CASE User
  <2>1. ASSUME NEW label, create_account(label) PROVE Grows
    BY <1>3, <2>1 DEF create_account, node
  <2>2. ASSUME NEW label, set_active_account(label) PROVE Grows
    BY <1>3, <2>2 DEF set_active_account, node, db
  <2>3. CASE Receive
    <3>1. \A k \in Key : outs[k] # "None" => outs'[k] # "None"
      BY <2>3 DEF Receive, TypeOK
    <3> QED
      BY <1>3, <2>3, <3>1 DEF Receive, node
  <2> QED
    BY <1>5, <2>1, <2>2, <2>3 DEF User
<1>6. CASE Crash
  BY <1>3, <1>6 DEF Crash, node, db
<1>7. ASSUME NEW t \in Scanners, Start(t) \/ ScanStep(t) \/ RefreshFails(t) \/ NodeFails(t) \/ JobFails(t)
      PROVE  Grows
  <2>1. UNCHANGED <<chain, spent>>
    BY <1>7 DEF Start, StartUpdate, start_updater, stop_updater, StartScan, StartView, ScanStep, RefreshAsk, Response, RefreshApply,
         ReadTip, ReadLast, CollectPage, ViewPage, Compare, Again, RestoreChunk, BeginAccounts, SetAccount,
         SaveChild, EndAccounts, SaveScan, SaveUpdate, RefreshFails, NodeFails, JobFails, Quiet, node
  <2>2. marks \subseteq marks'
    BY <1>7 DEF Start, StartUpdate, start_updater, stop_updater, StartScan, StartView, ScanStep, RefreshAsk, Response, RefreshApply,
         ReadTip, ReadLast, CollectPage, ViewPage, Compare, Again, RestoreChunk, BeginAccounts, SetAccount,
         SaveChild, EndAccounts, SaveScan, SaveUpdate, RefreshFails, NodeFails, JobFails
  <2>3. CASE RefreshApply(t)
    BY <1>3, <2>1, <2>2, <2>3 DEF RefreshApply, TypeOK
  <2>4. CASE Again(t)
    BY <1>3, <2>1, <2>2, <2>4 DEF Again, TypeOK
  <2>5. CASE RestoreChunk(t)
    BY <1>3, <2>1, <2>2, <2>5 DEF RestoreChunk, TypeOK
  <2>6. UNCHANGED outs \/ RefreshApply(t) \/ Again(t) \/ RestoreChunk(t)
    BY <1>7 DEF Start, StartUpdate, start_updater, stop_updater, StartScan, StartView, ScanStep, RefreshAsk, Response,
         ReadTip, ReadLast, CollectPage, ViewPage, Compare, BeginAccounts, SetAccount,
         SaveChild, EndAccounts, SaveScan, SaveUpdate, RefreshFails, NodeFails, JobFails, db
  <2> QED
    BY <1>3, <2>1, <2>2, <2>3, <2>4, <2>5, <2>6
<1>8. CASE UNCHANGED vars
  BY <1>3, <1>8 DEF vars, node, db
<1> QED
  BY <1>2, <1>4, <1>5, <1>6, <1>7, <1>8 DEF Next

(* A thread's step leaves the others where they are.                       *)
LEMMA BecomeSets ==
  ASSUME th \in [Scanners -> Jobs], NEW t \in Scanners, NEW r, Become(t, r)
  PROVE  th'[t] = r /\ \A u \in Scanners : u # t => th'[u] = th[u]
  BY DEF Become

(* A page has every unspent output of its blocks, and with it the job of   *)
(* all from the first block of its batch to the last of the page.          *)
LEMMA PageHas ==
  ASSUME TypeOK, RefreshInv, ScanInv, NEW t \in Scanners, th[t].pc = "page"
  PROVE  LET r == th[t]
             p == PageOf(r)
             L == LastRetrieved(r.idx, BatchEnd(r))
         IN  /\ p.got \subseteq OnChain /\ L \in Nat /\ p.next = L + 1 /\ (p.done <=> BatchEnd(r) <= L)
             /\ \A i \in 1 .. Tip : r.h <= i /\ i <= L => chain[i] \in p.got \cup spent \cup {NoKey}
<1> DEFINE r == th[t]
           end == BatchEnd(r)
           L == LastRetrieved(r.idx, end)
           page == identify_utxo_outputs(get_outputs_by_pmmr_index(r.idx, end))
<1>1. r \in Jobs /\ r.h <= r.tip /\ r.tip <= Tip /\ r.idx >= 1 /\ r.idx \in Nat /\ r.h \in Nat
  BY DEF TypeOK, ScanInv, JobOK, Batched, Jobs
<1>2. end \in Nat /\ end <= Tip
  BY <1>1, BatchEndTyped, OnChainKeys DEF Jobs
<1>3. L \in Nat /\ L <= Tip
  <2>1. L \in Nat /\ (L = end \/ L \in r.idx .. end)
    BY <1>1, <1>2, PageTyped
  <2> QED
    BY <1>1, <1>2, <2>1, OnChainKeys
<1>4. PageOf(r).got = r.got \cup page /\ PageOf(r).next = L + 1 /\ (PageOf(r).done <=> end <= L)
  BY DEF PageOf, NextIndex, LastPage
<1>5. page = {chain[j] : j \in {x \in r.idx .. L : Unspent(x)}} \ {NoKey}
  BY DEF get_outputs_by_pmmr_index, identify_utxo_outputs
<1> HIDE DEF page, L, end
<1>6. page \subseteq OnChain
  <2>1. \A j \in r.idx .. L : j \in 1 .. Tip
    BY <1>1, <1>3, OnChainKeys
  <2> QED
    BY <1>5, <2>1 DEF OnChain
<1>7. r.got \subseteq OnChain
  BY DEF RefreshInv
<1>8. ASSUME NEW i \in 1 .. Tip, r.h <= i, i <= L
      PROVE  chain[i] \in r.got \cup page \cup spent \cup {NoKey}
  <2>1. CASE i < r.idx
    BY <1>8, <2>1 DEF ScanInv, JobOK, BatchKnown, Collected
  <2>2. CASE ~(i < r.idx)
    <3>1. i \in r.idx .. L
      BY <1>1, <1>3, <1>8, <2>2, OnChainKeys
    <3> QED
      BY <1>5, <3>1 DEF Unspent
  <2> QED
    BY <2>1, <2>2
<1> QED
  BY <1>3, <1>4, <1>6, <1>7, <1>8 DEF L, end

-----------------------------------------------------------------------------
(* Refreshes write off only what is spent.                                 *)

Stored(r) == r.heard \cup r.got \cup r.todo \cup r.again \cup r.found

(* A refresh under way has accounted for the unspent records of the active *)
(* account.                                                                *)
HeardOK(r) ==
    r.pc = "hear" =>
        \A k \in Key : k[1] = active /\ outs[k] = "Unspent" => k \in r.ask \cup r.heard \cup spent

(* What a step of one thread has to leave behind.                          *)
LEMMA RefreshKept ==
  ASSUME TypeOK, RefreshInv, Grows, NEW t \in Scanners,
         \A u \in Scanners : u # t => th'[u] = th[u] /\ (lock' = u <=> lock = u),
         Stored(th'[t]) \subseteq OnChain',
         th'[t].pc \in Holding <=> lock' = t,
         HeardOK(th[t])',
         \/ UNCHANGED <<outs, active>>
         \/ /\ \A u \in Scanners : u # t => th[u].pc # "hear"
            /\ \A k \in Key : outs'[k] \in {"Unspent", "Spent"} => k \in OnChain'
            /\ NothingLost'
  PROVE  RefreshInv'
<1>1. \A u \in Scanners : th'[u].pc \in Holding <=> lock' = u
  BY DEF RefreshInv
<1>2. \A u \in Scanners : Stored(th'[u]) \subseteq OnChain'
  BY DEF RefreshInv, Stored, Grows
<1>3. NothingLost' /\ \A k \in Key : outs'[k] \in {"Unspent", "Spent"} => k \in OnChain'
  BY DEF RefreshInv, NothingLost, Grows
<1>4. ASSUME NEW u \in Scanners, th'[u].pc = "hear"
      PROVE  \A k \in Key : k[1] = active' /\ outs'[k] = "Unspent" => k \in th'[u].ask \cup th'[u].heard \cup spent'
  <2>1. CASE u = t
    BY <1>4, <2>1 DEF RefreshInv, HeardOK, Grows
  <2>2. CASE u # t
    BY <1>4, <2>2 DEF RefreshInv, Grows
  <2> QED
    BY <2>1, <2>2
<1> QED
  BY <1>1, <1>2, <1>3, <1>4 DEF RefreshInv, Stored

(* A thread without a job holds nothing.                                   *)
LEMMA IdleHolds ==
  ASSUME NEW r \in {Idle, Ended} PROVE r.pc \notin Holding /\ Stored(r) = {}
  BY DEF Idle, Ended, Holding, Stored

(* The invariant is made true.                                             *)
LEMMA InitRefresh == Init => RefreshInv
<1> SUFFICES ASSUME Init PROVE RefreshInv
  OBVIOUS
<1>1. \A t \in Scanners : th[t] \in {Idle, Ended}
  BY DEF Init
<1>2. \A k \in Key : outs[k] = "None"
  BY DEF Init
<1>3. \A t \in Scanners : th[t].pc \notin Holding /\ Stored(th[t]) = {}
  BY <1>1, IdleHolds
<1> QED
  BY <1>2, <1>3, RestoreAssumption DEF Init, RefreshInv, Holding, NothingLost, Stored

(* The node, users and a crash.                                            *)
LEMMA WorldRefresh ==
  ASSUME TypeOK, RefreshInv, Grows, Mine \/ Spend \/ User \/ Crash
  PROVE  RefreshInv'
<1>1. CASE Crash
  <2>1. \A t \in Scanners : th'[t] \in {Idle, Ended}
    BY <1>1 DEF Crash
  <2>2. \A t \in Scanners : th'[t].pc \notin Holding /\ Stored(th'[t]) = {}
    BY <2>1, IdleHolds
  <2> QED
    BY <1>1, <2>2, RestoreAssumption
       DEF Crash, RefreshInv, Holding, NothingLost, Stored, Grows, node, db
<1>2. ASSUME UNCHANGED <<th, lock>>,
             UNCHANGED <<outs, active>> \/ (Free /\ \A k \in Key : outs'[k] # outs[k] => outs'[k] = "Unconfirmed")
      PROVE  RefreshInv'
  <2>1. \A t \in Scanners : th'[t].pc \in Holding <=> lock' = t
    BY <1>2 DEF RefreshInv
  <2>2. Free => \A t \in Scanners : th[t].pc # "hear"
    BY Parameters DEF RefreshInv, Holding, Free
  <2>3. \A k \in Key : outs'[k] \in {"Unspent", "Spent"} => outs[k] = outs'[k]
    BY <1>2
  <2> QED
    BY <1>2, <2>1, <2>2, <2>3 DEF RefreshInv, NothingLost, Grows
<1>3. CASE Mine \/ Spend
  BY <1>2, <1>3 DEF Mine, Spend, db
<1>4. CASE User
  <2>1. ASSUME NEW label, create_account(label) PROVE RefreshInv'
    BY <1>2, <2>1 DEF create_account
  <2>2. ASSUME NEW label, set_active_account(label) PROVE RefreshInv'
    BY <1>2, <2>2 DEF set_active_account, db
  <2>3. CASE Receive
    <3>1. \A k \in Key : outs'[k] # outs[k] => outs'[k] = "Unconfirmed"
      BY <2>3 DEF Receive, TypeOK
    <3> QED
      BY <1>2, <2>3, <3>1 DEF Receive
  <2> QED
    BY <1>4, <2>1, <2>2, <2>3 DEF User
<1> QED
  BY <1>1, <1>3, <1>4

(* The steps of a thread that change no record and hold the mutex neither  *)
(* before nor after, or both.                                              *)
LEMMA QuietRefresh ==
  ASSUME TypeOK, RefreshInv, Grows, NEW t \in Scanners, NEW r, Become(t, r),
         UNCHANGED <<outs, active, lock>>, r.pc # "hear", r.pc \in Holding <=> th[t].pc \in Holding,
         Stored(r) \subseteq Stored(th[t]) \cup OnChain
  PROVE  RefreshInv'
<1>1. th'[t] = r /\ \A u \in Scanners : u # t => th'[u] = th[u]
  BY BecomeSets DEF TypeOK
<1>2. Stored(th'[t]) \subseteq OnChain'
  BY <1>1 DEF RefreshInv, Stored, Grows
<1>3. th'[t].pc \in Holding <=> lock' = t
  BY <1>1 DEF RefreshInv
<1>4. HeardOK(th[t])'
  BY <1>1 DEF HeardOK
<1> QED
  BY <1>1, <1>2, <1>3, <1>4, RefreshKept

(* Starts, reads of the tip and the range, failures, pages, comparisons    *)
(* and progress.                                                           *)
LEMMA PlainRefresh ==
  ASSUME TypeOK, RefreshInv, ScanInv, Grows, NEW t \in Scanners,
         \/ Start(t) \/ ReadTip(t) \/ ReadLast(t) \/ NodeFails(t) \/ CollectPage(t) \/ ViewPage(t)
         \/ Compare(t) \/ SaveScan(t) \/ SaveUpdate(t) \/ SaveChild(t)
         \/ \E p \in Path : SetAccount(t, p)
  PROVE  RefreshInv'
<1>1. th[t] \in Jobs
  BY DEF TypeOK
<1>2. Stored(Idle) = {} /\ Idle.pc = "idle" /\ Stored(Ended) = {} /\ Ended.pc = "ended"
  BY DEF Stored, Idle, Ended
<1>3. CASE Start(t)
  <2>1. PICK r : /\ Become(t, r) /\ r.pc \in {"idle", "ended", "refresh", "tip"} /\ Stored(r) = {}
                 /\ UNCHANGED <<outs, active, lock>> /\ th[t].pc \in {"idle", "ended"}
    <3>1. CASE StartUpdate(t)
      BY <3>1, <1>2 DEF StartUpdate, Idle, Stored, Quiet, db
    <3>2. ASSUME NEW from, StartScan(t, from)
          PROVE  \E r : /\ Become(t, r) /\ r.pc \in {"idle", "ended", "refresh", "tip"} /\ Stored(r) = {}
                        /\ UNCHANGED <<outs, active, lock>> /\ th[t].pc \in {"idle", "ended"}
      BY <3>2, <1>2 DEF StartScan, Idle, Stored, Quiet, db
    <3>3. ASSUME NEW from, StartView(t, from)
          PROVE  \E r : /\ Become(t, r) /\ r.pc \in {"idle", "ended", "refresh", "tip"} /\ Stored(r) = {}
                        /\ UNCHANGED <<outs, active, lock>> /\ th[t].pc \in {"idle", "ended"}
      BY <3>3, <1>2 DEF StartView, Idle, Stored, Quiet, db
    <3>4. CASE start_updater(t) \/ stop_updater(t)
      BY <3>4, <1>2 DEF start_updater, stop_updater, Quiet, db
    <3> QED
      BY <1>3, <3>1, <3>2, <3>3, <3>4 DEF Start
  <2> QED
    BY <2>1, QuietRefresh DEF Holding
<1>4. CASE ReadTip(t)
  <2> DEFINE r == [th[t] EXCEPT !.tip = Tip, !.pc = "range"]
  <2>1. r.pc = "range" /\ Stored(r) = Stored(th[t])
    BY <1>1 DEF Jobs, Stored
  <2>2. Become(t, r) /\ th[t].pc = "tip" /\ UNCHANGED <<outs, active, lock>>
    BY <1>4 DEF ReadTip, Quiet, db
  <2> HIDE DEF r
  <2> QED
    BY <2>1, <2>2, QuietRefresh DEF Holding
<1>5. CASE ReadLast(t)
  <2> DEFINE from == ScanFrom(th[t])
             s == [th[t] EXCEPT !.from = from, !.h = from, !.idx = FirstIndex(from), !.pc = "page"]
  <2>1. s.pc = "page" /\ Stored(s) = Stored(th[t])
    BY <1>1 DEF Jobs, Stored
  <2>2. (Become(t, Idle) \/ Become(t, s)) /\ th[t].pc = "range" /\ UNCHANGED <<outs, active, lock>>
    BY <1>5 DEF ReadLast, Quiet, db
  <2> HIDE DEF s
  <2> QED
    BY <1>2, <2>1, <2>2, QuietRefresh DEF Holding
<1>6. CASE NodeFails(t)
  BY <1>2, <1>6, QuietRefresh DEF NodeFails, Holding, db
<1>7. CASE CollectPage(t) \/ ViewPage(t)
  <2> DEFINE p == PageOf(th[t])
             s == [th[t] EXCEPT !.got = p.got, !.pc = "compare"]
             n == [th[t] EXCEPT !.got = p.got, !.idx = p.next]
  <2>1. th[t].pc = "page" /\ UNCHANGED <<outs, active, lock>>
    BY <1>7 DEF CollectPage, ViewPage, Quiet, db
  <2>2. p.got \subseteq OnChain
    BY <2>1, PageHas
  <2>3. s.pc = "compare" /\ n.pc = "page"
        /\ Stored(s) \subseteq Stored(th[t]) \cup OnChain /\ Stored(n) \subseteq Stored(th[t]) \cup OnChain
    <3> HIDE DEF p
    <3> QED
      BY <1>1, <2>1, <2>2 DEF Jobs, Stored
  <2>4. Become(t, Idle) \/ Become(t, s) \/ Become(t, n)
    BY <1>7 DEF CollectPage, ViewPage
  <2> HIDE DEF s, n
  <2> QED
    BY <1>2, <2>1, <2>3, <2>4, QuietRefresh DEF Holding
<1>8. CASE Compare(t)
  <2> DEFINE r == [th[t] EXCEPT !.pc = "again", !.got = {},
                     !.todo = {k \in th[t].got : outs[k] = "None"},
                     !.again = {k \in th[t].got : outs[k] = "Spent"}]
  <2>1. r.pc = "again" /\ Stored(r) \subseteq Stored(th[t])
    BY <1>1 DEF Jobs, Stored
  <2>2. Become(t, r) /\ th[t].pc = "compare" /\ UNCHANGED <<outs, active, lock>>
    BY <1>8 DEF Compare, Quiet, db
  <2> HIDE DEF r
  <2> QED
    BY <2>1, <2>2, QuietRefresh DEF Holding
<1>9. CASE SaveScan(t) \/ SaveUpdate(t)
  <2> DEFINE next == BatchEnd(th[t]) + 1
             s == [th[t] EXCEPT !.h = next, !.idx = next, !.pc = "page"]
  <2>1. s.pc = "page" /\ Stored(s) = Stored(th[t])
    BY <1>1 DEF Jobs, Stored
  <2>2. (Become(t, Idle) \/ Become(t, s)) /\ th[t].pc = "save" /\ UNCHANGED <<outs, active, lock>>
    BY <1>9 DEF SaveScan, SaveUpdate, NextBatch, Quiet
  <2> HIDE DEF s
  <2> QED
    BY <1>2, <2>1, <2>2, QuietRefresh DEF Holding
<1>10. CASE SaveChild(t)
  <2>1. [th[t] EXCEPT !.pc = "account", !.at = 0].pc = "account"
        /\ Stored([th[t] EXCEPT !.pc = "account", !.at = 0]) = Stored(th[t])
    BY <1>1 DEF Jobs, Stored
  <2> QED
    BY <1>10, <2>1, QuietRefresh DEF SaveChild, Holding, Quiet
<1>11. ASSUME NEW p \in Path, SetAccount(t, p) PROVE RefreshInv'
  <2> DEFINE new == p \notin th[t].known
             r == [th[t] EXCEPT !.n = IF new THEN NextLabel(@) ELSE @,
                     !.at = p, !.left = @ \ {p}, !.pc = "child"]
  <2>1. r.pc = "child" /\ Stored(r) = Stored(th[t])
    BY <1>1 DEF Jobs, Stored
  <2>2. Become(t, r) /\ th[t].pc = "account" /\ UNCHANGED <<outs, active, lock>>
    BY <1>11 DEF SetAccount, Quiet
  <2> HIDE DEF r
  <2> QED
    BY <2>1, <2>2, QuietRefresh DEF Holding
<1> QED
  BY <1>3, <1>4, <1>5, <1>6, <1>7, <1>8, <1>9, <1>10, <1>11

(* The mutex is taken and given back.                                      *)
LEMMA MutexPassed ==
  ASSUME TypeOK, RefreshInv, NEW t \in Scanners,
         (Free /\ lock' = t) \/ (lock = t /\ lock' = NoOne)
  PROVE  \A u \in Scanners : u # t => (lock' = u <=> lock = u)
  BY Parameters DEF Free

(* A refresh asks, hears, writes, fails; accounts are begun and ended.     *)
LEMMA MutexRefresh ==
  ASSUME TypeOK, RefreshInv, Grows, NEW t \in Scanners,
         RefreshAsk(t) \/ Response(t) \/ RefreshApply(t) \/ RefreshFails(t) \/ BeginAccounts(t) \/ EndAccounts(t)
  PROVE  RefreshInv'
<1>1. th[t] \in Jobs /\ Stored(th[t]) \subseteq OnChain
  BY DEF TypeOK, RefreshInv, Stored
<1>2. CASE RefreshAsk(t)
  <2> DEFINE asked == {k \in Key : k[1] = active /\ outs[k] \in {"Unconfirmed", "Unspent"}}
             r == [th[t] EXCEPT !.pc = "hear", !.ask = asked]
  <2>1. r.pc = "hear" /\ r.ask = asked /\ Stored(r) = Stored(th[t])
    <3> HIDE DEF asked
    <3> QED
      BY <1>1 DEF Jobs, Stored
  <2>2. th'[t] = r /\ \A u \in Scanners : u # t => th'[u] = th[u]
    <3>1. Become(t, r)
      BY <1>2 DEF RefreshAsk
    <3> QED
      BY <3>1, BecomeSets DEF TypeOK
  <2>3. UNCHANGED <<outs, active>> /\ Free /\ lock' = t
    BY <1>2 DEF RefreshAsk, Quiet, db
  <2>4. HeardOK(th[t])'
    BY <2>1, <2>2, <2>3 DEF HeardOK
  <2> HIDE DEF r
  <2>5. Stored(th'[t]) \subseteq OnChain' /\ th'[t].pc \in Holding
    BY <1>1, <2>1, <2>2 DEF Grows, Holding
  <2> QED
    BY <2>2, <2>3, <2>4, <2>5, MutexPassed, RefreshKept
<1>3. CASE Response(t)
  <2>1. PICK C \in SUBSET th[t].ask :
               Become(t, [th[t] EXCEPT !.ask = @ \ C, !.heard = @ \cup (C \cap (OnChain \ spent))])
    BY <1>3 DEF Response
  <2> DEFINE r == [th[t] EXCEPT !.ask = @ \ C, !.heard = @ \cup (C \cap (OnChain \ spent))]
  <2>2. /\ r.pc = "hear" /\ r.ask = th[t].ask \ C /\ r.heard = th[t].heard \cup (C \cap (OnChain \ spent))
        /\ r.got = th[t].got /\ r.todo = th[t].todo /\ r.again = th[t].again /\ r.found = th[t].found
    BY <1>1, <1>3 DEF Jobs, Response
  <2>3. th'[t] = r /\ \A u \in Scanners : u # t => th'[u] = th[u]
    BY <2>1, BecomeSets DEF TypeOK
  <2>4. UNCHANGED <<outs, active, lock>> /\ th[t].pc = "hear"
    BY <1>3 DEF Response, Quiet, db
  <2> HIDE DEF r
  <2>5. Stored(th'[t]) \subseteq OnChain'
    BY <1>1, <2>2, <2>3 DEF Grows, Stored
  <2>6. HeardOK(th[t])'
    <3>1. \A k \in Key : k[1] = active /\ outs[k] = "Unspent"
             => k \in OnChain /\ k \in th[t].ask \cup th[t].heard \cup spent
      BY <2>4 DEF RefreshInv
    <3> QED
      BY <2>2, <2>3, <2>4, <3>1 DEF HeardOK, Grows
  <2>7. th'[t].pc \in Holding <=> lock' = t
    BY <2>2, <2>3, <2>4 DEF RefreshInv, Holding
  <2> QED
    BY <2>3, <2>4, <2>5, <2>6, <2>7, RefreshKept
<1>4. \A ok : AfterRefresh(t, ok).pc \notin Holding /\ Stored(AfterRefresh(t, ok)) \subseteq OnChain
  BY <1>1 DEF AfterRefresh, Holding, Idle, Stored, Jobs
<1>5. CASE RefreshFails(t)
  <2>1. th'[t] = AfterRefresh(t, FALSE) /\ \A u \in Scanners : u # t => th'[u] = th[u]
    BY <1>5, BecomeSets DEF RefreshFails, TypeOK
  <2>2. UNCHANGED <<outs, active>> /\ lock = t /\ lock' = NoOne
    BY <1>5 DEF RefreshFails, db, RefreshInv, Holding
  <2>3. Stored(th'[t]) \subseteq OnChain' /\ th'[t].pc \notin Holding
    BY <1>4, <2>1 DEF Grows
  <2>4. HeardOK(th[t])'
    BY <2>3 DEF HeardOK, Holding
  <2> QED
    BY <2>1, <2>2, <2>3, <2>4, MutexPassed, Parameters, RefreshKept
<1>6. CASE RefreshApply(t)
  <2>1. th'[t] = AfterRefresh(t, TRUE) /\ \A u \in Scanners : u # t => th'[u] = th[u]
    BY <1>6, BecomeSets DEF RefreshApply, TypeOK
  <2>2. lock = t /\ lock' = NoOne /\ th[t].pc = "hear" /\ th[t].ask = {}
    BY <1>6 DEF RefreshApply, RefreshInv, Holding
  <2>3. Stored(th'[t]) \subseteq OnChain' /\ th'[t].pc \notin Holding
    BY <1>4, <2>1 DEF Grows
  <2>4. HeardOK(th[t])'
    BY <2>3 DEF HeardOK, Holding
  <2>5. \A u \in Scanners : u # t => th[u].pc # "hear"
    BY <2>2 DEF RefreshInv, Holding
  <2>6. \A k \in Key : \/ outs'[k] = outs[k]
                       \/ outs'[k] = "Unspent" /\ k \in th[t].heard
                       \/ outs'[k] = "Spent" /\ outs[k] = "Unspent" /\ k[1] = active /\ k \notin th[t].heard
    BY <1>6 DEF RefreshApply
  <2>7. \A k \in Key : outs'[k] \in {"Unspent", "Spent"} => k \in OnChain'
    BY <1>1, <2>6 DEF RefreshInv, Stored, Grows
  <2>8. NothingLost'
    BY <2>2, <2>6 DEF RefreshInv, NothingLost, Grows
  <2> QED
    BY <2>1, <2>2, <2>3, <2>4, <2>5, <2>7, <2>8, MutexPassed, Parameters, RefreshKept
<1>7. CASE BeginAccounts(t)
  <2> DEFINE left == {k[1] : k \in th[t].found}
             r == [th[t] EXCEPT !.pc = "account", !.n = Cardinality(DOMAIN accts), !.known = PathsOf(accts), !.left = left]
  <2>1. r.pc = "account" /\ Stored(r) = Stored(th[t])
    <3> HIDE DEF left
    <3> QED
      BY <1>1 DEF Jobs, Stored
  <2>2. th'[t] = r /\ \A u \in Scanners : u # t => th'[u] = th[u]
    <3>1. Become(t, r)
      BY <1>7 DEF BeginAccounts
    <3> QED
      BY <3>1, BecomeSets DEF TypeOK
  <2>3. UNCHANGED <<outs, active>> /\ Free /\ lock' = t
    BY <1>7 DEF BeginAccounts, Quiet, db
  <2> HIDE DEF r
  <2>4. HeardOK(th[t])' /\ Stored(th'[t]) \subseteq OnChain' /\ th'[t].pc \in Holding
    BY <1>1, <2>1, <2>2 DEF HeardOK, Grows, Holding
  <2> QED
    BY <2>2, <2>3, <2>4, MutexPassed, RefreshKept
<1>8. CASE EndAccounts(t)
  <2> DEFINE r == [th[t] EXCEPT !.pc = "save", !.found = {}, !.known = {}, !.n = 0]
  <2>1. r.pc = "save" /\ Stored(r) \subseteq Stored(th[t])
    BY <1>1 DEF Jobs, Stored
  <2>2. th'[t] = r /\ \A u \in Scanners : u # t => th'[u] = th[u]
    BY <1>8, BecomeSets DEF EndAccounts, TypeOK
  <2>3. UNCHANGED <<outs, active>> /\ lock = t /\ lock' = NoOne
    BY <1>8 DEF EndAccounts, Quiet, db, RefreshInv, Holding
  <2> HIDE DEF r
  <2>4. HeardOK(th[t])' /\ Stored(th'[t]) \subseteq OnChain' /\ th'[t].pc \notin Holding
    BY <1>1, <2>1, <2>2 DEF HeardOK, Grows, Holding
  <2> QED
    BY <2>2, <2>3, <2>4, MutexPassed, Parameters, RefreshKept
<1> QED
  BY <1>2, <1>3, <1>5, <1>6, <1>7, <1>8

(* A job that fails gives the mutex back.                                  *)
LEMMA FailRefresh ==
  ASSUME TypeOK, RefreshInv, Grows, NEW t \in Scanners, JobFails(t)
  PROVE  RefreshInv'
<1>1. PICK r \in {Idle, Ended} : Become(t, r)
  BY DEF JobFails
<1>2. th'[t] = r /\ \A u \in Scanners : u # t => th'[u] = th[u]
  BY <1>1, BecomeSets DEF TypeOK
<1>3. th'[t].pc \notin Holding /\ Stored(th'[t]) = {}
  BY <1>2, IdleHolds
<1>4. HeardOK(th[t])'
  BY <1>3 DEF HeardOK, Holding
<1>5. UNCHANGED <<outs, active>> /\ lock' # t /\ \A u \in Scanners : u # t => (lock' = u <=> lock = u)
  BY Parameters DEF JobFails, db
<1> QED
  BY <1>2, <1>3, <1>4, <1>5, RefreshKept

(* Outputs are restored or unspent again, while no refresh is under way.   *)
LEMMA RestoreRefresh ==
  ASSUME TypeOK, RefreshInv, Grows, NEW t \in Scanners, Again(t) \/ RestoreChunk(t)
  PROVE  RefreshInv'
<1>1. th[t] \in Jobs /\ Stored(th[t]) \subseteq OnChain
  BY DEF TypeOK, RefreshInv, Stored
<1>2. Free /\ UNCHANGED lock /\ \A u \in Scanners : th[u].pc # "hear"
  BY Parameters DEF Again, RestoreChunk, RefreshInv, Holding, Free
<1>3. /\ th'[t].pc = "restore" /\ Stored(th'[t]) \subseteq Stored(th[t])
      /\ \A u \in Scanners : u # t => th'[u] = th[u]
      /\ \A k \in Key : outs'[k] = outs[k] \/ (outs'[k] = "Unspent" /\ k \in Stored(th[t]))
  <2>1. CASE Again(t)
    <3> DEFINE r == [th[t] EXCEPT !.pc = "restore", !.again = {}]
    <3>1. th'[t] = r /\ \A u \in Scanners : u # t => th'[u] = th[u]
      BY <2>1, BecomeSets DEF Again, TypeOK
    <3>2. r.pc = "restore" /\ Stored(r) \subseteq Stored(th[t])
      BY <1>1 DEF Jobs, Stored
    <3>3. \A k \in Key : outs'[k] = outs[k] \/ (outs'[k] = "Unspent" /\ k \in Stored(th[t]))
      BY <2>1 DEF Again, Stored
    <3> HIDE DEF r
    <3> QED
      BY <3>1, <3>2, <3>3
  <2>2. CASE RestoreChunk(t)
    <3>1. PICK C \in SUBSET th[t].todo :
                /\ outs' = [k \in Key |-> IF k \in C THEN "Unspent" ELSE outs[k]]
                /\ Become(t, [th[t] EXCEPT !.todo = @ \ C, !.found = @ \cup C])
      BY <2>2 DEF RestoreChunk
    <3> DEFINE r == [th[t] EXCEPT !.todo = @ \ C, !.found = @ \cup C]
    <3>2. th'[t] = r /\ \A u \in Scanners : u # t => th'[u] = th[u]
      BY <3>1, BecomeSets DEF TypeOK
    <3>3. r.pc = "restore" /\ Stored(r) \subseteq Stored(th[t])
      BY <1>1, <2>2 DEF Jobs, Stored, RestoreChunk
    <3>4. \A k \in Key : outs'[k] = outs[k] \/ (outs'[k] = "Unspent" /\ k \in Stored(th[t]))
      BY <3>1 DEF Stored
    <3> HIDE DEF r
    <3> QED
      BY <3>2, <3>3, <3>4
  <2> QED
    BY <2>1, <2>2
<1>4. \A k \in Key : outs'[k] \in {"Unspent", "Spent"} => k \in OnChain'
  BY <1>1, <1>3 DEF RefreshInv, Grows
<1>5. NothingLost'
  BY <1>3 DEF RefreshInv, NothingLost, Grows
<1>6. HeardOK(th[t])' /\ Stored(th'[t]) \subseteq OnChain' /\ (th'[t].pc \in Holding <=> lock' = t)
  BY <1>1, <1>2, <1>3, Parameters DEF HeardOK, Grows, Holding, Free
<1> QED
  BY <1>2, <1>3, <1>4, <1>5, <1>6, RefreshKept

-----------------------------------------------------------------------------
(* What a scan knows of the chain.                                         *)

(* Blocks hold keys.                                                       *)
LEMMA BlocksTyped == ASSUME TypeOK, NEW i \in 1 .. Tip PROVE chain[i] \in Key \cup {NoKey}
  BY DEF TypeOK, Tip

(* A block once settled stays settled, and new ones are.                   *)
LEMMA SettledKept ==
  ASSUME TypeOK, Grows, NEW i \in 1 .. Tip', i <= Tip => Settled(i)
  PROVE  Settled(i)'
<1>1. CASE i <= Tip
  <2>1. i \in 1 .. Tip /\ Settled(i)
    BY <1>1 DEF Grows
  <2> QED
    BY <2>1, BlocksTyped DEF Settled, Grows
<1>2. CASE ~(i <= Tip)
  BY <1>2 DEF Grows
<1> QED
  BY <1>1, <1>2

(* A page once collected stays collected.                                  *)
LEMMA CollectedKept ==
  ASSUME TypeOK, Grows, NEW i \in 1 .. Tip, NEW t \in Scanners, Collected(th[t], i), th'[t] = th[t]
  PROVE  Collected(th[t], i)'
  BY DEF Grows, Collected

(* What a thread that takes no step knows, stays true.                     *)
LEMMA JobStays ==
  ASSUME TypeOK, Grows, NEW t \in Scanners, th'[t] = th[t], JobOK(th[t])
  PROVE  JobOK(th[t])'
<1> DEFINE r == th[t]
<1>1. r \in Jobs /\ Tip \in Nat /\ Tip' \in Nat
  BY DEF TypeOK, Grows
<1>2. BatchEnd(r)' = BatchEnd(r)
  BY DEF BatchEnd
<1>3. r.tip <= Tip'
  BY <1>1 DEF JobOK, Grows, Jobs
<1>4. ASSUME r.pc = "page", NEW i \in 1 .. Tip', r.h <= i, i < r.idx
      PROVE  Collected(r, i)'
  <2>1. i \in 1 .. Tip
    BY <1>1, <1>4 DEF JobOK, Jobs
  <2> QED
    BY <1>4, <2>1, CollectedKept DEF JobOK, BatchKnown
<1>5. r.pc \in Batched => BatchEnd(r) \in Nat /\ BatchEnd(r) <= Tip
  BY <1>1, BatchEndTyped DEF JobOK, Jobs
<1>6. ASSUME r.pc = "compare", NEW i \in 1 .. Tip', r.h <= i, i <= BatchEnd(r)
      PROVE  Collected(r, i)'
  <2>1. i \in 1 .. Tip
    BY <1>1, <1>5, <1>6 DEF Batched
  <2> QED
    BY <1>6, <2>1, CollectedKept DEF JobOK, BatchKnown
<1>7. ASSUME r.pc \in {"again", "restore"}, NEW i \in 1 .. Tip', r.h <= i, i <= BatchEnd(r)
      PROVE  chain'[i] \in r.todo \/ Settled(i)'
  <2>1. i \in 1 .. Tip
    BY <1>1, <1>5, <1>7 DEF Batched
  <2>2. chain[i] \in r.todo \/ Settled(i)
    BY <1>7, <2>1 DEF JobOK, BatchKnown
  <2> QED
    BY <2>1, <2>2, SettledKept DEF Grows
<1>8. ASSUME r.pc \in {"account", "child", "save"}, NEW i \in 1 .. Tip', r.h <= i, i <= BatchEnd(r)
      PROVE  Settled(i)'
  <2>1. i \in 1 .. Tip
    BY <1>1, <1>5, <1>8 DEF Batched
  <2> QED
    BY <1>8, <2>1, SettledKept DEF JobOK, BatchKnown
<1>9. BatchKnown(r)'
  BY <1>2, <1>4, <1>6, <1>7, <1>8 DEF BatchKnown
<1>10. ASSUME r.pc \in Batched, r.kind # "view", "partial" \notin marks', NEW i \in 1 .. Tip', i < r.h
       PROVE  Settled(i)'
  <2>1. i <= Tip => Settled(i)
    BY <1>1, <1>10 DEF JobOK, Grows
  <2> QED
    BY <2>1, SettledKept
<1>11. "partial" \notin marks' => "partial" \notin marks
  BY DEF Grows
<1> QED
  BY <1>3, <1>9, <1>10, <1>11 DEF JobOK

(* What is known of the chain whatever the jobs do: the marker, the new    *)
(* wallet and the latest view.                                             *)
KnownShared ==
    /\ "partial" \notin marks => \A i \in 1 .. Tip : i <= last => Settled(i)
    /\ init = "InitNoScanning" => \A i \in 1 .. Tip : Settled(i)
    /\ view.tip <= Tip /\ ViewComplete

(* It stays true when the marker, the status and the view do, or are set   *)
(* to what is known.                                                       *)
LEMMA SharedKept ==
  ASSUME TypeOK, ScanInv, Grows,
         \/ last' = last
         \/ "partial" \notin marks' => \A i \in 1 .. Tip' : i <= last' => Settled(i)',
         init' = "InitNoScanning" => init = "InitNoScanning",
         view' = view \/ (view.tip <= Tip /\ ViewComplete)'
  PROVE  KnownShared'
<1>1. "partial" \notin marks' => \A i \in 1 .. Tip' : i <= last' => Settled(i)'
  <2>1. CASE last' = last
    <3>1. "partial" \notin marks' => "partial" \notin marks
      BY DEF Grows
    <3>2. "partial" \notin marks' => \A i \in 1 .. Tip' : i <= last' => (i <= Tip => Settled(i))
      BY <2>1, <3>1 DEF ScanInv, Grows
    <3> QED
      BY <3>2, SettledKept
  <2> QED
    BY <2>1
<1>2. init' = "InitNoScanning" => \A i \in 1 .. Tip' : Settled(i)'
  <2>1. init' = "InitNoScanning" => \A i \in 1 .. Tip' : (i <= Tip => Settled(i))
    BY DEF ScanInv, Grows
  <2> QED
    BY <2>1, SettledKept
<1>3. (view.tip <= Tip /\ ViewComplete)'
  <2>1. CASE view' = view
    <3>1. view.tip <= Tip /\ view.tip \in Nat /\ view.from >= 1 /\ view.from \in Nat /\ Tip \in Nat
      BY OnChainKeys DEF ScanInv, TypeOK
    <3>2. \A i \in view.from .. view.tip : i \in 1 .. Tip
      BY <3>1
    <3>3. view.tip <= Tip'
      BY <3>1 DEF Grows
    <3> QED
      BY <2>1, <3>2, <3>3 DEF ScanInv, ViewComplete, Grows
  <2> QED
    BY <2>1
<1> QED
  BY <1>1, <1>2, <1>3 DEF KnownShared

(* What a step of one thread has to leave behind.                          *)
LEMMA ScanKept ==
  ASSUME TypeOK, ScanInv, Grows, NEW t \in Scanners,
         \A u \in Scanners : u # t => th'[u] = th[u],
         JobOK(th[t])',
         \/ last' = last
         \/ "partial" \notin marks' => \A i \in 1 .. Tip' : i <= last' => Settled(i)',
         init' = "InitNoScanning" => init = "InitNoScanning",
         view' = view \/ (view.tip <= Tip /\ ViewComplete)'
  PROVE  ScanInv'
<1>1. \A u \in Scanners : JobOK(th[u])'
  BY JobStays DEF ScanInv
<1>2. KnownShared'
  BY SharedKept
<1> QED
  BY <1>1, <1>2 DEF ScanInv, KnownShared

(* A thread without a job knows nothing.                                   *)
LEMMA IdleFits ==
  ASSUME NEW t \in Scanners, th'[t] \in {Idle, Ended}, Tip' \in Nat
  PROVE  JobOK(th[t])'
<1> DEFINE r == th'[t]
<1>1. r.kind = "none" /\ r.pc \in {"idle", "ended"} /\ r.tip = 0
  BY DEF Idle, Ended
<1> QED
  BY <1>1 DEF JobOK, BatchKnown, Batched

(* At first no block is covered, or none is this wallet's.                 *)
LEMMA InitScan == Init => ScanInv
<1> SUFFICES ASSUME Init PROVE ScanInv
  OBVIOUS
<1>1. Tip \in Nat
  BY InitTyped, OnChainKeys
<1>2. \A t \in Scanners : JobOK(th[t])
  <2>1. ASSUME NEW t \in Scanners
        PROVE  th[t].kind = "none" /\ th[t].pc \in {"idle", "ended"} /\ th[t].tip = 0
    BY DEF Init, Idle, Ended
  <2> QED
    BY <1>1, <2>1 DEF JobOK, BatchKnown, Batched
<1>3. \A i \in 1 .. Tip : ~(i <= last)
  BY <1>1 DEF Init
<1>4. init = "InitNoScanning" => \A i \in 1 .. Tip : Settled(i)
  <2>1. DOMAIN chain = 1 .. Tip
    BY InitTyped DEF TypeOK, Tip
  <2> QED
    BY <2>1 DEF Init, Settled
<1>5. view.tip <= Tip /\ ViewComplete
  BY <1>1 DEF Init, NoView, ViewComplete
<1> QED
  BY <1>2, <1>3, <1>4, <1>5 DEF ScanInv

(* The node, users and a crash.                                            *)
LEMMA WorldScan ==
  ASSUME TypeOK, ScanInv, Grows, Mine \/ Spend \/ User \/ Crash
  PROVE  ScanInv'
<1>1. UNCHANGED <<last, init, view>>
  BY DEF Mine, Spend, User, create_account, set_active_account, Receive, Crash, db
<1>2. KnownShared'
  BY <1>1, SharedKept
<1>3. \A t \in Scanners : th'[t] = th[t] \/ th'[t] \in {Idle, Ended}
  BY DEF Mine, Spend, User, create_account, set_active_account, Receive, Crash
<1>4. \A t \in Scanners : JobOK(th[t])'
  BY <1>3, IdleFits, JobStays DEF ScanInv, Grows
<1> QED
  BY <1>2, <1>4 DEF ScanInv, KnownShared

(* A job starts.                                                           *)
LEMMA StartScans ==
  ASSUME TypeOK, ScanInv, Grows, NEW t \in Scanners, Start(t)
  PROVE  ScanInv'
<1>1. UNCHANGED <<last, init, view>> /\ Tip' \in Nat
  BY DEF Start, StartUpdate, start_updater, stop_updater, StartScan, StartView, db, Grows
<1>2. CASE StartUpdate(t)
  <2> DEFINE r == [Idle EXCEPT !.kind = "update", !.pc = "refresh"]
  <2>1. r.kind = "update" /\ r.pc = "refresh" /\ r.tip = 0
    BY DEF Idle
  <2>2. th'[t] = r /\ \A u \in Scanners : u # t => th'[u] = th[u]
    BY <1>2, BecomeSets DEF StartUpdate, TypeOK
  <2> HIDE DEF r
  <2>3. JobOK(th[t])'
    BY <1>1, <2>1, <2>2 DEF JobOK, BatchKnown, Batched
  <2> QED
    BY <1>1, <2>2, <2>3, ScanKept
<1>3. ASSUME NEW from \in 1 .. Tip, StartScan(t, from) PROVE ScanInv'
  <2> DEFINE r == [Idle EXCEPT !.kind = "scan", !.pc = "refresh", !.from = from]
  <2>1. r.kind = "scan" /\ r.pc = "refresh" /\ r.tip = 0 /\ r.from = from
    BY DEF Idle
  <2>2. th'[t] = r /\ \A u \in Scanners : u # t => th'[u] = th[u]
    BY <1>3, BecomeSets DEF StartScan, TypeOK
  <2>3. from = 1 \/ "partial" \in marks'
    BY <1>3 DEF StartScan
  <2> HIDE DEF r
  <2>4. JobOK(th[t])'
    BY <1>1, <2>1, <2>2, <2>3 DEF JobOK, BatchKnown, Batched
  <2> QED
    BY <1>1, <2>2, <2>4, ScanKept
<1>4. ASSUME NEW from \in 1 .. Tip, StartView(t, from) PROVE ScanInv'
  <2> DEFINE r == [Idle EXCEPT !.kind = "view", !.pc = "tip", !.from = from]
  <2>1. r.kind = "view" /\ r.pc = "tip" /\ r.tip = 0 /\ r.from = from
    BY DEF Idle
  <2>2. th'[t] = r /\ \A u \in Scanners : u # t => th'[u] = th[u]
    BY <1>4, BecomeSets DEF StartView, TypeOK
  <2>3. from >= 1
    BY OnChainKeys
  <2> HIDE DEF r
  <2>4. JobOK(th[t])'
    BY <1>1, <2>1, <2>2, <2>3 DEF JobOK, BatchKnown, Batched
  <2> QED
    BY <1>1, <2>2, <2>4, ScanKept
<1>5. CASE start_updater(t) \/ stop_updater(t)
  <2>1. th'[t] \in {Idle, Ended} /\ \A u \in Scanners : u # t => th'[u] = th[u]
    BY <1>5, BecomeSets DEF start_updater, stop_updater, TypeOK
  <2> QED
    BY <1>1, <2>1, IdleFits, ScanKept
<1> QED
  BY <1>2, <1>3, <1>4, <1>5 DEF Start

(* A job fails.                                                            *)
LEMMA FailScans ==
  ASSUME TypeOK, ScanInv, Grows, NEW t \in Scanners, JobFails(t)
  PROVE  ScanInv'
<1>1. UNCHANGED <<last, init, view>> /\ Tip' \in Nat
  BY DEF JobFails, db, Grows
<1>2. PICK r \in {Idle, Ended} : Become(t, r)
  BY DEF JobFails
<1>3. th'[t] \in {Idle, Ended} /\ \A u \in Scanners : u # t => th'[u] = th[u]
  BY <1>2, BecomeSets DEF TypeOK
<1> QED
  BY <1>1, <1>3, IdleFits, ScanKept

(* A refresh is on its way to the tip.                                     *)
LEMMA RefreshScans ==
  ASSUME TypeOK, ScanInv, Grows, NEW t \in Scanners,
         RefreshAsk(t) \/ Response(t) \/ RefreshApply(t) \/ RefreshFails(t)
  PROVE  ScanInv'
<1>1. UNCHANGED <<last, init, view>> /\ Tip' \in Nat
  BY DEF RefreshAsk, Response, RefreshApply, RefreshFails, db, Quiet, Grows
<1>2. th[t] \in Jobs /\ JobOK(th[t]) /\ th[t].pc \in {"refresh", "hear"}
  BY DEF TypeOK, ScanInv, RefreshAsk, Response, RefreshApply, RefreshFails
<1>3. /\ \A u \in Scanners : u # t => th'[u] = th[u]
      /\ \/ th'[t] = Idle
         \/ /\ th'[t].kind = th[t].kind /\ th'[t].tip = th[t].tip /\ th'[t].from = th[t].from
            /\ th'[t].pc \in {"hear", "tip"}
  <2>1. CASE RefreshAsk(t)
    <3> DEFINE asked == {k \in Key : k[1] = active /\ outs[k] \in {"Unconfirmed", "Unspent"}}
               r == [th[t] EXCEPT !.pc = "hear", !.ask = asked]
    <3>1. r.kind = th[t].kind /\ r.tip = th[t].tip /\ r.from = th[t].from /\ r.pc = "hear"
      <4> HIDE DEF asked
      <4> QED
        BY <1>2 DEF Jobs
    <3>2. Become(t, r)
      BY <2>1 DEF RefreshAsk
    <3> HIDE DEF r
    <3> QED
      BY <3>1, <3>2, BecomeSets DEF TypeOK
  <2>2. CASE Response(t)
    <3>1. PICK C \in SUBSET th[t].ask :
                 Become(t, [th[t] EXCEPT !.ask = @ \ C, !.heard = @ \cup (C \cap (OnChain \ spent))])
      BY <2>2 DEF Response
    <3> DEFINE r == [th[t] EXCEPT !.ask = @ \ C, !.heard = @ \cup (C \cap (OnChain \ spent))]
    <3>2. r.kind = th[t].kind /\ r.tip = th[t].tip /\ r.from = th[t].from /\ r.pc = "hear"
      BY <1>2, <2>2 DEF Jobs, Response
    <3> HIDE DEF r
    <3> QED
      BY <3>1, <3>2, BecomeSets DEF TypeOK, r
  <2>3. CASE RefreshApply(t) \/ RefreshFails(t)
    <3>1. PICK ok \in BOOLEAN : Become(t, AfterRefresh(t, ok))
      BY <2>3 DEF RefreshApply, RefreshFails
    <3> DEFINE r == [th[t] EXCEPT !.pc = "tip", !.ask = {}, !.heard = {}]
    <3>2. r.kind = th[t].kind /\ r.tip = th[t].tip /\ r.from = th[t].from /\ r.pc = "tip"
      BY <1>2 DEF Jobs
    <3>3. AfterRefresh(t, ok) = Idle \/ AfterRefresh(t, ok) = r
      BY DEF AfterRefresh
    <3> HIDE DEF r
    <3> QED
      BY <3>1, <3>2, <3>3, BecomeSets DEF TypeOK
  <2> QED
    BY <2>1, <2>2, <2>3
<1>4. JobOK(th[t])'
  <2>1. CASE th'[t] = Idle
    BY <1>1, <2>1, IdleFits
  <2>2. CASE th'[t] # Idle
    <3>1. th'[t].kind \in {"update", "scan"} /\ th'[t].tip <= Tip'
      BY <1>2, <1>3, <2>2 DEF JobOK, Jobs, Grows
    <3>2. th'[t].kind = "scan" /\ "partial" \notin marks' => th'[t].from = 1
      BY <1>2, <1>3, <2>2 DEF JobOK, Grows
    <3> QED
      BY <1>3, <2>2, <3>1, <3>2 DEF JobOK, BatchKnown, Batched
  <2> QED
    BY <2>1, <2>2
<1> QED
  BY <1>1, <1>3, <1>4, ScanKept

(* The range is read: what lies before it is behind the marker, or is not  *)
(* this wallet's, or the scan was told to start there.                     *)
LEMMA RangeScans ==
  ASSUME TypeOK, ScanInv, Grows, NEW t \in Scanners, ReadTip(t) \/ ReadLast(t) \/ NodeFails(t)
  PROVE  ScanInv'
<1>1. UNCHANGED <<last, init, view>> /\ Tip' \in Nat
  BY DEF ReadTip, ReadLast, NodeFails, db, Quiet, Grows
<1>2. th[t] \in Jobs /\ JobOK(th[t])
  BY DEF TypeOK, ScanInv
<1>3. CASE ReadTip(t)
  <2> DEFINE r == [th[t] EXCEPT !.tip = Tip, !.pc = "range"]
  <2>1. r.kind = th[t].kind /\ r.tip = Tip /\ r.from = th[t].from /\ r.pc = "range"
    BY <1>2 DEF Jobs
  <2>2. th'[t] = r /\ \A u \in Scanners : u # t => th'[u] = th[u]
    BY <1>3, BecomeSets DEF ReadTip, TypeOK
  <2> HIDE DEF r
  <2>3. th[t].pc = "tip"
    BY <1>3 DEF ReadTip
  <2>4. JobOK(th[t])'
    BY <1>2, <2>1, <2>2, <2>3 DEF JobOK, BatchKnown, Batched, Grows
  <2> QED
    BY <1>1, <2>2, <2>4, ScanKept
<1>4. CASE ReadLast(t)
  <2> DEFINE from == ScanFrom(th[t])
             r == [th[t] EXCEPT !.from = from, !.h = from, !.idx = FirstIndex(from), !.pc = "page"]
  <2>1. th[t].pc = "range" /\ UNCHANGED <<chain, spent, outs, marks>>
    BY <1>4 DEF ReadLast, Quiet, node, db
  <2>2. /\ \A u \in Scanners : u # t => th'[u] = th[u]
        /\ th'[t] = Idle \/ (~(from > th[t].tip) /\ th'[t] = r)
    <3>1. Become(t, IF from > th[t].tip THEN Idle ELSE r)
      BY <1>4 DEF ReadLast
    <3> DEFINE s == IF from > th[t].tip THEN Idle ELSE r
    <3>2. Become(t, s)
      BY <3>1
    <3> HIDE DEF from, r
    <3>3. s = Idle \/ (~(from > th[t].tip) /\ s = r)
      OBVIOUS
    <3> HIDE DEF s
    <3>4. th'[t] = s /\ \A u \in Scanners : u # t => th'[u] = th[u]
      BY <3>2, BecomeSets DEF TypeOK
    <3> QED
      BY <3>3, <3>4
  <2>3. CASE th'[t] = Idle
    BY <1>1, <2>2, <2>3, IdleFits, ScanKept
  <2>4. CASE ~(from > th[t].tip) /\ th'[t] = r
    <3>1. th[t].tip \in Nat /\ th[t].from \in Nat /\ last \in Nat /\ Window \in Nat /\ th[t].tip <= Tip
          /\ Tip \in Nat
      BY <1>2, Parameters, OnChainKeys DEF Jobs, TypeOK, JobOK
    <3>2. /\ from \in Nat
          /\ \/ th[t].kind # "update" /\ from = th[t].from
             \/ th[t].kind = "update" /\ (from = 0 \/ init = "InitNoScanning" \/ from <= last)
      BY <3>1 DEF ScanFrom
    <3>3. /\ r.kind = th[t].kind /\ r.tip = th[t].tip /\ r.from = from /\ r.h = from /\ r.pc = "page"
          /\ r.idx = FirstIndex(from)
      <4> HIDE DEF from
      <4> QED
        BY <1>2 DEF Jobs
    <3> HIDE DEF from, r
    <3>4. th'[t].h <= th'[t].tip /\ th'[t].tip <= Tip'
      BY <2>4, <3>1, <3>2, <3>3 DEF Grows
    <3>5. th'[t].idx >= 1 /\ th'[t].idx <= th'[t].tip + 1
          /\ \A i \in 1 .. Tip' : ~(th'[t].h <= i /\ i < th'[t].idx)
      BY <2>4, <3>1, <3>2, <3>3 DEF FirstIndex, Grows
    <3>6. ASSUME th[t].kind # "view", "partial" \notin marks', NEW i \in 1 .. Tip', i < from
          PROVE  Settled(i)'
      <4>1. i \in 1 .. Tip /\ Settled(i)' = Settled(i)
        BY <2>1, <3>6, SameChain DEF Settled
      <4>2. CASE th[t].kind = "scan"
        <5>1. from = 1
          BY <1>2, <2>1, <3>2, <3>6, <4>2 DEF JobOK
        <5> QED
          BY <3>6, <4>1, <5>1
      <4>3. CASE th[t].kind = "update"
        <5>1. from = 0 \/ init = "InitNoScanning" \/ i <= last
          BY <3>1, <3>2, <3>6, <4>1, <4>3
        <5> QED
          BY <2>1, <3>6, <4>1, <5>1 DEF ScanInv
      <4> QED
        BY <1>2, <2>1, <3>6, <4>2, <4>3 DEF JobOK, Jobs
    <3>7. th[t].kind = "view" => from = th[t].from /\ from >= 1
      BY <1>2, <3>2 DEF JobOK
    <3>8. BatchKnown(th[t])'
      BY <2>4, <3>3, <3>5 DEF BatchKnown
    <3>9. JobOK(th[t])'
      BY <1>2, <2>1, <2>4, <3>3, <3>4, <3>5, <3>6, <3>7, <3>8 DEF JobOK, Batched
    <3> QED
      BY <1>1, <2>2, <3>9, ScanKept
  <2> QED
    BY <2>2, <2>3, <2>4
<1>5. CASE NodeFails(t)
  <2>1. th'[t] = Idle /\ \A u \in Scanners : u # t => th'[u] = th[u]
    BY <1>5, BecomeSets DEF NodeFails, TypeOK
  <2> QED
    BY <1>1, <2>1, IdleFits, ScanKept
<1> QED
  BY <1>3, <1>4, <1>5

(* A page is read; the last one of a view completes it.                    *)
LEMMA PageScans ==
  ASSUME TypeOK, RefreshInv, ScanInv, Grows, NEW t \in Scanners, CollectPage(t) \/ ViewPage(t)
  PROVE  ScanInv'
<1> DEFINE r == th[t]
           p == PageOf(r)
           L == LastRetrieved(r.idx, BatchEnd(r))
           done == [r EXCEPT !.got = p.got, !.pc = "compare"]
           more == [r EXCEPT !.got = p.got, !.idx = p.next]
<1>1. /\ UNCHANGED <<last, init, chain, spent, outs, marks>> /\ Tip' = Tip /\ Tip \in Nat
      /\ r.pc = "page"
  BY SameChain DEF CollectPage, ViewPage, Quiet, node, db
<1>2. /\ r \in Jobs /\ JobOK(r) /\ r.h <= r.tip /\ r.tip <= Tip /\ r.idx >= 1 /\ r.idx \in Nat
      /\ r.h \in Nat /\ r.tip \in Nat /\ BatchEnd(r) \in Nat /\ BatchEnd(r) <= r.tip
  BY <1>1, BatchEndTyped DEF TypeOK, ScanInv, JobOK, Batched, Jobs
<1>3. /\ p.got \subseteq OnChain /\ L \in Nat /\ p.next = L + 1 /\ (p.done <=> BatchEnd(r) <= L)
      /\ \A i \in 1 .. Tip : r.h <= i /\ i <= L => chain[i] \in p.got \cup spent \cup {NoKey}
  BY <1>1, PageHas
<1> HIDE DEF p, L
<1>4. /\ done.kind = r.kind /\ done.tip = r.tip /\ done.from = r.from /\ done.h = r.h
      /\ done.got = p.got /\ done.pc = "compare"
      /\ more.kind = r.kind /\ more.tip = r.tip /\ more.from = r.from /\ more.h = r.h
      /\ more.got = p.got /\ more.idx = p.next /\ more.pc = "page"
  BY <1>1, <1>2 DEF Jobs
<1> HIDE DEF done, more
<1>5. BatchEnd(done) = BatchEnd(r)
  BY <1>4 DEF BatchEnd
<1>6. /\ \A u \in Scanners : u # t => th'[u] = th[u]
      /\ \/ ~p.done /\ th'[t] = more /\ UNCHANGED view
         \/ p.done /\ r.kind # "view" /\ th'[t] = done /\ UNCHANGED view
         \/ p.done /\ r.kind = "view" /\ th'[t] = Idle
              /\ view' = [from |-> r.from, tip |-> r.tip, got |-> p.got]
  <2>1. CASE CollectPage(t)
    <3>1. Become(t, IF p.done THEN done ELSE more) /\ r.kind # "view" /\ UNCHANGED view
      BY <2>1 DEF CollectPage, p, done, more
    <3> QED
      BY <3>1, BecomeSets DEF TypeOK
  <2>2. CASE ViewPage(t)
    <3>1. \/ ~p.done /\ Become(t, more) /\ UNCHANGED view
          \/ p.done /\ r.kind = "view" /\ Become(t, Idle)
               /\ view' = [from |-> r.from, tip |-> r.tip, got |-> p.got]
      BY <2>2 DEF ViewPage, p, more
    <3> QED
      BY <3>1, BecomeSets DEF TypeOK
  <2> QED
    BY <2>1, <2>2
<1>7. CASE ~p.done /\ th'[t] = more /\ UNCHANGED view
  <2>1. more.idx >= 1 /\ more.idx <= more.tip + 1
    BY <1>2, <1>3, <1>4, <1>7
  <2>2. \A i \in 1 .. Tip : more.h <= i /\ i < more.idx => Collected(more, i)
    BY <1>1, <1>3, <1>4 DEF Collected
  <2>3. BatchKnown(th[t])'
    BY <1>1, <1>4, <1>7, <2>2 DEF BatchKnown, Collected
  <2>4. JobOK(th[t])'
    BY <1>1, <1>2, <1>4, <1>7, <2>1, <2>3 DEF JobOK, Batched, Settled
  <2> QED
    BY <1>1, <1>6, <1>7, <2>4, ScanKept
<1>8. CASE p.done /\ r.kind # "view" /\ th'[t] = done /\ UNCHANGED view
  <2>1. \A i \in 1 .. Tip : done.h <= i /\ i <= BatchEnd(done) => Collected(done, i)
    BY <1>1, <1>2, <1>3, <1>4, <1>5, <1>8 DEF Collected
  <2>2. BatchEnd(th[t])' = BatchEnd(done)
    BY <1>8 DEF BatchEnd
  <2>3. BatchKnown(th[t])'
    BY <1>1, <1>4, <1>8, <2>1, <2>2 DEF BatchKnown, Collected
  <2>4. JobOK(th[t])'
    BY <1>1, <1>2, <1>4, <1>8, <2>3 DEF JobOK, Batched, Settled
  <2> QED
    BY <1>1, <1>6, <1>8, <2>4, ScanKept
<1>9. CASE p.done /\ r.kind = "view" /\ th'[t] = Idle
             /\ view' = [from |-> r.from, tip |-> r.tip, got |-> p.got]
  <2>1. r.h = r.from /\ r.from >= 1 /\ r.from \in Nat /\ BatchEnd(r) = r.tip
    BY <1>1, <1>2, <1>9 DEF JobOK, BatchEnd, Jobs
  <2>2. view'.from = r.from /\ view'.tip = r.tip /\ view'.got = p.got
    BY <1>9
  <2>3. \A i \in r.from .. r.tip : chain[i] = NoKey \/ chain[i] \in spent \cup p.got
    <3> SUFFICES ASSUME NEW i \in r.from .. r.tip
                 PROVE  chain[i] = NoKey \/ chain[i] \in spent \cup p.got
      OBVIOUS
    <3>1. i \in 1 .. Tip /\ r.h <= i /\ i <= L
      BY <1>1, <1>2, <1>3, <1>9, <2>1
    <3> QED
      BY <1>3, <3>1
  <2>4. (view.tip <= Tip /\ ViewComplete)'
    BY <1>1, <1>2, <1>3, <2>2, <2>3, SameChain DEF ViewComplete
  <2>5. JobOK(th[t])'
    BY <1>1, <1>9, IdleFits
  <2> QED
    BY <1>1, <1>6, <2>4, <2>5, ScanKept
<1> QED
  BY <1>6, <1>7, <1>8, <1>9

(* What a batch has collected is compared, restored, and then settled.     *)
LEMMA RestoreScans ==
  ASSUME TypeOK, ScanInv, Grows, NEW t \in Scanners, Compare(t) \/ Again(t) \/ RestoreChunk(t)
  PROVE  ScanInv'
<1> DEFINE r == th[t]
<1>1. UNCHANGED <<last, init, view, chain, spent, marks>> /\ Tip' = Tip /\ Tip \in Nat
  BY SameChain DEF Compare, Again, RestoreChunk, Quiet, node, db
<1>2. r \in Jobs /\ JobOK(r) /\ r.pc \in {"compare", "again", "restore"} /\ r.kind # "view"
  BY DEF TypeOK, ScanInv, JobOK, Compare, Again, RestoreChunk
<1>3. ASSUME NEW s, s.kind = r.kind, s.tip = r.tip, s.h = r.h, s.pc \in {"again", "restore"},
             th'[t] = s, \A u \in Scanners : u # t => th'[u] = th[u],
             \A i \in 1 .. Tip : r.h <= i /\ i <= BatchEnd(r) => chain[i] \in s.todo \/ Settled(i)'
      PROVE  ScanInv'
  <2>1. BatchEnd(th[t])' = BatchEnd(r)
    BY <1>3 DEF BatchEnd
  <2>2. BatchKnown(th[t])'
    BY <1>1, <1>3, <2>1 DEF BatchKnown
  <2>3. \A i \in 1 .. Tip : Settled(i) => Settled(i)'
    BY <1>1, SettledKept
  <2>4. JobOK(th[t])'
    BY <1>1, <1>2, <1>3, <2>2, <2>3 DEF JobOK, Batched
  <2> QED
    BY <1>1, <1>3, <2>4, ScanKept
<1>4. CASE Compare(t)
  <2> DEFINE todo == {k \in r.got : outs[k] = "None"}
             again == {k \in r.got : outs[k] = "Spent"}
             s == [r EXCEPT !.pc = "again", !.got = {}, !.todo = todo, !.again = again]
  <2>1. s.kind = r.kind /\ s.tip = r.tip /\ s.h = r.h /\ s.pc = "again" /\ s.todo = todo
    <3> HIDE DEF todo, again
    <3> QED
      BY <1>2 DEF Jobs
  <2>2. th'[t] = s /\ \A u \in Scanners : u # t => th'[u] = th[u]
    <3>1. Become(t, s)
      BY <1>4 DEF Compare
    <3> QED
      BY <3>1, BecomeSets DEF TypeOK
  <2> HIDE DEF s
  <2>3. ASSUME NEW i \in 1 .. Tip, r.h <= i, i <= BatchEnd(r)
        PROVE  chain[i] \in s.todo \/ Settled(i)'
    <3>1. Collected(r, i)
      BY <1>2, <1>4, <2>3 DEF JobOK, BatchKnown, Compare
    <3>2. UNCHANGED outs
      BY <1>4 DEF Compare, db
    <3> QED
      BY <1>1, <2>1, <3>1, <3>2 DEF Collected, Settled
  <2> QED
    BY <1>3, <2>1, <2>2, <2>3
<1>5. CASE Again(t)
  <2> DEFINE s == [r EXCEPT !.pc = "restore", !.again = {}]
  <2>1. s.kind = r.kind /\ s.tip = r.tip /\ s.h = r.h /\ s.pc = "restore" /\ s.todo = r.todo
    BY <1>2 DEF Jobs
  <2>2. th'[t] = s /\ \A u \in Scanners : u # t => th'[u] = th[u]
    BY <1>5, BecomeSets DEF Again, TypeOK
  <2> HIDE DEF s
  <2>3. ASSUME NEW i \in 1 .. Tip, r.h <= i, i <= BatchEnd(r)
        PROVE  chain[i] \in s.todo \/ Settled(i)'
    <3>1. chain[i] \in r.todo \/ Settled(i)
      BY <1>2, <1>5, <2>3 DEF JobOK, BatchKnown, Again
    <3> QED
      BY <1>1, <2>1, <3>1, SettledKept
  <2> QED
    BY <1>3, <2>1, <2>2, <2>3
<1>6. CASE RestoreChunk(t)
  <2>1. PICK C \in SUBSET r.todo :
              /\ outs' = [k \in Key |-> IF k \in C THEN "Unspent" ELSE outs[k]]
              /\ Become(t, [th[t] EXCEPT !.todo = @ \ C, !.found = @ \cup C])
    BY <1>6 DEF RestoreChunk
  <2> DEFINE s == [r EXCEPT !.todo = @ \ C, !.found = @ \cup C]
  <2>2. s.kind = r.kind /\ s.tip = r.tip /\ s.h = r.h /\ s.pc = "restore" /\ s.todo = r.todo \ C
    BY <1>2, <1>6 DEF Jobs, RestoreChunk
  <2>3. th'[t] = s /\ \A u \in Scanners : u # t => th'[u] = th[u]
    BY <2>1, BecomeSets DEF TypeOK
  <2> HIDE DEF s
  <2>4. ASSUME NEW i \in 1 .. Tip, r.h <= i, i <= BatchEnd(r)
        PROVE  chain[i] \in s.todo \/ Settled(i)'
    <3>1. chain[i] \in r.todo \/ Settled(i)
      BY <1>2, <1>6, <2>4 DEF JobOK, BatchKnown, RestoreChunk
    <3>2. CASE Settled(i)
      BY <1>1, <3>2, SettledKept
    <3>3. CASE chain[i] \in r.todo
      <4>1. chain[i] \in Key /\ (chain[i] \in C => outs'[chain[i]] = "Unspent")
        BY <1>2, <2>1, <3>3 DEF Jobs
      <4> QED
        BY <1>1, <2>2, <3>3, <4>1 DEF Settled
    <3> QED
      BY <3>1, <3>2, <3>3
  <2> QED
    BY <1>3, <2>2, <2>3, <2>4
<1> QED
  BY <1>4, <1>5, <1>6

(* Accounts and indices change nothing about the chain; a batch that is    *)
(* done leaves every block up to its end settled.                          *)
LEMMA SaveScans ==
  ASSUME TypeOK, ScanInv, Grows, NEW t \in Scanners,
         \/ BeginAccounts(t) \/ SaveChild(t) \/ EndAccounts(t) \/ SaveScan(t) \/ SaveUpdate(t)
         \/ \E p \in Path : SetAccount(t, p)
  PROVE  ScanInv'
<1> DEFINE r == th[t]
<1>1. /\ UNCHANGED <<view, chain, spent, outs>> /\ Tip' = Tip /\ Tip \in Nat
      /\ init' = "InitNoScanning" => init = "InitNoScanning"
      /\ "partial" \notin marks' => "partial" \notin marks
  BY SameChain DEF BeginAccounts, SaveChild, EndAccounts, SaveScan, SaveUpdate, SetAccount, Quiet, node, db, Grows
<1>2. r \in Jobs /\ JobOK(r) /\ r.pc \in {"restore", "account", "child", "save"} /\ r.kind # "view"
  BY DEF TypeOK, ScanInv, JobOK, BeginAccounts, SaveChild, EndAccounts, SaveScan, SaveUpdate, SetAccount
<1>3. /\ BatchEnd(r) \in Nat /\ BatchEnd(r) <= r.tip /\ BatchEnd(r) + 1 > r.h
      /\ r.h \in Nat /\ r.tip \in Nat /\ r.tip <= Tip
  BY <1>2, BatchEndTyped DEF JobOK, Batched, Jobs
<1>4. \A i \in 1 .. Tip : Settled(i)' = Settled(i)
  BY <1>1 DEF Settled
<1>5. r.pc = "restore" => r.todo = {}
  BY <1>2 DEF BeginAccounts, SaveChild, EndAccounts, SaveScan, SaveUpdate, SetAccount
<1>6. \A i \in 1 .. Tip : r.h <= i /\ i <= BatchEnd(r) => Settled(i)
  BY <1>2, <1>5 DEF JobOK, BatchKnown
<1>7. ASSUME BeginAccounts(t) \/ SaveChild(t) \/ EndAccounts(t) \/ \E p \in Path : SetAccount(t, p)
      PROVE  ScanInv'
  <2>1. PICK s : /\ Become(t, s) /\ s.kind = r.kind /\ s.tip = r.tip /\ s.h = r.h
                 /\ s.pc \in {"account", "child", "save"}
    <3>1. CASE BeginAccounts(t)
      <4> DEFINE left == {k[1] : k \in r.found}
                 s == [r EXCEPT !.pc = "account", !.n = Cardinality(DOMAIN accts),
                         !.known = PathsOf(accts), !.left = left]
      <4>1. s.kind = r.kind /\ s.tip = r.tip /\ s.h = r.h /\ s.pc = "account"
        <5> HIDE DEF left
        <5> QED
          BY <1>2 DEF Jobs
      <4>2. Become(t, s)
        BY <3>1 DEF BeginAccounts
      <4> HIDE DEF s
      <4> QED
        BY <4>1, <4>2
    <3>2. CASE SaveChild(t)
      <4> DEFINE s == [r EXCEPT !.pc = "account", !.at = 0]
      <4>1. s.kind = r.kind /\ s.tip = r.tip /\ s.h = r.h /\ s.pc = "account"
        BY <1>2 DEF Jobs
      <4>2. Become(t, s)
        BY <3>2 DEF SaveChild
      <4> HIDE DEF s
      <4> QED
        BY <4>1, <4>2
    <3>3. CASE EndAccounts(t)
      <4> DEFINE s == [r EXCEPT !.pc = "save", !.found = {}, !.known = {}, !.n = 0]
      <4>1. s.kind = r.kind /\ s.tip = r.tip /\ s.h = r.h /\ s.pc = "save"
        BY <1>2 DEF Jobs
      <4>2. Become(t, s)
        BY <3>3 DEF EndAccounts
      <4> HIDE DEF s
      <4> QED
        BY <4>1, <4>2
    <3>4. ASSUME NEW p \in Path, SetAccount(t, p)
          PROVE  \E s : /\ Become(t, s) /\ s.kind = r.kind /\ s.tip = r.tip /\ s.h = r.h
                        /\ s.pc \in {"account", "child", "save"}
      <4> DEFINE new == p \notin r.known
                 s == [r EXCEPT !.n = IF new THEN NextLabel(@) ELSE @,
                         !.at = p, !.left = @ \ {p}, !.pc = "child"]
      <4>1. s.kind = r.kind /\ s.tip = r.tip /\ s.h = r.h /\ s.pc = "child"
        BY <1>2 DEF Jobs
      <4>2. Become(t, s)
        BY <3>4 DEF SetAccount
      <4> HIDE DEF s
      <4> QED
        BY <4>1, <4>2
    <3> QED
      BY <1>7, <3>1, <3>2, <3>3, <3>4
  <2>2. th'[t] = s /\ \A u \in Scanners : u # t => th'[u] = th[u]
    BY <2>1, BecomeSets DEF TypeOK
  <2>3. BatchEnd(th[t])' = BatchEnd(r)
    BY <2>1, <2>2 DEF BatchEnd
  <2>4. BatchKnown(th[t])'
    BY <1>1, <1>4, <1>6, <2>1, <2>2, <2>3 DEF BatchKnown
  <2>5. JobOK(th[t])'
    BY <1>1, <1>2, <1>4, <2>1, <2>2, <2>4 DEF JobOK, Batched
  <2>6. UNCHANGED last
    BY <1>7 DEF BeginAccounts, SaveChild, EndAccounts, SetAccount, db
  <2> QED
    BY <1>1, <2>2, <2>5, <2>6, ScanKept
<1>8. CASE SaveScan(t) \/ SaveUpdate(t)
  <2> DEFINE next == BatchEnd(r) + 1
             s == [r EXCEPT !.h = next, !.idx = next, !.pc = "page"]
  <2>1. s.kind = r.kind /\ s.tip = r.tip /\ s.h = next /\ s.idx = next /\ s.pc = "page"
    <3> HIDE DEF next
    <3> QED
      BY <1>2 DEF Jobs
  <2>2. /\ \A u \in Scanners : u # t => th'[u] = th[u]
        /\ th'[t] = Idle \/ (~(next > r.tip) /\ th'[t] = s)
        /\ last' = BatchEnd(r)
    <3> DEFINE n == IF next > r.tip THEN Idle ELSE s
    <3>1. Become(t, n) /\ last' = BatchEnd(r)
      BY <1>8 DEF SaveScan, SaveUpdate, NextBatch
    <3> HIDE DEF s, next
    <3>2. n = Idle \/ (~(next > r.tip) /\ n = s)
      OBVIOUS
    <3> HIDE DEF n
    <3> QED
      BY <3>1, <3>2, BecomeSets DEF TypeOK
  <2> HIDE DEF s
  <2>3. ASSUME "partial" \notin marks, NEW i \in 1 .. Tip, i <= BatchEnd(r)
        PROVE  Settled(i)
    <3>1. CASE i < r.h
      BY <1>2, <2>3, <3>1 DEF JobOK, Batched
    <3>2. CASE ~(i < r.h)
      BY <1>3, <1>6, <2>3, <3>2
    <3> QED
      BY <3>1, <3>2
  <2>4. JobOK(th[t])'
    <3>1. CASE th'[t] = Idle
      BY <1>1, <3>1, IdleFits
    <3>2. CASE ~(next > r.tip) /\ th'[t] = s
      <4>1. \A i \in 1 .. Tip : ~(s.h <= i /\ i < s.idx)
        BY <1>3, <2>1
      <4>2. BatchKnown(th[t])'
        BY <1>1, <2>1, <3>2, <4>1 DEF BatchKnown
      <4>3. s.h <= s.tip /\ s.tip <= Tip /\ s.idx >= 1 /\ s.idx <= s.tip + 1
        BY <1>3, <2>1, <3>2
      <4>4. "partial" \notin marks => \A i \in 1 .. Tip : i < s.h => Settled(i)
        BY <1>3, <2>1, <2>3
      <4> QED
        BY <1>1, <1>2, <1>4, <2>1, <3>2, <4>2, <4>3, <4>4 DEF JobOK, Batched
    <3> QED
      BY <2>2, <3>1, <3>2
  <2>5. "partial" \notin marks' => \A i \in 1 .. Tip' : i <= last' => Settled(i)'
    BY <1>1, <1>4, <2>2, <2>3
  <2> QED
    BY <1>1, <2>2, <2>4, <2>5, ScanKept
<1> QED
  BY <1>7, <1>8

-----------------------------------------------------------------------------
(* Accounts and child indices.                                             *)

(* What makes a key usable is never taken back.                            *)
UsableGrows ==
    /\ \A p \in Path : Reachable(p) => Reachable(p)'
    /\ \A k \in Key : Usable(k) => Usable(k)'

(* It is kept by steps that leave accounts and indices alone.              *)
LEMMA SameAccounts ==
  ASSUME UNCHANGED <<accts, child>>, marks \subseteq marks'
  PROVE  UsableGrows /\ \A p : Reachable(p) => Reachable(p)'
  BY DEF UsableGrows, Usable, Reachable, PathsOf

(* What a step of one thread has to leave behind.                          *)
LEMMA AccountsKept ==
  ASSUME TypeOK, RefreshInv, AccountInv, Grows, UsableGrows, NEW t \in Scanners, th' \in [Scanners -> Jobs],
         \A u \in Scanners : u # t => th'[u] = th[u],
         AccountsKnown(th[t])', UNCHANGED active,
         accts' = accts \/ \A u \in Scanners : u # t => th[u].pc \notin {"account", "child"},
         "label" \notin marks' => \A l \in DOMAIN accts' : LabelOK(l)',
         lost \subseteq lost',
         \A k \in Key :
            /\ outs[k] = "None" /\ outs'[k] # "None" => Usable(k)' \/ k \in th'[t].found
            /\ k \in th[t].found => Usable(k)' \/ k \in lost' \cup th'[t].found
  PROVE  AccountInv'
<1>1. \A u \in Scanners : AccountsKnown(th[u])'
  <2> SUFFICES ASSUME NEW u \in Scanners, u # t PROVE AccountsKnown(th[u])'
    OBVIOUS
  <2>1. th'[u] = th[u] /\ th[u] \in Jobs /\ AccountsKnown(th[u])
    BY DEF TypeOK, AccountInv
  <2>2. \A k \in th[u].again : outs'[k] # "None"
    BY <2>1 DEF AccountsKnown, Jobs, Grows
  <2>3. th[u].pc \in {"account", "child"} => accts' = accts
    OBVIOUS
  <2>4. \A k \in th[u].found : k \in Key /\ (Usable(k) => Usable(k)')
    BY <2>1 DEF Jobs, UsableGrows
  <2>5. \A p \in th[u].known \cup {th[u].at} : Reachable(p) => Reachable(p)'
    BY <2>1 DEF Jobs, UsableGrows
  <2>6. "label" \notin marks' => "label" \notin marks
    BY DEF Grows
  <2> QED
    BY <2>1, <2>2, <2>3, <2>4, <2>5, <2>6 DEF AccountsKnown
<1>2. ASSUME NEW k \in Key, outs'[k] # "None"
      PROVE  Usable(k)' \/ k \in lost' \/ \E u \in Scanners : k \in th'[u].found
  <2>1. CASE outs[k] = "None"
    BY <1>2, <2>1
  <2>2. CASE outs[k] # "None"
    <3>1. Usable(k) \/ k \in lost \/ \E u \in Scanners : k \in th[u].found
      BY <2>2 DEF AccountInv
    <3>2. CASE Usable(k) \/ k \in lost
      BY <3>2 DEF UsableGrows
    <3>3. ASSUME NEW u \in Scanners, k \in th[u].found
          PROVE  Usable(k)' \/ k \in lost' \/ \E v \in Scanners : k \in th'[v].found
      BY <1>2, <3>3
    <3> QED
      BY <3>1, <3>2, <3>3
  <2> QED
    BY <2>1, <2>2
<1>3. Reachable(active)'
  BY DEF AccountInv, UsableGrows, TypeOK
<1> QED
  BY <1>1, <1>2, <1>3 DEF AccountInv

(* The labels of a wallet whose accounts stay the same.                    *)
LEMMA SameLabels ==
  ASSUME AccountInv, accts' = accts, marks \subseteq marks'
  PROVE  "label" \notin marks' => \A l \in DOMAIN accts' : LabelOK(l)'
  BY DEF AccountInv, LabelOK

(* Steps that restore nothing and leave accounts and indices alone.        *)
LEMMA PlainAccounts ==
  ASSUME TypeOK, TypeOK', RefreshInv, AccountInv, Grows, NEW t \in Scanners, NEW s, Become(t, s),
         UNCHANGED <<accts, child, active, lost>>,
         \A k \in Key : outs'[k] # "None" => outs[k] # "None",
         th[t].pc \notin {"restore", "account", "child"},
         s.found = {}, s.pc \notin {"account", "child"},
         \A k \in s.again : outs[k] # "None"
  PROVE  AccountInv'
<1>1. th'[t] = s /\ \A u \in Scanners : u # t => th'[u] = th[u]
  BY BecomeSets DEF TypeOK
<1>2. UsableGrows
  BY SameAccounts DEF Grows
<1>3. "label" \notin marks' => \A l \in DOMAIN accts' : LabelOK(l)'
  BY SameLabels DEF Grows
<1>4. th[t].found = {}
  BY DEF AccountInv, AccountsKnown
<1>5. AccountsKnown(th[t])'
  <2>1. th'[t] \in Jobs
    BY DEF TypeOK
  <2>2. \A k \in s.again : outs'[k] # "None"
    BY <1>1, <2>1 DEF Grows, Jobs
  <2> QED
    BY <1>1, <2>2 DEF AccountsKnown
<1>6. th' \in [Scanners -> Jobs]
  BY DEF TypeOK
<1>7. \A k \in Key :
            /\ outs[k] = "None" /\ outs'[k] # "None" => Usable(k)' \/ k \in th'[t].found
            /\ k \in th[t].found => Usable(k)' \/ k \in th'[t].found
  BY <1>4
<1> QED
  BY <1>1, <1>2, <1>3, <1>5, <1>6, <1>7, AccountsKept

(* At first there are no records.                                          *)
LEMMA InitAccounts == Init => AccountInv
<1> SUFFICES ASSUME Init PROVE AccountInv
  OBVIOUS
<1>1. \A t \in Scanners : AccountsKnown(th[t])
  <2>1. \A t \in Scanners : th[t] \in {Idle, Ended}
    BY DEF Init
  <2>2. \A t \in Scanners : th[t].pc \in {"idle", "ended"} /\ th[t].found = {} /\ th[t].again = {}
    BY <2>1 DEF Idle, Ended
  <2> QED
    BY <2>2 DEF AccountsKnown
<1>2. \A k \in Key : outs[k] = "None"
  BY DEF Init
<1>3. Reachable(active)
  BY DEF Init, Reachable, PathsOf
<1>4. \A l \in DOMAIN accts : LabelOK(l)
  BY DEF Init, LabelOK
<1> QED
  BY <1>1, <1>2, <1>3, <1>4 DEF AccountInv

(* A label is added: the paths of the others stay.                         *)
LEMMA LabelAdded ==
  ASSUME TypeOK, NEW label, NEW p \in Path, label \notin DOMAIN accts,
         accts' = save_acct_path(label, p)
  PROVE  /\ PathsOf(accts) \cup {p} \subseteq PathsOf(accts')
         /\ DOMAIN accts' = DOMAIN accts \cup {label}
         /\ Cardinality(DOMAIN accts') = Cardinality(DOMAIN accts) + 1
         /\ Cardinality(DOMAIN accts) \in Nat
<1>1. /\ DOMAIN accts' = DOMAIN accts \cup {label} /\ accts'[label] = p
      /\ \A l \in DOMAIN accts : accts'[l] = accts[l]
  BY SavedPath
<1>2. Cardinality(DOMAIN accts \cup {label}) = Cardinality(DOMAIN accts) + 1
      /\ Cardinality(DOMAIN accts) \in Nat
  BY FS_AddElement, FS_CardinalityType DEF TypeOK
<1> QED
  BY <1>1, <1>2 DEF PathsOf

(* The labels of before are fine when there are more.                      *)
LEMMA LabelsKept ==
  ASSUME NEW l, LabelOK(l), Cardinality(DOMAIN accts) \in Nat,
         Cardinality(DOMAIN accts') = Cardinality(DOMAIN accts) + 1
  PROVE  LabelOK(l)'
  BY DEF LabelOK

(* What a thread has found can be used, or is not done with.               *)
LEMMA FoundSaved ==
  ASSUME TypeOK, AccountInv, NEW t \in Scanners, NEW k \in th[t].found
  PROVE  k \in Key /\ (Usable(k) \/ k \in Unsaved(th[t]))
<1> DEFINE r == th[t]
<1>1. AccountsKnown(r) /\ k \in Key
  BY DEF AccountInv, TypeOK, Jobs
<1>2. CASE r.pc = "restore"
  BY <1>1, <1>2 DEF Unsaved
<1>3. CASE r.pc = "account"
  BY <1>1, <1>3 DEF AccountsKnown, Unsaved
<1>4. CASE r.pc = "child"
  BY <1>1, <1>4 DEF AccountsKnown, Unsaved
<1> QED
  BY <1>1, <1>2, <1>3, <1>4 DEF AccountsKnown

(* The node, users and a crash.                                            *)
LEMMA WorldAccounts ==
  ASSUME TypeOK, RefreshInv, AccountInv, Grows, Mine \/ Spend \/ User \/ Crash
  PROVE  AccountInv'
<1>1. ASSUME UNCHANGED <<outs, accts, child, active, th, marks, lost>> PROVE AccountInv'
  <2>1. UsableGrows /\ \A p : Reachable(p) => Reachable(p)'
    BY <1>1, SameAccounts
  <2>2. \A k \in Key : Usable(k)' = Usable(k)
    BY <1>1 DEF Usable, Reachable
  <2>3. \A t \in Scanners : AccountsKnown(th[t])'
    BY <1>1 DEF AccountInv, AccountsKnown, Usable, Reachable
  <2>4. \A l \in DOMAIN accts' : LabelOK(l)' = LabelOK(l)
    BY <1>1 DEF LabelOK
  <2> QED
    BY <1>1, <2>1, <2>2, <2>3, <2>4 DEF AccountInv
<1>2. CASE Mine \/ Spend
  BY <1>1, <1>2 DEF Mine, Spend, db
<1>3. Free => \A t \in Scanners : th[t].pc \notin {"account", "child"}
  BY Parameters DEF RefreshInv, Holding, Free
<1>4. ASSUME UsableGrows, UNCHANGED <<th, lost>>, Free, Reachable(active)',
             "label" \notin marks' => \A l \in DOMAIN accts' : LabelOK(l)',
             \A k \in Key : outs[k] = "None" /\ outs'[k] # "None" => Usable(k)'
      PROVE  AccountInv'
  <2>1. \A t \in Scanners : AccountsKnown(th[t])'
    BY <1>3, <1>4 DEF AccountInv, AccountsKnown, Grows, TypeOK, Jobs
  <2> QED
    BY <1>4, <2>1 DEF AccountInv, UsableGrows, Grows
<1>5. ASSUME NEW label \in UserLabels, create_account(label) PROVE AccountInv'
  <2> DEFINE p == Max(PathsOf(accts)) + 1
  <2>1. p \in Path /\ label \notin DOMAIN accts /\ accts' = save_acct_path(label, p)
    BY <1>5, HighestPath, Parameters DEF create_account, Path
  <2> HIDE DEF p
  <2>2. /\ PathsOf(accts) \subseteq PathsOf(accts') /\ DOMAIN accts' = DOMAIN accts \cup {label}
        /\ Cardinality(DOMAIN accts') = Cardinality(DOMAIN accts) + 1 /\ Cardinality(DOMAIN accts) \in Nat
    BY <2>1, LabelAdded
  <2>3. UNCHANGED <<outs, child, active, th, marks, lost>> /\ Free
    BY <1>5 DEF create_account
  <2>4. \A q : Reachable(q) => Reachable(q)'
    BY <2>2, <2>3 DEF Reachable
  <2>5. UsableGrows
    BY <2>3, <2>4 DEF UsableGrows, Usable
  <2>6. "label" \notin marks' => \A l \in DOMAIN accts' : LabelOK(l)'
    <3>1. LabelOK(label)'
      BY DEF LabelOK
    <3>2. "label" \notin marks' => \A l \in DOMAIN accts : LabelOK(l)
      BY <2>3 DEF AccountInv
    <3> QED
      BY <2>2, <3>1, <3>2, LabelsKept
  <2> QED
    BY <1>4, <2>3, <2>4, <2>5, <2>6 DEF AccountInv
<1>6. ASSUME NEW label \in DOMAIN accts, set_active_account(label) PROVE AccountInv'
  <2>1. UNCHANGED <<outs, accts, child, th, marks, lost>> /\ Free /\ active' = accts[label]
    BY <1>6 DEF set_active_account, db
  <2>2. Reachable(active)'
    BY <2>1 DEF Reachable, PathsOf
  <2>3. UsableGrows
    BY <2>1, SameAccounts
  <2>4. "label" \notin marks' => \A l \in DOMAIN accts' : LabelOK(l)'
    BY <2>1, SameLabels
  <2> QED
    BY <1>4, <2>1, <2>2, <2>3, <2>4
<1>7. CASE Receive
  <2> DEFINE k == <<active, child[active]>>
  <2>1. UNCHANGED <<accts, active, th, marks, lost>> /\ Free
    BY <1>7 DEF Receive
  <2>2. child[active] \in Nat /\ child' = [child EXCEPT ![active] = @ + 1] /\ active \in Path
    BY <1>7 DEF Receive, TypeOK
  <2>3. \A j \in Key : outs[j] = "None" /\ outs'[j] # "None" => j = k
    BY <1>7 DEF Receive, TypeOK
  <2>4. \A p : Reachable(p) => Reachable(p)'
    BY <2>1 DEF Reachable, PathsOf
  <2>5. \A p \in Path : child'[p] >= child[p] /\ child[p] \in Nat /\ child'[p] \in Nat
    BY <2>2 DEF TypeOK
  <2>6. UsableGrows
    <3>1. \A j \in Key : j[1] \in Path /\ j[2] \in Nat
      BY KeyParts, Parameters
    <3> QED
      BY <2>4, <2>5, <3>1 DEF UsableGrows, Usable
  <2>7. \A j \in Key : outs[j] = "None" /\ outs'[j] # "None" => Usable(j)'
    <3> SUFFICES ASSUME NEW j \in Key, j = k PROVE Usable(j)'
      BY <2>3
    <3>1. j[1] = active /\ j[2] = child[active]
      OBVIOUS
    <3>2. child'[active] = child[active] + 1
      BY <2>2 DEF TypeOK
    <3>3. Reachable(active)'
      BY <2>1, <2>4 DEF AccountInv
    <3> HIDE DEF k
    <3> QED
      BY <2>1, <2>2, <3>1, <3>2, <3>3 DEF Usable, Reachable
  <2>8. "label" \notin marks' => \A l \in DOMAIN accts' : LabelOK(l)'
    BY <2>1, SameLabels
  <2>9. Reachable(active)'
    BY <2>1, <2>4 DEF AccountInv
  <2> QED
    BY <1>4, <2>1, <2>6, <2>7, <2>8, <2>9
<1>8. CASE Crash
  <2>1. /\ \A t \in Scanners : th'[t] \in {Idle, Ended}
        /\ UNCHANGED <<outs, accts, child, marks>> /\ active' = 0
        /\ lost' = lost \cup UNION {Unsaved(th[t]) : t \in Scanners}
    BY <1>8 DEF Crash, db
  <2>2. \A t \in Scanners : AccountsKnown(th[t])'
    <3>1. \A t \in Scanners : th'[t].pc \in {"idle", "ended"} /\ th'[t].found = {} /\ th'[t].again = {}
      BY <2>1 DEF Idle, Ended
    <3> QED
      BY <3>1 DEF AccountsKnown
  <2>3. UsableGrows
    BY <2>1, SameAccounts
  <2>4. Reachable(active)'
    BY <2>1 DEF Reachable, PathsOf, TypeOK
  <2>5. "label" \notin marks' => \A l \in DOMAIN accts' : LabelOK(l)'
    BY <2>1, SameLabels
  <2>6. \A k \in Key : outs'[k] # "None" => Usable(k)' \/ k \in lost'
    <3>1. \A t \in Scanners : \A k \in th[t].found : Usable(k) \/ k \in lost'
      BY <2>1, FoundSaved
    <3> QED
      BY <2>1, <2>3, <3>1 DEF AccountInv, UsableGrows
  <2> QED
    BY <2>2, <2>4, <2>5, <2>6 DEF AccountInv
<1> QED
  BY <1>2, <1>5, <1>6, <1>7, <1>8 DEF User

(* Starts, refreshes, pages, comparisons and progress.                     *)
LEMMA ScanAccounts ==
  ASSUME TypeOK, TypeOK', RefreshInv, ScanInv, AccountInv, Grows, NEW t \in Scanners,
         \/ Start(t) \/ RefreshAsk(t) \/ Response(t) \/ RefreshApply(t) \/ RefreshFails(t)
         \/ ReadTip(t) \/ ReadLast(t) \/ NodeFails(t) \/ CollectPage(t) \/ ViewPage(t)
         \/ Compare(t) \/ Again(t) \/ SaveScan(t) \/ SaveUpdate(t)
  PROVE  AccountInv'
<1> DEFINE r == th[t]
           Fits(s) == /\ s.found = {} /\ s.pc \notin {"account", "child"}
                      /\ \A k \in s.again : outs[k] # "None"
<1>1. /\ r \in Jobs /\ r.pc \notin {"restore", "account", "child"}
      /\ UNCHANGED <<accts, child, active, lost>>
  BY DEF TypeOK, Start, StartUpdate, start_updater, stop_updater, StartScan, StartView, RefreshAsk, Response, RefreshApply, RefreshFails,
     ReadTip, ReadLast, NodeFails, CollectPage, ViewPage, Compare, Again, SaveScan, SaveUpdate, Quiet, db
<1>2. r.found = {} /\ \A k \in r.again : k \in Key /\ outs[k] # "None"
  BY <1>1 DEF AccountInv, AccountsKnown, Jobs
<1>3. \A k \in Key : outs'[k] # "None" => outs[k] # "None"
  <2>1. CASE RefreshApply(t)
    BY <2>1 DEF RefreshApply
  <2>2. CASE Again(t)
    BY <1>2, <2>2 DEF Again
  <2>3. CASE ~RefreshApply(t) /\ ~Again(t)
    BY <2>3 DEF Start, StartUpdate, start_updater, stop_updater, StartScan, StartView, RefreshAsk, Response, RefreshFails,
       ReadTip, ReadLast, NodeFails, CollectPage, ViewPage, Compare, SaveScan, SaveUpdate, db
  <2> QED
    BY <2>1, <2>2, <2>3
<1>4. ASSUME NEW s, Become(t, s), Fits(s) PROVE AccountInv'
  BY <1>1, <1>3, <1>4, PlainAccounts
<1>5. Fits(Idle) /\ Fits(Ended)
  BY DEF Idle, Ended
<1>6. CASE Start(t)
  <2>1. Fits([Idle EXCEPT !.kind = "update", !.pc = "refresh"])
    BY DEF Idle
  <2>2. \A from : /\ Fits([Idle EXCEPT !.kind = "scan", !.pc = "refresh", !.from = from])
                  /\ Fits([Idle EXCEPT !.kind = "view", !.pc = "tip", !.from = from])
    BY DEF Idle
  <2> HIDE DEF Fits
  <2> QED
    BY <1>4, <1>5, <1>6, <2>1, <2>2 DEF Start, StartUpdate, start_updater, stop_updater, StartScan, StartView
<1>7. CASE RefreshAsk(t)
  <2> DEFINE asked == {k \in Key : k[1] = active /\ outs[k] \in {"Unconfirmed", "Unspent"}}
             s == [r EXCEPT !.pc = "hear", !.ask = asked]
  <2>1. Fits(s)
    <3> HIDE DEF asked
    <3> QED
      BY <1>1, <1>2 DEF Jobs
  <2>2. Become(t, s)
    BY <1>7 DEF RefreshAsk
  <2> HIDE DEF s, Fits
  <2> QED
    BY <1>4, <2>1, <2>2
<1>8. CASE Response(t)
  <2>1. PICK C \in SUBSET r.ask :
               Become(t, [th[t] EXCEPT !.ask = @ \ C, !.heard = @ \cup (C \cap (OnChain \ spent))])
    BY <1>8 DEF Response
  <2>2. Fits([r EXCEPT !.ask = @ \ C, !.heard = @ \cup (C \cap (OnChain \ spent))])
    BY <1>1, <1>2 DEF Jobs
  <2> HIDE DEF Fits
  <2> QED
    BY <1>4, <2>1, <2>2
<1>9. CASE RefreshApply(t) \/ RefreshFails(t)
  <2>1. \A ok : Fits(AfterRefresh(t, ok))
    BY <1>1, <1>2, <1>5 DEF AfterRefresh, Jobs
  <2> HIDE DEF Fits
  <2> QED
    BY <1>4, <1>9, <2>1 DEF RefreshApply, RefreshFails
<1>10. CASE ReadTip(t)
  <2>1. Fits([r EXCEPT !.tip = Tip, !.pc = "range"])
    BY <1>1, <1>2 DEF Jobs
  <2> HIDE DEF Fits
  <2> QED
    BY <1>4, <1>10, <2>1 DEF ReadTip
<1>11. CASE ReadLast(t)
  <2> DEFINE from == ScanFrom(th[t])
             s == [r EXCEPT !.from = from, !.h = from, !.idx = FirstIndex(from), !.pc = "page"]
  <2>1. Fits(s)
    BY <1>1, <1>2 DEF Jobs
  <2>2. Become(t, Idle) \/ Become(t, s)
    BY <1>11 DEF ReadLast
  <2> HIDE DEF s, Fits
  <2> QED
    BY <1>4, <1>5, <2>1, <2>2
<1>12. CASE NodeFails(t)
  BY <1>4, <1>5, <1>12 DEF NodeFails
<1>13. CASE CollectPage(t) \/ ViewPage(t)
  <2> DEFINE p == PageOf(r)
             s == [r EXCEPT !.got = p.got, !.pc = "compare"]
             n == [r EXCEPT !.got = p.got, !.idx = p.next]
  <2>1. Fits(s) /\ Fits(n)
    <3> HIDE DEF p
    <3> QED
      BY <1>1, <1>2 DEF Jobs
  <2>2. Become(t, Idle) \/ Become(t, s) \/ Become(t, n)
    BY <1>13 DEF CollectPage, ViewPage
  <2> HIDE DEF s, n, Fits
  <2> QED
    BY <1>4, <1>5, <2>1, <2>2
<1>14. CASE Compare(t)
  <2> DEFINE todo == {k \in r.got : outs[k] = "None"}
             again == {k \in r.got : outs[k] = "Spent"}
             s == [r EXCEPT !.pc = "again", !.got = {}, !.todo = todo, !.again = again]
  <2>1. s.found = r.found /\ s.pc = "again" /\ s.again = again
    <3> HIDE DEF todo, again
    <3> QED
      BY <1>1 DEF Jobs
  <2>2. Become(t, s)
    BY <1>14 DEF Compare
  <2> HIDE DEF s
  <2>3. Fits(s)
    BY <1>2, <2>1
  <2> HIDE DEF Fits
  <2> QED
    BY <1>4, <2>2, <2>3
<1>15. CASE Again(t)
  <2>1. Fits([r EXCEPT !.pc = "restore", !.again = {}])
    BY <1>1, <1>2 DEF Jobs
  <2> HIDE DEF Fits
  <2> QED
    BY <1>4, <1>15, <2>1 DEF Again
<1>16. CASE SaveScan(t) \/ SaveUpdate(t)
  <2> DEFINE next == BatchEnd(r) + 1
             s == [r EXCEPT !.h = next, !.idx = next, !.pc = "page"]
  <2>1. Fits(s)
    <3> HIDE DEF next
    <3> QED
      BY <1>1, <1>2 DEF Jobs
  <2>2. Become(t, Idle) \/ Become(t, s)
    BY <1>16 DEF SaveScan, SaveUpdate, NextBatch
  <2> HIDE DEF s, Fits
  <2> QED
    BY <1>4, <1>5, <2>1, <2>2
<1> QED
  BY <1>6, <1>7, <1>8, <1>9, <1>10, <1>11, <1>12, <1>13, <1>14, <1>15, <1>16

(* A chunk is restored: its outputs are found.                             *)
LEMMA ChunkAccounts ==
  ASSUME TypeOK, TypeOK', RefreshInv, AccountInv, Grows, NEW t \in Scanners, RestoreChunk(t)
  PROVE  AccountInv'
<1> DEFINE r == th[t]
<1>1. PICK C \in SUBSET r.todo :
            /\ outs' = [k \in Key |-> IF k \in C THEN "Unspent" ELSE outs[k]]
            /\ Become(t, [th[t] EXCEPT !.todo = @ \ C, !.found = @ \cup C])
  BY DEF RestoreChunk
<1> DEFINE s == [r EXCEPT !.todo = @ \ C, !.found = @ \cup C]
<1>2. r \in Jobs /\ r.pc = "restore" /\ UNCHANGED <<accts, child, active, lost>> /\ marks' = marks
  BY DEF RestoreChunk, TypeOK, Quiet
<1>3. s.pc = "restore" /\ s.found = r.found \cup C /\ s.again = r.again
  BY <1>2 DEF Jobs
<1>4. th'[t] = s /\ \A u \in Scanners : u # t => th'[u] = th[u]
  BY <1>1, BecomeSets DEF TypeOK
<1> HIDE DEF s
<1>5. UsableGrows
  BY <1>2, SameAccounts
<1>6. "label" \notin marks' => \A l \in DOMAIN accts' : LabelOK(l)'
  BY <1>2, SameLabels
<1>7. AccountsKnown(th[t])'
  <2>1. \A k \in r.again : k \in Key /\ outs[k] # "None"
    BY <1>2 DEF AccountInv, AccountsKnown, Jobs
  <2> QED
    BY <1>3, <1>4, <2>1 DEF AccountsKnown, Grows
<1>8. \A k \in Key :
            /\ outs[k] = "None" /\ outs'[k] # "None" => Usable(k)' \/ k \in th'[t].found
            /\ k \in th[t].found => Usable(k)' \/ k \in th'[t].found
  BY <1>1, <1>3, <1>4
<1>9. th' \in [Scanners -> Jobs]
  BY DEF TypeOK
<1> QED
  BY <1>2, <1>4, <1>5, <1>6, <1>7, <1>8, <1>9, AccountsKept

(* The accounts of the outputs found are looked at, one after the other,   *)
(* under the mutex.                                                        *)
LEMMA BeginEndAccounts ==
  ASSUME TypeOK, TypeOK', RefreshInv, AccountInv, Grows, NEW t \in Scanners,
         BeginAccounts(t) \/ EndAccounts(t)
  PROVE  AccountInv'
<1> DEFINE r == th[t]
<1>1. r \in Jobs /\ UNCHANGED <<outs, accts, child, active, marks, lost>> /\ th' \in [Scanners -> Jobs]
  BY DEF BeginAccounts, EndAccounts, TypeOK, Quiet, db
<1>2. UsableGrows
  BY <1>1, SameAccounts
<1>3. "label" \notin marks' => \A l \in DOMAIN accts' : LabelOK(l)'
  BY <1>1, SameLabels
<1>4. \A k \in r.again : k \in Key /\ outs'[k] # "None"
  BY <1>1 DEF AccountInv, AccountsKnown, Jobs
<1>5. CASE BeginAccounts(t)
  <2> DEFINE left == {k[1] : k \in r.found}
             s == [r EXCEPT !.pc = "account", !.n = Cardinality(DOMAIN accts), !.known = PathsOf(accts), !.left = left]
  <2>1. s.pc = "account" /\ s.n = Cardinality(DOMAIN accts) /\ s.left = left /\ s.found = r.found
        /\ s.again = r.again /\ s.known = PathsOf(accts)
    <3> HIDE DEF left
    <3> QED
      BY <1>1 DEF Jobs
  <2>2. th'[t] = s /\ \A u \in Scanners : u # t => th'[u] = th[u]
    <3>1. Become(t, s)
      BY <1>5 DEF BeginAccounts
    <3> QED
      BY <3>1, BecomeSets DEF TypeOK
  <2> HIDE DEF s
  <2>3. AccountsKnown(th[t])'
    BY <1>1, <1>4, <2>1, <2>2 DEF AccountsKnown, Reachable
  <2>4. \A k \in Key :
            /\ outs[k] = "None" /\ outs'[k] # "None" => Usable(k)' \/ k \in th'[t].found
            /\ k \in th[t].found => Usable(k)' \/ k \in th'[t].found
    BY <1>1, <2>1, <2>2
  <2> QED
    BY <1>1, <1>2, <1>3, <2>2, <2>3, <2>4, AccountsKept
<1>6. CASE EndAccounts(t)
  <2> DEFINE s == [r EXCEPT !.pc = "save", !.found = {}, !.known = {}, !.n = 0]
  <2>1. s.pc = "save" /\ s.found = {} /\ s.again = r.again
    BY <1>1 DEF Jobs
  <2>2. th'[t] = s /\ \A u \in Scanners : u # t => th'[u] = th[u]
    BY <1>6, BecomeSets DEF EndAccounts, TypeOK
  <2> HIDE DEF s
  <2>3. AccountsKnown(th[t])'
    BY <1>4, <2>1, <2>2 DEF AccountsKnown
  <2>4. \A k \in r.found : k \in Key /\ Usable(k)
    BY <1>1, <1>6 DEF EndAccounts, AccountInv, AccountsKnown, Jobs
  <2>5. \A k \in Key :
            /\ outs[k] = "None" /\ outs'[k] # "None" => Usable(k)' \/ k \in th'[t].found
            /\ k \in th[t].found => Usable(k)' \/ k \in th'[t].found
    BY <1>1, <1>2, <2>4 DEF UsableGrows
  <2> QED
    BY <1>1, <1>2, <1>3, <2>2, <2>3, <2>5, AccountsKept
<1> QED
  BY <1>5, <1>6

(* An account is made for a path that has none, with the next number: no   *)
(* label that a scan generated has it, so only a user's can be replaced.   *)
LEMMA SetAccounts ==
  ASSUME TypeOK, TypeOK', RefreshInv, AccountInv, Grows, NEW t \in Scanners, NEW p \in Path, SetAccount(t, p)
  PROVE  AccountInv'
<1> DEFINE r == th[t]
           new == p \notin r.known
           label == Label(r.n)
           left == r.left \ {p}
           n == IF new THEN NextLabel(r.n) ELSE r.n
           s == [r EXCEPT !.n = IF new THEN NextLabel(@) ELSE @, !.at = p, !.left = @ \ {p}, !.pc = "child"]
<1>1. /\ r \in Jobs /\ r.pc = "account" /\ p \in r.left /\ UNCHANGED <<outs, child, active, lost>>
      /\ th' \in [Scanners -> Jobs]
      /\ accts' = IF new THEN save_acct_path(label, p) ELSE accts
      /\ new /\ label \in UserLabels \cap DOMAIN accts => "label" \in marks'
  BY DEF SetAccount, TypeOK, Quiet
<1>2. s.pc = "child" /\ s.n = n /\ s.at = p /\ s.left = left /\ s.found = r.found /\ s.again = r.again
      /\ s.known = r.known
  BY <1>1 DEF Jobs
<1>3. th'[t] = s /\ \A u \in Scanners : u # t => th'[u] = th[u]
  <2>1. Become(t, s)
    BY DEF SetAccount
  <2> QED
    BY <2>1, BecomeSets DEF TypeOK
<1> HIDE DEF s, new, label
<1>4. \A u \in Scanners : u # t => th[u].pc \notin {"account", "child"}
  BY <1>1 DEF RefreshInv, Holding
<1>5. AccountsKnown(r) /\ ("label" \notin marks => \A l \in DOMAIN accts : LabelOK(l))
      /\ ("label" \notin marks' => "label" \notin marks)
  BY DEF AccountInv, Grows
<1>6. ASSUME "label" \notin marks', new
      PROVE  label \notin DOMAIN accts
  <2> SUFFICES ASSUME label \in DOMAIN accts PROVE FALSE
    OBVIOUS
  <2>1. label \notin UserLabels /\ label # Default
    BY <1>1, <1>6, LabelsDiffer DEF label
  <2>2. LabelOK(label) /\ r.n = Cardinality(DOMAIN accts)
    BY <1>1, <1>5, <1>6 DEF AccountsKnown
  <2>3. PICK m \in Nat : label = Label(m) /\ m < Cardinality(DOMAIN accts)
    BY <2>1, <2>2 DEF LabelOK
  <2>4. m = r.n
    BY <2>3, LabelsDiffer DEF label
  <2> QED
    BY <2>2, <2>3, <2>4
<1>7. ASSUME "label" \notin marks'
      PROVE  /\ PathsOf(accts) \cup {p} \subseteq PathsOf(accts')
             /\ n = Cardinality(DOMAIN accts')
             /\ \A l \in DOMAIN accts' : LabelOK(l)'
  <2>1. r.n = Cardinality(DOMAIN accts) /\ \A l \in DOMAIN accts : LabelOK(l)
    BY <1>1, <1>5, <1>7 DEF AccountsKnown
  <2>2. CASE new
    <3>1. /\ PathsOf(accts) \cup {p} \subseteq PathsOf(accts') /\ DOMAIN accts' = DOMAIN accts \cup {label}
          /\ Cardinality(DOMAIN accts') = Cardinality(DOMAIN accts) + 1 /\ Cardinality(DOMAIN accts) \in Nat
      BY <1>1, <1>6, <1>7, <2>2, LabelAdded
    <3>2. n = Cardinality(DOMAIN accts')
      BY <2>1, <2>2, <3>1 DEF NextLabel
    <3>3. PICK added : added = label
      OBVIOUS
    <3>4. LabelOK(added)'
      <4>1. label = Label(r.n) /\ r.n \in Nat /\ r.n < Cardinality(DOMAIN accts')
        BY <2>1, <3>1 DEF label
      <4>2. \E m \in Nat : added = Label(m) /\ m < Cardinality(DOMAIN accts')
        BY <3>3, <4>1
      <4> QED
        BY <4>2 DEF LabelOK
    <3>5. \A l \in DOMAIN accts : LabelOK(l)'
      BY <2>1, <3>1, LabelsKept
    <3> QED
      BY <3>1, <3>2, <3>3, <3>4, <3>5
  <2>3. CASE ~new
    <3>1. accts' = accts /\ n = r.n /\ p \in PathsOf(accts)
      BY <1>1, <1>5, <1>7, <2>3 DEF new, AccountsKnown, Reachable
    <3> QED
      BY <2>1, <3>1 DEF LabelOK
  <2> QED
    BY <2>2, <2>3
<1>8. Reachable(p)' /\ \A q : Reachable(q) => Reachable(q)'
  BY <1>5, <1>7 DEF Reachable
<1>9. UsableGrows
  BY <1>1, <1>8 DEF UsableGrows, Usable
<1>10. AccountsKnown(th[t])'
  <2>1. \A k \in r.again : k \in Key /\ outs'[k] # "None"
    BY <1>1, <1>5 DEF AccountsKnown, Jobs
  <2>2. left \subseteq {k[1] : k \in r.found} /\ p \in {k[1] : k \in r.found}
    BY <1>1, <1>5 DEF AccountsKnown
  <2>3. \A k \in r.found : k[1] \in left \cup {p} \/ Usable(k)'
    BY <1>1, <1>5, <1>9 DEF AccountsKnown, UsableGrows, Jobs
  <2>4. \A q \in r.known : Reachable(q)'
    BY <1>1, <1>5, <1>8 DEF AccountsKnown
  <2> HIDE DEF left, n
  <2> QED
    BY <1>2, <1>3, <1>7, <1>8, <2>1, <2>2, <2>3, <2>4 DEF AccountsKnown
<1>11. \A k \in Key :
            /\ outs[k] = "None" /\ outs'[k] # "None" => Usable(k)' \/ k \in th'[t].found
            /\ k \in th[t].found => Usable(k)' \/ k \in th'[t].found
  BY <1>1, <1>2, <1>3
<1> QED
  BY <1>1, <1>3, <1>4, <1>7, <1>9, <1>10, <1>11, AccountsKept

(* The child index of a path is moved past the highest output found.       *)
LEMMA ChildAccounts ==
  ASSUME TypeOK, TypeOK', RefreshInv, AccountInv, Grows, NEW t \in Scanners, SaveChild(t)
  PROVE  AccountInv'
<1> DEFINE r == th[t]
           p == r.at
           max == Max({k[2] : k \in {j \in r.found : j[1] = p}})
           s == [r EXCEPT !.pc = "account", !.at = 0]
<1>1. /\ r \in Jobs /\ r.pc = "child" /\ UNCHANGED <<outs, accts, active, marks, lost>>
      /\ th' \in [Scanners -> Jobs] /\ p \in Path
      /\ child' = IF Behind(p, max) THEN [child EXCEPT ![p] = max + 1] ELSE child
  BY DEF SaveChild, TypeOK, Quiet, Jobs
<1>2. s.pc = "account" /\ s.n = r.n /\ s.left = r.left /\ s.found = r.found /\ s.again = r.again
      /\ s.known = r.known
  BY <1>1 DEF Jobs
<1>3. th'[t] = s /\ \A u \in Scanners : u # t => th'[u] = th[u]
  BY BecomeSets DEF TypeOK, SaveChild
<1>4. max \in Nat /\ \A k \in r.found : k[1] = p => k[2] <= max
  BY <1>1, HighestChild
<1> HIDE DEF s, max
<1>5. /\ \A q \in Path : child[q] \in Nat /\ child'[q] \in Nat /\ child'[q] >= child[q]
      /\ child'[p] > max
  BY <1>1, <1>4 DEF TypeOK, Behind
<1>6. \A k \in Key : k[1] \in Path /\ k[2] \in Nat
  BY KeyParts, Parameters
<1>7. UsableGrows
  BY <1>1, <1>5, <1>6 DEF UsableGrows, Usable, Reachable
<1>8. "label" \notin marks' => \A l \in DOMAIN accts' : LabelOK(l)'
  BY <1>1, SameLabels
<1>9. AccountsKnown(r)
  BY DEF AccountInv
<1>10. AccountsKnown(th[t])'
  <2>1. \A k \in r.again : k \in Key /\ outs'[k] # "None"
    BY <1>1, <1>9 DEF AccountsKnown, Jobs
  <2>2. \A k \in r.found : k[1] = p => Usable(k)'
    <3>1. Reachable(p)
      BY <1>1, <1>9 DEF AccountsKnown
    <3>2. \A k \in r.found : k \in Key /\ (k[1] = p => child'[p] > k[2])
      BY <1>1, <1>4, <1>5, <1>6 DEF Jobs
    <3> QED
      BY <1>1, <3>1, <3>2 DEF Usable, Reachable
  <2>3. \A k \in r.found : k[1] \in r.left \/ Usable(k)'
    BY <1>1, <1>7, <1>9, <2>2 DEF AccountsKnown, UsableGrows, Jobs
  <2> QED
    BY <1>1, <1>2, <1>3, <1>9, <2>1, <2>3 DEF AccountsKnown, Reachable
<1>11. \A k \in Key :
            /\ outs[k] = "None" /\ outs'[k] # "None" => Usable(k)' \/ k \in th'[t].found
            /\ k \in th[t].found => Usable(k)' \/ k \in th'[t].found
  BY <1>1, <1>2, <1>3
<1> QED
  BY <1>1, <1>3, <1>7, <1>8, <1>10, <1>11, AccountsKept

(* A job that fails leaves what it has found and is not done with.         *)
LEMMA FailAccounts ==
  ASSUME TypeOK, TypeOK', RefreshInv, AccountInv, Grows, NEW t \in Scanners, JobFails(t)
  PROVE  AccountInv'
<1>1. PICK r \in {Idle, Ended} : Become(t, r)
  BY DEF JobFails
<1>2. th'[t] = r /\ \A u \in Scanners : u # t => th'[u] = th[u]
  BY <1>1, BecomeSets DEF TypeOK
<1>3. r.pc \in {"idle", "ended"} /\ r.found = {} /\ r.again = {}
  BY DEF Idle, Ended
<1>4. /\ UNCHANGED <<outs, accts, child, active, marks>> /\ th' \in [Scanners -> Jobs]
      /\ lost' = lost \cup Unsaved(th[t])
  BY DEF JobFails, TypeOK, db
<1>5. UsableGrows
  BY <1>4, SameAccounts
<1>6. "label" \notin marks' => \A l \in DOMAIN accts' : LabelOK(l)'
  BY <1>4, SameLabels
<1>7. AccountsKnown(th[t])'
  BY <1>2, <1>3 DEF AccountsKnown
<1>8. \A k \in Key :
            /\ outs[k] = "None" /\ outs'[k] # "None" => Usable(k)' \/ k \in th'[t].found
            /\ k \in th[t].found => Usable(k)' \/ k \in lost' \cup th'[t].found
  BY <1>4, <1>5, FoundSaved DEF UsableGrows
<1> QED
  BY <1>2, <1>4, <1>5, <1>6, <1>7, <1>8, AccountsKept

-----------------------------------------------------------------------------
(* The theorems.                                                           *)

(* The invariant holds at first.                                           *)
LEMMA InitInv == Init => Inv
  BY InitTyped, InitRefresh, InitScan, InitAccounts DEF Inv

(* Every step keeps it.                                                    *)
LEMMA NextInv == Inv /\ [Next]_vars => Inv'
<1> SUFFICES ASSUME Inv, [Next]_vars PROVE Inv'
  OBVIOUS
<1>1. TypeOK /\ RefreshInv /\ ScanInv /\ AccountInv /\ TypeOK' /\ Grows
  BY NextTyped, StepGrows DEF Inv
<1>2. CASE UNCHANGED vars
  <2>1. UNCHANGED <<chain, spent, outs, accts, child, last, init, active, lock, th, view, fails, crashes, marks, lost>>
    BY <1>2 DEF vars, node, db
  <2>2. Tip' = Tip /\ OnChain' = OnChain
    BY <2>1 DEF Tip, OnChain
  <2>3. RefreshInv'
    BY <1>1, <2>1, <2>2 DEF RefreshInv, NothingLost
  <2>4. KnownShared' /\ \A t \in Scanners : JobOK(th[t])'
    BY <1>1, <2>1, SharedKept, JobStays DEF ScanInv
  <2>5. AccountInv'
    BY <1>1, <2>1 DEF AccountInv, AccountsKnown, Usable, Reachable, LabelOK, PathsOf
  <2> QED
    BY <1>1, <2>3, <2>4, <2>5 DEF Inv, ScanInv, KnownShared
<1>3. CASE Mine \/ Spend \/ User \/ Crash
  BY <1>1, <1>3, WorldRefresh, WorldScan, WorldAccounts DEF Inv
<1>4. ASSUME NEW t \in Scanners, Start(t) \/ ScanStep(t) \/ RefreshFails(t) \/ NodeFails(t) \/ JobFails(t)
      PROVE  Inv'
  <2>1. RefreshInv'
    BY <1>1, <1>4, PlainRefresh, MutexRefresh, RestoreRefresh, FailRefresh DEF ScanStep
  <2>2. ScanInv'
    BY <1>1, <1>4, StartScans, RefreshScans, RangeScans, PageScans, RestoreScans, SaveScans, FailScans
       DEF ScanStep
  <2>3. AccountInv'
    BY <1>1, <1>4, ScanAccounts, ChunkAccounts, BeginEndAccounts, SetAccounts, ChildAccounts, FailAccounts
       DEF ScanStep
  <2> QED
    BY <1>1, <2>1, <2>2, <2>3 DEF Inv
<1> QED
  BY <1>2, <1>3, <1>4 DEF Next

(* The invariant holds in every reachable state.                           *)
THEOREM Inductive == Spec => []Inv
  BY InitInv, NextInv, PTL DEF Spec

(* What the progress marker covers is in the wallet, however batches,      *)
(* pages, failures, crashes and other scans interleave (scan, and          *)
(* collect_chain_outputs with its pages).                                  *)
THEOREM RestoresOutputs == Spec => []OutputsRestored
<1>1. Inv => OutputsRestored
  <2> SUFFICES ASSUME Inv, "partial" \notin marks, NEW k \in Owned(last) PROVE outs[k] # "None"
    BY DEF OutputsRestored
  <2>1. PICK i \in 1 .. Tip : i <= last /\ chain[i] = k
    BY DEF Owned
  <2>2. Settled(i) /\ k \notin spent \cup {NoKey}
    BY <2>1 DEF Inv, ScanInv, Owned
  <2> QED
    BY <2>1, <2>2 DEF Settled
<1> QED
  BY <1>1, Inductive, PTL

(* Restored outputs have an account and a child index past their key       *)
(* (restore_missing_outputs and the accounts scan saves after it), unless  *)
(* the job that restored them ended, by an error or with the process,      *)
(* before it had saved theirs.                                             *)
THEOREM RestoresAccounts == Spec => []AccountsRestored
<1>1. Inv => AccountsRestored
  <2> SUFFICES ASSUME Inv, "partial" \notin marks, NEW k \in Owned(last) \ lost
               PROVE  \/ Usable(k)
                      \/ \E t \in Scanners : k \in th[t].found
    BY DEF AccountsRestored, Usable, Reachable
  <2>1. PICK i \in 1 .. Tip : i <= last /\ chain[i] = k
    BY DEF Owned
  <2>2. Settled(i) /\ k \notin spent \cup {NoKey}
    BY <2>1 DEF Inv, ScanInv, Owned
  <2>3. k \in Key /\ outs[k] # "None"
    BY <2>1, <2>2, BlocksTyped DEF Settled, Inv
  <2> QED
    BY <2>3 DEF Inv, AccountInv
<1> QED
  BY <1>1, Inductive, PTL

(* A refresh records as spent only what is, whichever requests failed and  *)
(* in whatever order the others were answered (apply_api_outputs).         *)
THEOREM LosesNothing == Spec => []NothingLost
<1>1. Inv => NothingLost
  BY DEF Inv, RefreshInv
<1> QED
  BY <1>1, Inductive, PTL

(* A view by rewind hash has every output of its range that is unspent,    *)
(* and nothing else (collect_chain_outputs_rewind_hash).                   *)
THEOREM ViewsAreComplete == Spec => []ViewComplete
<1>1. Inv => ViewComplete
  BY DEF Inv, ScanInv
<1> QED
  BY <1>1, Inductive, PTL

=============================================================================
