----------------------------- MODULE OwnerProofs -----------------------------
(***************************************************************************)
(* The safety properties of the owner server, for any number of clients,   *)
(* updaters, directories, seeds and passwords.                             *)
(*                                                                         *)
(* SeedInv says which file holds a seed at each step of an operation.      *)
(* MaskInv says that a mask is given out once: a mask a thread kept is     *)
(* that of the wallet that is open, or of one that was open before it.     *)
(* SharedInv says what a request that is answered has yet to do to the     *)
(* key and the mask that all clients share.                                *)
(***************************************************************************)
EXTENDS OwnerProps, WellFoundedInduction, TLAPS

-----------------------------------------------------------------------------
(* Types.                                                                  *)

Ops == [kind : {"none", "create", "password", "delete"}, at : Nat, words : Words \cup {"none"},
        pw : Passwords \cup {"none"}, typed : BOOLEAN, bak : Nat]
Databases == [there : BOOLEAN, init : InitStatus, holds : SUBSET Words]
Disks == [seed : Files, baks : [1 .. MaxBaks -> Files], db : Databases]
Backends == [dir : Dirs, words : Words, mask : Nat \ {0}, linked : BOOLEAN] \cup {NoBackend}

LifeTyped ==
    /\ disk \in [Dirs -> Disks]
    /\ lc \in [dir : Dirs, backend : Backends, opens : Nat]
    /\ op \in Ops
    /\ owned \in [Dirs -> SUBSET Words]
    /\ crashes \in Nat

Methods == {"none", "init_secure_api", "open_wallet", "close_wallet", "set_top_level_directory",
            "create_wallet", "change_password", "delete_wallet", "token", "retrieve",
            "start_updater", "stop_updater"}
Requests == [at : {"idle", "reply", "key", "working", "refresh"}, m : Methods, key : Nat, got : Nat]

ServerTyped ==
    /\ okey \in Nat /\ hkey \in Nat /\ smask \in Nat /\ inits \in Nat
    /\ cl \in [Clients -> [key : Nat, tok : Nat]]
    /\ req \in [Clients -> Requests]
    /\ job \in [Threads -> [at : {"none", "read", "apply"}, words : Words \cup {"none"}, mask : Nat]]
    /\ upd \in [Updaters -> [at : {"none", "queued", "check", "update", "test"}, mask : Nat]]
    /\ running \in BOOLEAN /\ raced \in BOOLEAN

TypeOK == LifeTyped /\ ServerTyped

-----------------------------------------------------------------------------
(* The files of an operation that is under way.                            *)

SeedInv ==
    /\ SeedKept
    /\ op.kind \in {"create", "password"} /\ op.at \in {1, 2} => ~disk[Here].seed.whole
    /\ op.kind = "create" => op.words \in Words /\ op.pw \in Passwords
    /\ op.kind = "password" =>
         /\ op.words \in Words \ {"none"} /\ op.pw \in Passwords /\ op.bak \in 1 .. MaxBaks
         /\ disk[Here].baks[op.bak].whole /\ disk[Here].baks[op.bak].words = op.words
    /\ op.kind = "delete" => owned[Here] = {}

(* Masks count the wallets that were opened.                               *)
MaskInv ==
    /\ lc.backend.mask <= lc.opens
    /\ \A c \in Clients : cl[c].tok <= lc.opens
    /\ \A c \in Clients : req[c].m = "open_wallet" => req[c].got <= lc.opens
    /\ \A u \in Updaters : upd[u].mask <= lc.opens
    /\ \A t \in Threads :
         /\ job[t].mask <= lc.opens
         /\ job[t].at = "apply" => job[t].words \in Words
         /\ job[t].at = "apply" /\ keychain(job[t].mask) => job[t].words = lc.backend.words

(* A client's refresh belongs to its request, and only init_secure_api     *)
(* replaces the handler's key.                                             *)
JobInv ==
    \A c \in Clients :
        /\ job[c].at # "none" => req[c].m = "retrieve" /\ req[c].at = "refresh"
        /\ req[c].at = "key" => req[c].m = "init_secure_api"

(* What the requests in flight will do to the shared key and mask.         *)
KeyPending(c) ==
    /\ req[c].at \in {"reply", "key"}
    /\ req[c].got = okey /\ req[c].key \in {0, hkey}
    /\ req[c].at = "key" => cl[c].key = okey

MaskPending(c) ==
    /\ req[c].at = "reply"
    /\ IsOpen => lc.backend.mask = IF req[c].got = 0 THEN smask ELSE req[c].got

SharedInv ==
    ~raced =>
        /\ \A c, d \in Clients :
             /\ req[c].m = req[d].m /\ req[c].m \in {"init_secure_api", "open_wallet"} => c = d
        /\ \A c \in Clients :
             /\ req[c].m = "init_secure_api" => KeyPending(c)
             /\ req[c].m = "open_wallet" => MaskPending(c)
        /\ InFlight("init_secure_api") = {} =>
             hkey = okey /\ (hkey # 0 => \E c \in Clients : cl[c].key = hkey)
        /\ InFlight("open_wallet") = {} => (IsOpen => smask = lc.backend.mask)

Inv == TypeOK /\ SeedInv /\ MaskInv /\ JobInv /\ SharedInv

-----------------------------------------------------------------------------
(* Files.                                                                  *)

(* A set of numbers that is not empty has a least one.                     *)
LEMMA LeastNumber ==
    ASSUME NEW S \in SUBSET Nat, S # {}
    PROVE  \E x \in S : \A y \in S : x <= y
<1>1. PICK x \in S : \A y \in S : <<y, x>> \notin OpToRel(<, Nat)
  BY NatLessThanWellFounded, WFMin
<1>2. \A y \in S : ~(y < x)
  BY <1>1 DEF OpToRel
<1> QED
  BY <1>2

(* backup_seed takes a name that is free.                                  *)
LEMMA BakIsFree ==
    ASSUME NEW d \in Dirs, FreeBak(d) # {}
    PROVE  BakName(d) \in 1 .. MaxBaks /\ disk[d].baks[BakName(d)] = NoFile
<1>1. FreeBak(d) \in SUBSET Nat
  BY LifecycleAssumption DEF FreeBak
<1>2. \E x \in FreeBak(d) : \A y \in FreeBak(d) : x <= y
  BY <1>1, LeastNumber
<1>3. BakName(d) \in FreeBak(d)
  BY <1>2 DEF BakName
<1> QED
  BY <1>3 DEF FreeBak

(* What the invariant says of the directory at hand.                       *)
LEMMA HereFacts ==
    ASSUME LifeTyped
    PROVE  /\ Here \in Dirs /\ disk[Here] \in Disks
           /\ NoFile \in Files /\ EmptyFile \in Files
           /\ ~NoFile.whole /\ ~EmptyFile.whole
           /\ \A w \in Words, pw \in Passwords : /\ SeedFile(w, pw) \in Files
                                                 /\ SeedFile(w, pw).whole /\ SeedFile(w, pw).words = w
           /\ NoDb \in Databases /\ NoDisk \in Disks
<1>1. NoFile \in Files /\ EmptyFile \in Files /\ ~NoFile.whole /\ ~EmptyFile.whole
  BY DEF Files, NoFile, EmptyFile
<1>2. NoDb \in Databases
  BY DEF NoDb, Databases, InitStatus
<1>3. NoDisk \in Disks
  BY <1>1, <1>2 DEF NoDisk, Disks
<1>4. \A w \in Words, pw \in Passwords : /\ SeedFile(w, pw) \in Files
                                         /\ SeedFile(w, pw).whole /\ SeedFile(w, pw).words = w
  BY DEF SeedFile, Files
<1> QED
  BY <1>1, <1>2, <1>3, <1>4 DEF LifeTyped, Here

(* A write to the directory at hand.                                       *)
LEMMA SetDiskFacts ==
    ASSUME LifeTyped, NEW r \in Disks, SetDisk(Here, r)
    PROVE  /\ disk' \in [Dirs -> Disks] /\ disk'[Here] = r
           /\ \A d \in Dirs : d # Here => disk'[d] = disk[d]
BY HereFacts DEF LifeTyped, SetDisk

-----------------------------------------------------------------------------
(* The lifecycle.                                                          *)

LifeInv == LifeTyped /\ SeedInv

(* The seed w is in one of the files of a directory.                       *)
Kept(r, w) ==
    \/ r.seed.whole /\ r.seed.words = w
    \/ \E i \in 1 .. MaxBaks : r.baks[i].whole /\ r.baks[i].words = w

(* The seeds are kept if those of the directory at hand are.               *)
LEMMA SeedKeptHere ==
    ASSUME LifeTyped, SeedKept, NEW r \in Disks, SetDisk(Here, r),
           \A d \in Dirs : d # Here => owned'[d] = owned[d],
           \A w \in owned'[Here] : Kept(r, w)
    PROVE  SeedKept'
<1>1. /\ disk' \in [Dirs -> Disks] /\ disk'[Here] = r
      /\ \A d \in Dirs : d # Here => disk'[d] = disk[d]
  BY SetDiskFacts
<1> QED
  BY <1>1 DEF SeedKept, Kept

(* A step that leaves the files of seeds alone.                            *)
LEMMA SameSeedsInv ==
    ASSUME LifeInv, LifeTyped', UNCHANGED <<op, owned>>,
           lc'.dir = lc.dir \/ op = NoOp,
           \A d \in Dirs : disk'[d].seed = disk[d].seed /\ disk'[d].baks = disk[d].baks
    PROVE  LifeInv'
<1> USE DEF LifeInv
<1>1. SeedKept'
  BY DEF SeedInv, SeedKept
<1>2. Here \in Dirs /\ Here' \in Dirs /\ (Here' = Here \/ op.kind = "none")
  BY DEF LifeTyped, Here, NoOp
<1> QED
  BY <1>1, <1>2 DEF SeedInv

(* create_wallet.                                                          *)
LEMMA CreateInv ==
    ASSUME LifeInv,
           \/ \E w \in Words, pw \in Passwords, typed \in BOOLEAN : create_wallet(w, pw, typed)
           \/ CreateSeedFile \/ WriteSeedFile \/ CreateDb \/ SaveInitStatus
    PROVE  LifeInv'
<1> USE HereFacts DEF LifeInv
<1>1. CASE \E w \in Words, pw \in Passwords, typed \in BOOLEAN : create_wallet(w, pw, typed)
  <2>1. PICK w \in Words, pw \in Passwords, typed \in BOOLEAN : create_wallet(w, pw, typed)
    BY <1>1
  <2>2. /\ op' = [kind |-> "create", at |-> 1, words |-> w, pw |-> pw, typed |-> typed, bak |-> 0]
        /\ UNCHANGED <<disk, lc, owned, crashes>> /\ disk[Here].seed = NoFile
    BY <2>1 DEF create_wallet, Begin, seed_file_exists
  <2>3. LifeTyped'
    BY <2>2 DEF LifeTyped, Ops
  <2> QED
    BY <2>2, <2>3 DEF SeedInv, SeedKept, Here
<1>2. CASE CreateSeedFile
  <2> DEFINE r == [disk[Here] EXCEPT !.seed = EmptyFile]
  <2>1. r \in Disks /\ r.seed = EmptyFile /\ r.baks = disk[Here].baks
    BY DEF Disks
  <2>2. SetDisk(Here, r) /\ op.kind = "create" /\ op.at = 1 /\ op' = [op EXCEPT !.at = 2] /\ UNCHANGED <<lc, owned, crashes>>
    BY <1>2 DEF CreateSeedFile, At, Step, LifeTyped, Ops
  <2> HIDE DEF r
  <2>3. /\ disk' \in [Dirs -> Disks] /\ disk'[Here] = r
        /\ \A d \in Dirs : d # Here => disk'[d] = disk[d]
    BY <2>1, <2>2, SetDiskFacts
  <2>4. \A w \in owned[Here] : Kept(r, w)
    BY <2>1, <2>2 DEF SeedInv, SeedKept, Kept
  <2>5. SeedKept'
    BY <2>1, <2>2, <2>4, SeedKeptHere DEF SeedInv
  <2>6. LifeTyped'
    BY <2>2, <2>3 DEF LifeTyped, Ops
  <2> QED
    BY <2>1, <2>2, <2>3, <2>5, <2>6 DEF SeedInv, LifeTyped, Ops, Here
<1>3. CASE WriteSeedFile
  <2> DEFINE f == SeedFile(op.words, op.pw)
             r == [disk[Here] EXCEPT !.seed = f]
  <2>1. op.kind = "create" /\ op.at = 2 /\ op.words \in Words /\ op.pw \in Passwords
    BY <1>3 DEF WriteSeedFile, At, SeedInv
  <2>2. r \in Disks /\ r.seed.whole /\ r.seed.words = op.words /\ r.baks = disk[Here].baks
    BY <2>1 DEF Disks
  <2>3. /\ SetDisk(Here, r) /\ op' = [op EXCEPT !.at = 3] /\ UNCHANGED <<lc, crashes>>
        /\ owned' = [owned EXCEPT ![Here] = @ \cup {op.words}]
    BY <1>3, <2>1 DEF WriteSeedFile, Step, LifeTyped, Ops
  <2> HIDE DEF r
  <2>4. /\ disk' \in [Dirs -> Disks] /\ disk'[Here] = r
        /\ \A d \in Dirs : d # Here => disk'[d] = disk[d]
    BY <2>2, <2>3, SetDiskFacts
  <2>5. /\ owned' \in [Dirs -> SUBSET Words] /\ owned'[Here] = owned[Here] \cup {op.words}
        /\ \A d \in Dirs : d # Here => owned'[d] = owned[d]
    BY <2>1, <2>3 DEF LifeTyped
  <2>6. \A w \in owned'[Here] : Kept(r, w)
    BY <2>1, <2>2, <2>5 DEF SeedInv, SeedKept, Kept
  <2>7. SeedKept'
    BY <2>2, <2>3, <2>5, <2>6, SeedKeptHere DEF SeedInv
  <2>8. LifeTyped'
    BY <2>3, <2>4, <2>5 DEF LifeTyped, Ops
  <2> QED
    BY <2>1, <2>3, <2>7, <2>8 DEF SeedInv, LifeTyped, Ops, Here
<1>4. CASE CreateDb \/ SaveInitStatus
  <2>1. op.kind = "create" /\ (op' = [op EXCEPT !.at = 4] \/ op' = NoOp) /\ UNCHANGED <<lc, owned, crashes>>
    BY <1>4 DEF CreateDb, SaveInitStatus, At, Step, End, LifeTyped, Ops
  <2>2. PICK r \in Disks : SetDisk(Here, r) /\ r.seed = disk[Here].seed /\ r.baks = disk[Here].baks
    <3>1. CASE CreateDb
      <4> DEFINE r == [disk[Here] EXCEPT !.db = OpenDb(@)]
      <4>1. r \in Disks /\ SetDisk(Here, r) /\ r.seed = disk[Here].seed /\ r.baks = disk[Here].baks
        BY <3>1 DEF CreateDb, Disks, OpenDb, Databases
      <4> QED
        BY <4>1
    <3>2. CASE SaveInitStatus
      <4> DEFINE r == [disk[Here] EXCEPT !.db.init = IF op.typed THEN "InitNeedsScanning" ELSE "InitNoScanning"]
      <4>1. r \in Disks /\ SetDisk(Here, r) /\ r.seed = disk[Here].seed /\ r.baks = disk[Here].baks
        BY <3>2 DEF SaveInitStatus, Disks, InitStatus, Databases
      <4> QED
        BY <4>1
    <3> QED
      BY <1>4, <3>1, <3>2
  <2>3. /\ disk' \in [Dirs -> Disks]
        /\ \A d \in Dirs : disk'[d].seed = disk[d].seed /\ disk'[d].baks = disk[d].baks
    BY <2>2, SetDiskFacts
  <2>4. /\ op' \in Ops /\ op'.kind \in {"create", "none"}
        /\ op'.kind = "create" => op'.at = 4 /\ op'.words = op.words /\ op'.pw = op.pw
    <3>1. CASE op' = [op EXCEPT !.at = 4]
      BY <2>1, <3>1 DEF LifeTyped, Ops
    <3>2. CASE op' = NoOp
      BY <3>2 DEF NoOp, Ops
    <3> QED
      BY <2>1, <3>1, <3>2
  <2>5. LifeTyped'
    BY <2>1, <2>3, <2>4 DEF LifeTyped
  <2>6. SeedKept'
    BY <2>1, <2>3 DEF SeedInv, SeedKept
  <2> QED
    BY <2>1, <2>3, <2>4, <2>5, <2>6 DEF SeedInv, Here
<1> QED
  BY <1>1, <1>2, <1>3, <1>4

(* change_password: the backup is there until the new file was read back.  *)
LEMMA PasswordInv ==
    ASSUME LifeInv,
           \/ \E old, new \in Passwords : change_password(old, new)
           \/ NewSeedFile \/ NewSeedWritten \/ PasswordChanged
    PROVE  LifeInv'
<1> USE HereFacts DEF LifeInv
<1>1. CASE \E old, new \in Passwords : change_password(old, new)
  <2> DEFINE i == BakName(Here)
             r == BackupSeed(Here, i)
             s == disk[Here].seed
  <2>1. PICK old \in Passwords, new \in Passwords : change_password(old, new)
    BY <1>1
  <2>2. /\ op.kind = "none" /\ i \in 1 .. MaxBaks /\ disk[Here].baks[i] = NoFile
        /\ s.whole /\ s.words # "none" /\ s.words \in Words
    BY <2>1, BakIsFree DEF change_password, from_file, NoOp, Disks, Files, NoFile, EmptyFile
  <2>3. /\ r \in Disks /\ r.seed = NoFile /\ r.baks[i] = s
        /\ \A j \in 1 .. MaxBaks : j # i => r.baks[j] = disk[Here].baks[j]
    BY <2>2 DEF BackupSeed, Disks
  <2>4. /\ SetDisk(Here, r) /\ UNCHANGED <<lc, owned, crashes>>
        /\ op' = [kind |-> "password", at |-> 1, words |-> s.words, pw |-> new, typed |-> TRUE, bak |-> i]
    BY <2>1 DEF change_password, Begin
  <2>5. op' \in Ops
    BY <2>2, <2>4, LifecycleAssumption DEF Ops
  <2> HIDE DEF r, s, i
  <2>6. /\ disk' \in [Dirs -> Disks] /\ disk'[Here] = r
        /\ \A d \in Dirs : d # Here => disk'[d] = disk[d]
    BY <2>3, <2>4, SetDiskFacts
  <2>7. \A w \in owned[Here] : Kept(r, w)
    <3> SUFFICES ASSUME NEW w \in owned[Here] PROVE Kept(r, w)
      OBVIOUS
    <3>1. CASE s.words = w
      BY <2>2, <2>3, <3>1 DEF Kept
    <3>2. CASE s.words # w
      <4>1. PICK j \in 1 .. MaxBaks : disk[Here].baks[j].whole /\ disk[Here].baks[j].words = w
        BY <3>2 DEF SeedInv, SeedKept, s
      <4>2. j # i
        BY <2>2, <4>1
      <4> QED
        BY <2>3, <4>1, <4>2 DEF Kept
    <3> QED
      BY <3>1, <3>2
  <2>8. SeedKept'
    BY <2>3, <2>4, <2>7, SeedKeptHere DEF SeedInv
  <2>9. LifeTyped'
    BY <2>4, <2>5, <2>6 DEF LifeTyped
  <2> QED
    BY <2>2, <2>3, <2>4, <2>6, <2>8, <2>9 DEF SeedInv, Here
<1>2. CASE NewSeedFile \/ NewSeedWritten
  <2>1. /\ op.kind = "password" /\ op.words \in Words \ {"none"} /\ op.pw \in Passwords /\ op.bak \in 1 .. MaxBaks
        /\ disk[Here].baks[op.bak].whole /\ disk[Here].baks[op.bak].words = op.words
        /\ ~disk[Here].seed.whole
    BY <1>2 DEF NewSeedFile, NewSeedWritten, At, SeedInv
  <2>2. PICK f \in Files : /\ SetDisk(Here, [disk[Here] EXCEPT !.seed = f])
                           /\ op.at = 1 => ~f.whole
    <3>1. CASE NewSeedFile
      BY <3>1 DEF NewSeedFile
    <3>2. CASE NewSeedWritten
      <4>1. SeedFile(op.words, op.pw) \in Files /\ op.at = 2
        BY <2>1, <3>2 DEF NewSeedWritten, At
      <4> QED
        BY <3>2, <4>1 DEF NewSeedWritten
    <3> QED
      BY <1>2, <3>1, <3>2
  <2> DEFINE r == [disk[Here] EXCEPT !.seed = f]
  <2>3. r \in Disks /\ r.seed = f /\ r.baks = disk[Here].baks /\ SetDisk(Here, r)
    BY <2>2 DEF Disks
  <2>4. /\ op.at \in {1, 2} /\ op' = [op EXCEPT !.at = op.at + 1] /\ UNCHANGED <<lc, owned, crashes>>
    BY <1>2 DEF NewSeedFile, NewSeedWritten, At, Step, LifeTyped, Ops
  <2>5. /\ op' \in Ops /\ op'.kind = "password" /\ op'.at = op.at + 1 /\ op'.words = op.words
        /\ op'.pw = op.pw /\ op'.bak = op.bak
    BY <2>1, <2>4 DEF LifeTyped, Ops
  <2> HIDE DEF r
  <2>6. /\ disk' \in [Dirs -> Disks] /\ disk'[Here] = r
        /\ \A d \in Dirs : d # Here => disk'[d] = disk[d]
    BY <2>3, SetDiskFacts
  <2>7. \A w \in owned[Here] : Kept(r, w)
    BY <2>1, <2>3 DEF SeedInv, SeedKept, Kept
  <2>8. SeedKept'
    BY <2>3, <2>4, <2>7, SeedKeptHere DEF SeedInv
  <2>9. LifeTyped'
    BY <2>4, <2>5, <2>6 DEF LifeTyped
  <2> QED
    BY <2>1, <2>2, <2>3, <2>4, <2>5, <2>6, <2>8, <2>9 DEF SeedInv, Here
<1>3. CASE PasswordChanged
  <2>1. /\ op.kind = "password" /\ op.words \in Words \ {"none"} /\ op.bak \in 1 .. MaxBaks
        /\ disk[Here].baks[op.bak].words = op.words
    BY <1>3 DEF PasswordChanged, At, SeedInv
  <2>2. op' = NoOp /\ op' \in Ops /\ op'.kind = "none" /\ UNCHANGED <<lc, owned, crashes>>
    BY <1>3 DEF PasswordChanged, End, NoOp, Ops
  <2>3. CASE UNCHANGED disk
    <3>1. LifeTyped'
      BY <2>2, <2>3 DEF LifeTyped
    <3> QED
      BY <2>2, <2>3, <3>1 DEF SeedInv, SeedKept
  <2>4. CASE from_file(disk[Here].seed, op.pw) = op.words
    <3> DEFINE r == [disk[Here] EXCEPT !.baks[op.bak] = NoFile]
    <3>1. /\ r \in Disks /\ r.seed = disk[Here].seed
          /\ \A j \in 1 .. MaxBaks : j # op.bak => r.baks[j] = disk[Here].baks[j]
      BY <2>1 DEF Disks
    <3>2. SetDisk(Here, r)
      BY <1>3, <2>4 DEF PasswordChanged
    <3> HIDE DEF r
    <3>3. disk[Here].seed.whole /\ disk[Here].seed.words = op.words
      BY <2>1, <2>4 DEF from_file
    <3>4. \A w \in owned[Here] : Kept(r, w)
      <4> SUFFICES ASSUME NEW w \in owned[Here], w # op.words PROVE Kept(r, w)
        BY <3>1, <3>3 DEF Kept
      <4>1. PICK j \in 1 .. MaxBaks : disk[Here].baks[j].whole /\ disk[Here].baks[j].words = w
        BY <3>3 DEF SeedInv, SeedKept
      <4> QED
        BY <2>1, <3>1, <4>1 DEF Kept
    <3>5. SeedKept'
      BY <2>2, <3>1, <3>2, <3>4, SeedKeptHere DEF SeedInv
    <3>6. LifeTyped'
      BY <2>2, <3>1, <3>2, SetDiskFacts DEF LifeTyped
    <3> QED
      BY <2>2, <3>5, <3>6 DEF SeedInv
  <2> QED
    BY <1>3, <2>3, <2>4 DEF PasswordChanged
<1> QED
  BY <1>1, <1>2, <1>3

(* delete_wallet: the seeds are given up before the first file goes.       *)
LEMMA DeleteInv ==
    ASSUME LifeInv, delete_wallet \/ RemoveSome \/ RemoveRest
    PROVE  LifeInv'
<1> USE HereFacts DEF LifeInv
<1>1. CASE delete_wallet
  <2>1. /\ op.kind = "none" /\ op'.kind = "delete" /\ op' \in Ops /\ UNCHANGED <<disk, lc, crashes>>
        /\ owned' \in [Dirs -> SUBSET Words] /\ owned'[Here] = {}
        /\ \A d \in Dirs : d # Here => owned'[d] = owned[d]
    BY <1>1 DEF delete_wallet, Begin, NoOp, Ops, LifeTyped
  <2>2. LifeTyped'
    BY <2>1 DEF LifeTyped
  <2>3. SeedKept'
    BY <2>1 DEF SeedInv, SeedKept
  <2> QED
    BY <2>1, <2>2, <2>3 DEF SeedInv, Here
<1>2. CASE RemoveSome \/ RemoveRest
  <2>1. /\ op.kind = "delete" /\ owned[Here] = {} /\ UNCHANGED <<owned, crashes>>
        /\ op' \in Ops /\ op'.kind \in {"delete", "none"}
    <3>1. CASE RemoveSome
      <4>1. op' = [op EXCEPT !.at = 2]
        BY <3>1 DEF RemoveSome, At, Step, LifeTyped, Ops
      <4> QED
        BY <3>1, <4>1 DEF RemoveSome, At, LifeTyped, Ops, SeedInv
    <3>2. CASE RemoveRest
      BY <3>2 DEF RemoveRest, At, End, NoOp, Ops, SeedInv
    <3> QED
      BY <1>2, <3>1, <3>2
  <2>2. lc' \in [dir : Dirs, backend : Backends, opens : Nat] /\ lc'.dir = lc.dir
    <3>1. CASE UNCHANGED lc
      BY <3>1 DEF LifeTyped
    <3>2. CASE lc' = Unlinked
      <4> DEFINE b == [lc.backend EXCEPT !.linked = @ /\ lc.backend.dir # Here]
      <4>1. b \in Backends
        <5>1. CASE lc.backend = NoBackend
          <6>1. (lc.backend.linked /\ lc.backend.dir # Here) = NoBackend.linked
            BY <5>1 DEF NoBackend
          <6>2. [NoBackend EXCEPT !.linked = NoBackend.linked] = NoBackend
            BY DEF NoBackend
          <6>3. b = NoBackend
            BY <5>1, <6>1, <6>2
          <6> QED
            BY <6>3 DEF Backends
        <5>2. CASE lc.backend \in [dir : Dirs, words : Words, mask : Nat \ {0}, linked : BOOLEAN]
          <6> DEFINE x == lc.backend.linked /\ lc.backend.dir # Here
          <6>1. x \in BOOLEAN /\ b = [lc.backend EXCEPT !.linked = x]
            OBVIOUS
          <6> HIDE DEF x, b
          <6> QED
            BY <5>2, <6>1 DEF Backends
        <5> QED
          BY <5>1, <5>2 DEF LifeTyped, Backends
      <4>2. lc' = [lc EXCEPT !.backend = b]
        BY <3>2 DEF Unlinked, LifeTyped
      <4> QED
        BY <4>1, <4>2 DEF LifeTyped
    <3> QED
      BY <1>2, <3>1, <3>2 DEF RemoveSome, RemoveRest
  <2>3. PICK r \in Disks : SetDisk(Here, r)
    <3>1. /\ [disk[Here] EXCEPT !.db = NoDb] \in Disks
          /\ [disk[Here] EXCEPT !.seed = NoFile] \in Disks
          /\ NoDisk \in Disks
      BY DEF Disks
    <3> QED
      BY <1>2, <3>1 DEF RemoveSome, RemoveRest
  <2>4. /\ disk' \in [Dirs -> Disks]
        /\ \A d \in Dirs : d # Here => disk'[d] = disk[d]
    BY <2>3, SetDiskFacts
  <2>5. SeedKept'
    BY <2>1, <2>4 DEF SeedInv, SeedKept
  <2>6. LifeTyped'
    BY <2>1, <2>2, <2>4 DEF LifeTyped
  <2> QED
    BY <2>1, <2>2, <2>5, <2>6 DEF SeedInv, Here
<1> QED
  BY <1>1, <1>2

(* A write fails.                                                          *)
LEMMA WriteFailsInv ==
    ASSUME LifeInv, WriteFails
    PROVE  LifeInv'
<1> USE HereFacts DEF LifeInv
<1>1. /\ UNCHANGED <<disk, lc, owned>> /\ crashes' \in Nat
      /\ \/ op' = NoOp
         \/ op.kind = "password" /\ op' = [op EXCEPT !.at = 3]
  BY DEF WriteFails, End, LifeTyped
<1>2. /\ op' \in Ops
      /\ \/ op'.kind = "none"
         \/ op'.kind = op.kind /\ op'.at = 3 /\ op'.words = op.words /\ op'.pw = op.pw /\ op'.bak = op.bak
  <2>1. CASE op' = NoOp
    BY <2>1 DEF NoOp, Ops
  <2>2. CASE op' = [op EXCEPT !.at = 3]
    BY <2>2 DEF LifeTyped, Ops
  <2> QED
    BY <1>1, <2>1, <2>2
<1>3. LifeTyped'
  BY <1>1, <1>2 DEF LifeTyped
<1> QED
  BY <1>1, <1>2, <1>3 DEF SeedInv, SeedKept, Here

(* open_wallet, and what it leaves open.                                   *)
LEMMA OpenFacts ==
    ASSUME LifeInv, NEW pw \in Passwords, open_wallet(pw, TRUE)
    PROVE  /\ LifeInv' /\ UNCHANGED <<op, owned, crashes>>
           /\ \A d \in Dirs : disk'[d].db.holds = disk[d].db.holds
           /\ \/ lc' = lc
              \/ /\ lc'.backend \in Backends /\ lc'.backend # NoBackend
                 /\ lc'.backend.mask = lc.opens + 1 /\ lc'.opens = lc.opens + 1 /\ lc' # lc
<1> USE HereFacts DEF LifeInv
<1> DEFINE w == from_file(disk[Here].seed, pw)
           r == [disk[Here] EXCEPT !.db = OpenDb(@)]
           b == [dir |-> Here, words |-> w, mask |-> lc.opens + 1, linked |-> TRUE]
<1>1. SetDisk(Here, r) /\ UNCHANGED <<op, owned, crashes>>
  BY DEF open_wallet
<1>2. r \in Disks /\ r.seed = disk[Here].seed /\ r.baks = disk[Here].baks /\ r.db.holds = disk[Here].db.holds
  BY DEF Disks, OpenDb, Databases
<1>3. w # "none" => w \in Words
  BY DEF from_file, Disks, Files, NoFile, EmptyFile
<1>4. lc' = IF w = "none" THEN lc ELSE [lc EXCEPT !.backend = b, !.opens = lc.opens + 1]
  BY DEF open_wallet, LifeTyped
<1>5. w # "none" => b \in Backends /\ b.mask = lc.opens + 1 /\ b # NoBackend
  BY <1>3 DEF Backends, NoBackend, LifeTyped
<1> HIDE DEF r, w, b
<1>6. /\ disk' \in [Dirs -> Disks] /\ disk'[Here] = r
      /\ \A d \in Dirs : d # Here => disk'[d] = disk[d]
  BY <1>1, <1>2, SetDiskFacts
<1>7. /\ lc' \in [dir : Dirs, backend : Backends, opens : Nat] /\ lc'.dir = lc.dir
      /\ lc' = lc \/ (lc'.backend = b /\ w # "none" /\ lc'.opens = lc.opens + 1 /\ lc' # lc)
  <2>1. CASE w = "none"
    BY <1>4, <2>1 DEF LifeTyped
  <2>2. CASE w # "none"
    <3>1. lc' = [lc EXCEPT !.backend = b, !.opens = lc.opens + 1]
      BY <1>4, <2>2
    <3>2. lc' = [dir |-> lc.dir, backend |-> b, opens |-> lc.opens + 1]
      BY <3>1 DEF LifeTyped
    <3>4. lc.opens + 1 \in Nat /\ lc.dir \in Dirs
      BY DEF LifeTyped
    <3>5. lc' \in [dir : Dirs, backend : Backends, opens : Nat] /\ lc'.dir = lc.dir
          /\ lc'.backend = b /\ lc'.opens = lc.opens + 1
      BY <1>5, <2>2, <3>2, <3>4
    <3>3. lc'.opens # lc.opens
      BY <3>5 DEF LifeTyped
    <3> QED
      BY <2>2, <3>5, <3>3
  <2> QED
    BY <2>1, <2>2
<1>8. LifeTyped'
  BY <1>1, <1>6, <1>7 DEF LifeTyped
<1>9. LifeInv'
  BY <1>1, <1>2, <1>6, <1>7, <1>8, SameSeedsInv
<1> QED
  BY <1>1, <1>2, <1>5, <1>6, <1>7, <1>9

(* The wallet is closed, or another directory is chosen.                   *)
LEMMA CloseFacts ==
    ASSUME LifeInv, UNCHANGED <<disk, op, owned>>, crashes' \in Nat,
           \/ lc' = [lc EXCEPT !.backend = NoBackend]
           \/ op = NoOp /\ \E d \in Dirs : lc' = [lc EXCEPT !.dir = d]
    PROVE  LifeInv' /\ lc'.opens = lc.opens /\ lc'.backend \in {lc.backend, NoBackend}
<1> USE HereFacts DEF LifeInv
<1>1. /\ lc' \in [dir : Dirs, backend : Backends, opens : Nat]
      /\ lc'.opens = lc.opens /\ lc'.backend \in {lc.backend, NoBackend}
      /\ lc'.dir = lc.dir \/ op = NoOp
  BY DEF LifeTyped, Backends
<1>2. LifeTyped'
  BY <1>1 DEF LifeTyped
<1> QED
  BY <1>1, <1>2, SameSeedsInv

(* A batch that is committed.                                              *)
LEMMA WrittenFacts ==
    ASSUME LifeInv, IsOpen, NEW w \in Words, UNCHANGED <<lc, op, owned, crashes>>,
           disk' \in {disk, Written(w), [Written(w) EXCEPT ![lc.backend.dir].db.init = "InitComplete"]},
           lc.backend.linked \/ disk' \in {disk, Written(w)}
    PROVE  /\ LifeInv'
           /\ \A d \in Dirs : \A x \in disk'[d].db.holds \ disk[d].db.holds : x = w /\ d = lc.backend.dir
<1> USE HereFacts DEF LifeInv
<1> DEFINE e == lc.backend.dir
           db == [disk[e].db EXCEPT !.holds = @ \cup {w}]
           new == [db EXCEPT !.init = "InitComplete"]
<1>1. e \in Dirs /\ disk[e] \in Disks
  BY DEF LifeTyped, Backends, IsOpen
<1>2. db \in Databases /\ new \in Databases /\ db.holds = disk[e].db.holds \cup {w} /\ new.holds = db.holds
  BY <1>1 DEF Disks, Databases, InitStatus
<1>3. /\ [disk[e] EXCEPT !.db = db] \in Disks /\ [disk[e] EXCEPT !.db = new] \in Disks
      /\ [disk EXCEPT ![e].db.holds = @ \cup {w}] = [disk EXCEPT ![e] = [disk[e] EXCEPT !.db = db]]
      /\ [[disk EXCEPT ![e].db.holds = @ \cup {w}] EXCEPT ![e].db.init = "InitComplete"]
           = [disk EXCEPT ![e] = [disk[e] EXCEPT !.db = new]]
  <2>1. [disk[e] EXCEPT !.db = db] \in Disks /\ [disk[e] EXCEPT !.db = new] \in Disks
    BY <1>1, <1>2 DEF Disks
  <2>2. [disk EXCEPT ![e].db.holds = @ \cup {w}] = [disk EXCEPT ![e] = [disk[e] EXCEPT !.db = db]]
    BY <1>1 DEF LifeTyped
  <2> DEFINE mid == [disk EXCEPT ![e] = [disk[e] EXCEPT !.db = db]]
  <2>3. mid[e] = [disk[e] EXCEPT !.db = db] /\ mid[e].db = db
    BY <1>1, <1>2 DEF LifeTyped, Disks
  <2>4. [mid EXCEPT ![e].db.init = "InitComplete"] = [mid EXCEPT ![e] = [mid[e] EXCEPT !.db = [mid[e].db EXCEPT !.init = "InitComplete"]]]
    OBVIOUS
  <2>5. [mid[e] EXCEPT !.db = new] = [disk[e] EXCEPT !.db = new]
    BY <1>1, <2>3 DEF Disks
  <2> HIDE DEF new, db
  <2>6. [mid EXCEPT ![e] = [disk[e] EXCEPT !.db = new]] = [disk EXCEPT ![e] = [disk[e] EXCEPT !.db = new]]
    BY <1>1 DEF LifeTyped
  <2> QED
    BY <2>1, <2>2, <2>3, <2>4, <2>5, <2>6 DEF new
<1>4. CASE disk' = disk
  <2>1. LifeTyped'
    BY <1>4 DEF LifeTyped
  <2> QED
    BY <1>4, <2>1, SameSeedsInv
<1>5. ASSUME NEW n \in {db, new}, disk' = [disk EXCEPT ![e] = [disk[e] EXCEPT !.db = n]]
      PROVE  /\ LifeInv'
             /\ \A d \in Dirs : \A x \in disk'[d].db.holds \ disk[d].db.holds : x = w /\ d = lc.backend.dir
  <2> DEFINE r == [disk[e] EXCEPT !.db = n]
  <2>1. r \in Disks /\ r.seed = disk[e].seed /\ r.baks = disk[e].baks /\ r.db.holds = disk[e].db.holds \cup {w}
    BY <1>1, <1>2, <1>3 DEF Disks
  <2> HIDE DEF r
  <2>2. /\ disk' \in [Dirs -> Disks] /\ disk'[e] = r
        /\ \A d \in Dirs : d # e => disk'[d] = disk[d]
    BY <1>1, <1>5, <2>1 DEF LifeTyped, r
  <2>3. LifeTyped'
    BY <2>2 DEF LifeTyped
  <2>4. LifeInv'
    BY <2>1, <2>2, <2>3, SameSeedsInv
  <2> QED
    BY <2>1, <2>2, <2>4
<1>6. disk' = disk \/ \E n \in {db, new} : disk' = [disk EXCEPT ![e] = [disk[e] EXCEPT !.db = n]]
  BY <1>3 DEF Written
<1> QED
  BY <1>4, <1>5, <1>6

(* The records of no wallet are added to.                                  *)
NothingWritten == \A d \in Dirs : disk'[d].db.holds \subseteq disk[d].db.holds

(* The wallet that is open stays, or there is none any more.               *)
SameWallet == lc'.opens = lc.opens /\ lc'.backend.mask = lc.backend.mask /\ lc'.backend.words = lc.backend.words

(* A step of an operation that is under way.                               *)
LEMMA OpStepFacts ==
    ASSUME LifeInv, OpSteps \/ WriteFails
    PROVE  LifeInv' /\ SameWallet /\ NothingWritten
<1> USE HereFacts
<1>1. LifeInv'
  BY CreateInv, PasswordInv, DeleteInv, WriteFailsInv DEF OpSteps
<1>2. SameWallet
  <2>1. lc' = lc \/ lc' = Unlinked
    BY DEF OpSteps, WriteFails, CreateSeedFile, WriteSeedFile, CreateDb, SaveInitStatus,
           NewSeedFile, NewSeedWritten, PasswordChanged, RemoveSome, RemoveRest
  <2>2. CASE lc' = lc
    BY <2>2 DEF SameWallet
  <2>3. CASE lc' = Unlinked
    <3> DEFINE x == lc.backend.linked /\ lc.backend.dir # Here
               b == [lc.backend EXCEPT !.linked = x]
    <3>1. lc' = [lc EXCEPT !.backend = b]
      BY <2>3 DEF Unlinked, LifeInv, LifeTyped
    <3>2. lc \in [dir : Dirs, backend : Backends, opens : Nat]
      BY DEF LifeInv, LifeTyped
    <3>3. \/ lc.backend \in [dir : Dirs, words : Words, mask : Nat \ {0}, linked : BOOLEAN]
          \/ lc.backend = NoBackend
      BY <3>2 DEF Backends
    <3> HIDE DEF x
    <3>4. b.mask = lc.backend.mask /\ b.words = lc.backend.words
      BY <3>3 DEF NoBackend
    <3> HIDE DEF b
    <3>5. lc'.backend = b /\ lc'.opens = lc.opens
      BY <3>1, <3>2
    <3> QED
      BY <3>4, <3>5 DEF SameWallet
  <2> QED
    BY <2>1, <2>2, <2>3
<1>3. NothingWritten
  <2>1. disk' = disk \/ \E r \in Disks : SetDisk(Here, r) /\ r.db.holds \subseteq disk[Here].db.holds
    <3> USE DEF LifeInv
    <3>1. ASSUME NEW f \in Files, SetDisk(Here, [disk[Here] EXCEPT !.seed = f])
          PROVE  \E r \in Disks : SetDisk(Here, r) /\ r.db.holds \subseteq disk[Here].db.holds
      <4> DEFINE r == [disk[Here] EXCEPT !.seed = f]
      <4>1. r \in Disks /\ r.db.holds \subseteq disk[Here].db.holds
        BY DEF Disks
      <4> QED
        BY <3>1, <4>1
    <3>2. ASSUME NEW db \in Databases, SetDisk(Here, [disk[Here] EXCEPT !.db = db]),
                 db.holds \subseteq disk[Here].db.holds
          PROVE  \E r \in Disks : SetDisk(Here, r) /\ r.db.holds \subseteq disk[Here].db.holds
      <4> DEFINE r == [disk[Here] EXCEPT !.db = db]
      <4>1. r \in Disks /\ r.db.holds \subseteq disk[Here].db.holds
        BY <3>2 DEF Disks
      <4> QED
        BY <3>2, <4>1
    <3>3. CASE CreateSeedFile \/ NewSeedFile
      BY <3>1, <3>3 DEF CreateSeedFile, NewSeedFile
    <3>4. CASE WriteSeedFile \/ NewSeedWritten
      <4>1. op.words \in Words /\ op.pw \in Passwords
        BY <3>4 DEF WriteSeedFile, NewSeedWritten, At, SeedInv
      <4> QED
        BY <3>1, <3>4, <4>1 DEF WriteSeedFile, NewSeedWritten
    <3>5. CASE CreateDb
      <4>1. OpenDb(disk[Here].db) \in Databases /\ OpenDb(disk[Here].db).holds = disk[Here].db.holds
        BY DEF OpenDb, Databases, Disks
      <4> QED
        BY <3>2, <3>5, <4>1 DEF CreateDb
    <3>6. CASE SaveInitStatus
      <4> DEFINE s == IF op.typed THEN "InitNeedsScanning" ELSE "InitNoScanning"
                 db == [disk[Here].db EXCEPT !.init = s]
      <4>1. db \in Databases /\ db.holds = disk[Here].db.holds
        BY DEF Databases, Disks, InitStatus
      <4>2. SetDisk(Here, [disk[Here] EXCEPT !.db = db])
        BY <3>6 DEF SaveInitStatus
      <4> HIDE DEF db
      <4> QED
        BY <3>2, <4>1, <4>2
    <3>7. CASE PasswordChanged
      <4>1. CASE disk' = disk
        BY <4>1
      <4>2. CASE disk' # disk
        <5> DEFINE r == [disk[Here] EXCEPT !.baks[op.bak] = NoFile]
        <5>1. SetDisk(Here, r) /\ op.bak \in 1 .. MaxBaks
          BY <3>7, <4>2 DEF PasswordChanged, At, SeedInv
        <5>2. r \in Disks /\ r.db = disk[Here].db
          BY <5>1 DEF Disks
        <5> QED
          BY <5>1, <5>2
      <4> QED
        BY <4>1, <4>2
    <3>8. CASE RemoveSome \/ RemoveRest
      <4>1. NoDb.holds = {} /\ NoDisk.db.holds = {}
        BY DEF NoDb, NoDisk
      <4> QED
        BY <3>1, <3>2, <3>8, <4>1 DEF RemoveSome, RemoveRest
    <3> QED
      BY <3>3, <3>4, <3>5, <3>6, <3>7, <3>8 DEF OpSteps, WriteFails
  <2> QED
    BY <2>1, SetDiskFacts DEF NothingWritten, LifeInv
<1> QED
  BY <1>1, <1>2, <1>3

-----------------------------------------------------------------------------
(* The server.                                                             *)

Jobs == [at : {"none", "read", "apply"}, words : Words \cup {"none"}, mask : Nat]
UpdaterStates == [at : {"none", "queued", "check", "update", "test"}, mask : Nat]
Special == {"init_secure_api", "open_wallet"}

(* The threads after a step: their masks are old enough, and what a        *)
(* refresh read is of the wallet its mask fits.                            *)
JobOK(t) ==
    /\ job[t].mask <= lc.opens
    /\ job[t].at = "apply" =>
         job[t].words \in Words /\ (keychain(job[t].mask) => job[t].words = lc.backend.words)

ThreadsOK ==
    /\ job \in [Threads -> Jobs] /\ \A t \in Threads : JobOK(t)
    /\ upd \in [Updaters -> UpdaterStates] /\ \A u \in Updaters : upd[u].mask <= lc.opens

(* A wallet is open exactly when its mask is not None.                     *)
LEMMA OpenByMask ==
    LifeTyped => /\ lc.opens \in Nat /\ lc.backend.mask \in Nat
                 /\ IsOpen <=> lc.backend.mask # 0
                 /\ IsOpen => lc.backend.words \in Words /\ lc.backend.dir \in Dirs
<1> SUFFICES ASSUME LifeTyped
             PROVE  /\ lc.opens \in Nat /\ lc.backend.mask \in Nat
                    /\ IsOpen <=> lc.backend.mask # 0
                    /\ IsOpen => lc.backend.words \in Words /\ lc.backend.dir \in Dirs
  OBVIOUS
<1>1. lc.backend \in Backends /\ lc.opens \in Nat
  BY DEF LifeTyped
<1>2. CASE lc.backend = NoBackend
  BY <1>1, <1>2 DEF NoBackend, IsOpen
<1>3. CASE lc.backend \in [dir : Dirs, words : Words, mask : Nat \ {0}, linked : BOOLEAN]
  BY <1>1, <1>3 DEF NoBackend, IsOpen
<1> QED
  BY <1>1, <1>2, <1>3 DEF Backends

(* OpenByMask, of the next state.                                          *)
LEMMA OpenByMaskNext ==
    (LifeTyped => /\ lc.opens \in Nat /\ lc.backend.mask \in Nat
                  /\ IsOpen <=> lc.backend.mask # 0
                  /\ IsOpen => lc.backend.words \in Words /\ lc.backend.dir \in Dirs)'
BY OpenByMask, PTL

(* The invariant says that threads are as they should be.                  *)
LEMMA ThreadsAreOK ==
    ASSUME Inv
    PROVE  ThreadsOK
BY DEF Inv, TypeOK, ServerTyped, MaskInv, ThreadsOK, JobOK, Jobs, UpdaterStates

(* Threads that go on as they are stay so, unless another wallet is        *)
(* opened with a mask that none of them has.                               *)
LEMMA JobStays ==
    ASSUME Inv, LifeTyped', NEW t \in Threads, job'[t] = job[t],
           \/ SameWallet
           \/ lc'.opens = lc.opens /\ lc'.backend.mask = 0
           \/ lc'.opens = lc.opens + 1 /\ lc'.backend.mask = lc.opens + 1
    PROVE  JobOK(t)'
<1>1. JobOK(t) /\ job[t].mask \in Nat
  BY ThreadsAreOK DEF ThreadsOK, Jobs
<1>2. /\ LifeTyped /\ lc.opens \in Nat /\ lc'.opens \in Nat
      /\ lc.backend.mask \in Nat /\ lc'.backend.mask \in Nat
      /\ IsOpen <=> lc.backend.mask # 0
      /\ IsOpen' <=> lc'.backend.mask # 0
  BY OpenByMask, OpenByMaskNext DEF Inv, TypeOK
<1>3. keychain(job[t].mask)' => keychain(job[t].mask) /\ lc'.backend.words = lc.backend.words
  BY <1>1, <1>2 DEF keychain, SameWallet, JobOK
<1> QED
  BY <1>1, <1>2, <1>3 DEF JobOK, SameWallet

(* A request that arrives.                                                 *)
LEMMA ArriveFacts ==
    ASSUME Inv, NEW c \in Clients, NEW m \in Methods, NEW at \in {"reply", "working", "refresh"},
           NEW got \in Nat, Arrive(c, m, at, got)
    PROVE  /\ req' \in [Clients -> Requests]
           /\ req[c].at = "idle" /\ req[c].m = "none" /\ job[c].at = "none"
           /\ req'[c].at = at /\ req'[c].m = m /\ req'[c].got = got /\ req'[c].key \in {0, hkey}
           /\ raced' \in BOOLEAN /\ (raced => raced')
           /\ \A d \in Clients : d # c => req'[d] = req[d]
           /\ m \in Special /\ ~raced' => \A d \in Clients : req[d].m # m
<1> USE DEF Inv, TypeOK, ServerTyped
<1>1. req[c] = Idle /\ req' = [req EXCEPT ![c] = [at |-> at, m |-> m, key |-> Sealed(c), got |-> got]]
  BY DEF Arrive, Accepted
<1>2. Sealed(c) \in {0, hkey} /\ Sealed(c) \in Nat
  BY DEF Sealed, decrypt
<1>3. [at |-> at, m |-> m, key |-> Sealed(c), got |-> got] \in Requests
  BY <1>2 DEF Requests
<1>4. req[c].at = "idle" /\ req[c].m = "none"
  BY <1>1 DEF Idle
<1>5. job[c].at = "none"
  BY <1>4 DEF JobInv
<1>6. /\ req' \in [Clients -> Requests] /\ req'[c].at = at /\ req'[c].m = m /\ req'[c].got = got
      /\ req'[c].key \in {0, hkey} /\ \A d \in Clients : d # c => req'[d] = req[d]
  BY <1>1, <1>2, <1>3
<1>7. /\ raced' \in BOOLEAN /\ (raced => raced')
      /\ m \in Special /\ ~raced' => InFlight(m) = {}
  BY DEF Arrive, Special
<1> QED
  BY <1>4, <1>5, <1>6, <1>7 DEF InFlight

(* A request goes on towards its reply, or it is not one that changes what *)
(* the clients share.                                                      *)
Onward(d) ==
    \/ /\ req'[d].m = req[d].m /\ req'[d].got = req[d].got /\ req'[d].key = req[d].key
       /\ \/ req'[d].at = req[d].at
          \/ req[d].at \in {"working", "refresh"} /\ req'[d].at = "reply"
    \/ req[d].m \notin Special /\ req'[d].m \notin Special /\ req'[d].at # "key"

(* The shared key and mask are touched by no other step.                   *)
LEMMA SharedStays ==
    ASSUME Inv, LifeTyped', UNCHANGED <<okey, hkey, smask, cl>>,
           SameWallet \/ lc'.backend.mask = 0,
           raced => raced', \A d \in Clients : Onward(d)
    PROVE  SharedInv'
<1> SUFFICES ASSUME ~raced'
             PROVE  /\ \A c, d \in Clients : req'[c].m = req'[d].m /\ req'[c].m \in Special => c = d
                    /\ \A c \in Clients : /\ req'[c].m = "init_secure_api" => KeyPending(c)'
                                          /\ req'[c].m = "open_wallet" => MaskPending(c)'
                    /\ InFlight("init_secure_api")' = {} =>
                         hkey' = okey' /\ (hkey' # 0 => \E c \in Clients : cl'[c].key = hkey')
                    /\ InFlight("open_wallet")' = {} => (IsOpen' => smask' = lc'.backend.mask)
  BY DEF SharedInv, Special
<1>1. /\ \A c, d \in Clients : req[c].m = req[d].m /\ req[c].m \in Special => c = d
      /\ \A c \in Clients : /\ req[c].m = "init_secure_api" => KeyPending(c)
                            /\ req[c].m = "open_wallet" => MaskPending(c)
      /\ InFlight("init_secure_api") = {} =>
           hkey = okey /\ (hkey # 0 => \E c \in Clients : cl[c].key = hkey)
      /\ InFlight("open_wallet") = {} => (IsOpen => smask = lc.backend.mask)
  BY DEF Inv, SharedInv, Special
<1>2. \A d \in Clients : \/ req'[d].m = req[d].m
                         \/ req[d].m \notin Special /\ req'[d].m \notin Special
  BY DEF Onward
<1>3. \A c, d \in Clients : req'[c].m = req'[d].m /\ req'[c].m \in Special => c = d
  <2> TAKE c, d \in Clients
  <2> HAVE req'[c].m = req'[d].m /\ req'[c].m \in Special
  <2>1. req[c].m = req'[c].m /\ req[d].m = req'[d].m
    BY <1>2
  <2> QED
    BY <1>1, <2>1
<1>4. /\ InFlight("init_secure_api")' = InFlight("init_secure_api")
      /\ InFlight("open_wallet")' = InFlight("open_wallet")
  BY <1>2 DEF InFlight, Special
<1>5. IsOpen' => IsOpen /\ lc'.backend.mask = lc.backend.mask
  <2>1. (IsOpen <=> lc.backend.mask # 0) /\ (IsOpen' <=> lc'.backend.mask # 0)
    BY OpenByMask, OpenByMaskNext DEF Inv, TypeOK
  <2> QED
    BY <2>1 DEF SameWallet
<1>6. ASSUME NEW c \in Clients, req'[c].m = "init_secure_api"
      PROVE  KeyPending(c)'
  BY <1>1, <1>6 DEF Onward, Special, KeyPending
<1>7. ASSUME NEW c \in Clients, req'[c].m = "open_wallet"
      PROVE  MaskPending(c)'
  BY <1>1, <1>5, <1>7 DEF Onward, Special, MaskPending
<1> QED
  BY <1>1, <1>3, <1>4, <1>5, <1>6, <1>7

(* Every step but those that make a key, open a wallet, or reply.          *)
LEMMA GoesOn ==
    ASSUME Inv, LifeInv', UNCHANGED <<okey, hkey, smask, cl, inits>>,
           SameWallet \/ (lc'.opens = lc.opens /\ lc'.backend.mask = 0),
           running' \in BOOLEAN, raced' \in BOOLEAN, raced => raced',
           req' \in [Clients -> Requests], \A d \in Clients : Onward(d), ThreadsOK',
           \A d \in Clients : job'[d].at # "none" => req'[d].m = "retrieve" /\ req'[d].at = "refresh"
    PROVE  Inv'
<1>1. LifeTyped' /\ SeedInv'
  BY DEF LifeInv
<1>2. SharedInv'
  BY <1>1, SharedStays
<1>3. ServerTyped'
  BY DEF Inv, TypeOK, ServerTyped, ThreadsOK, Jobs, UpdaterStates
<1>4. lc'.opens = lc.opens /\ lc.opens \in Nat /\ lc'.backend.mask <= lc'.opens
  BY OpenByMask DEF Inv, TypeOK, MaskInv, SameWallet
<1>5. \A c \in Clients : req'[c].m = "open_wallet" => req'[c].got <= lc'.opens
  BY <1>4 DEF Inv, MaskInv, Onward, Special
<1>6. MaskInv'
  BY <1>4, <1>5 DEF Inv, MaskInv, ThreadsOK, JobOK
<1>7. \A c \in Clients : req'[c].at = "key" => req'[c].m = "init_secure_api"
  BY DEF Inv, JobInv, Onward
<1>8. JobInv'
  BY <1>7 DEF JobInv
<1> QED
  BY <1>1, <1>2, <1>3, <1>6, <1>8 DEF Inv, TypeOK

(* A method whose result is not shared.                                    *)
LEMMA ArrivesAndGoesOn ==
    ASSUME Inv, LifeInv', NEW c \in Clients, NEW m \in Methods \ Special, m # "none",
           NEW at \in {"reply", "working", "refresh"}, Arrive(c, m, at, 0),
           UNCHANGED <<okey, hkey, smask, cl, inits>>, running' \in BOOLEAN,
           SameWallet \/ (lc'.opens = lc.opens /\ lc'.backend.mask = 0),
           \/ job' = job
           \/ m = "retrieve" /\ at = "refresh" /\ job' = StartJob(c, cl[c].tok),
           \/ upd' = upd
           \/ \E u \in Updaters : upd' = [upd EXCEPT ![u] = [at |-> "queued", mask |-> cl[c].tok]]
    PROVE  Inv'
<1>1. /\ req' \in [Clients -> Requests]
      /\ req[c].at = "idle" /\ req[c].m = "none" /\ job[c].at = "none"
      /\ req'[c].at = at /\ req'[c].m = m /\ req'[c].got = 0
      /\ raced' \in BOOLEAN /\ (raced => raced')
      /\ \A d \in Clients : d # c => req'[d] = req[d]
  BY ArriveFacts
<1>2. \A d \in Clients : Onward(d)
  BY <1>1 DEF Onward, Special
<1>3. lc'.opens = lc.opens /\ lc.opens \in Nat
  BY OpenByMask DEF SameWallet, Inv, TypeOK
<1>4. cl[c].tok \in Nat /\ cl[c].tok <= lc.opens
  BY DEF Inv, TypeOK, ServerTyped, MaskInv
<1>5. upd' \in [Updaters -> UpdaterStates] /\ \A u \in Updaters : upd'[u].mask <= lc'.opens
  <2>1. upd \in [Updaters -> UpdaterStates] /\ \A u \in Updaters : upd[u].mask <= lc.opens
    BY ThreadsAreOK DEF ThreadsOK
  <2>2. CASE upd' = upd
    BY <1>3, <2>1, <2>2
  <2>3. ASSUME NEW u \in Updaters, upd' = [upd EXCEPT ![u] = [at |-> "queued", mask |-> cl[c].tok]]
        PROVE  upd' \in [Updaters -> UpdaterStates] /\ \A v \in Updaters : upd'[v].mask <= lc'.opens
    BY <1>3, <1>4, <2>1, <2>3 DEF UpdaterStates
  <2> QED
    BY <2>2, <2>3
<1>6. /\ job' \in [Threads -> Jobs]
      /\ \A t \in Threads : job'[t] = job[t] \/ (job'[t].at = "read" /\ job'[t].mask = cl[c].tok)
      /\ \A d \in Clients : job'[d].at # "none" => req'[d].m = "retrieve" /\ req'[d].at = "refresh"
  <2>1. job \in [Threads -> Jobs] /\ c \in Threads
    BY ThreadsAreOK DEF ThreadsOK, Threads
  <2>4. \A d \in Clients : job[d].at # "none" => req[d].m = "retrieve" /\ req[d].at = "refresh" /\ d # c
    BY <1>1 DEF Inv, JobInv
  <2>5. \A d \in Clients : job[d].at # "none" => req'[d].m = "retrieve" /\ req'[d].at = "refresh"
    BY <1>1, <2>4
  <2>2. CASE job' = job
    BY <2>1, <2>2, <2>5
  <2>3. CASE m = "retrieve" /\ at = "refresh" /\ job' = StartJob(c, cl[c].tok)
    <3>1. [at |-> "read", words |-> "none", mask |-> cl[c].tok] \in Jobs
      BY <1>4 DEF Jobs
    <3>2. /\ job' \in [Threads -> Jobs]
          /\ job'[c] = [at |-> "read", words |-> "none", mask |-> cl[c].tok]
          /\ \A t \in Threads : t # c => job'[t] = job[t]
      BY <2>1, <2>3, <3>1 DEF StartJob
    <3>3. \A d \in Clients : d # c => job'[d] = job[d]
      BY <3>2 DEF Threads
    <3>4. \A d \in Clients : job'[d].at # "none" => req'[d].m = "retrieve" /\ req'[d].at = "refresh"
      <4> TAKE d \in Clients
      <4>1. CASE d = c
        BY <1>1, <2>3, <4>1
      <4>2. CASE d # c
        BY <2>5, <3>3, <4>2
      <4> QED
        BY <4>1, <4>2
    <3>5. \A t \in Threads : job'[t] = job[t] \/ (job'[t].at = "read" /\ job'[t].mask = cl[c].tok)
      BY <3>2
    <3> QED
      BY <3>2, <3>4, <3>5
  <2> QED
    BY <2>2, <2>3
<1>7. \A t \in Threads : JobOK(t)'
  <2> TAKE t \in Threads
  <2>1. CASE job'[t] = job[t]
    BY <2>1, JobStays DEF LifeInv
  <2>2. CASE job'[t].at = "read" /\ job'[t].mask = cl[c].tok
    BY <1>3, <1>4, <2>2 DEF JobOK
  <2> QED
    BY <1>6, <2>1, <2>2
<1>8. ThreadsOK'
  BY <1>5, <1>6, <1>7 DEF ThreadsOK
<1> QED
  BY <1>1, <1>2, <1>6, <1>8, GoesOn

(* What a step adds to a database is of the wallet that is open there.     *)
OwnWrites ==
    \A d \in Dirs : \A w \in disk'[d].db.holds \ disk[d].db.holds :
        lc.backend.dir = d /\ lc.backend.words = w

(* init_secure_api: the key is new, and the handler's is not yet replaced. *)
LEMMA InitSecureInv ==
    ASSUME Inv, NEW c \in Clients, init_secure_api(c)
    PROVE  Inv' /\ OwnWrites
<1>1. /\ inits \in Nat /\ okey' = inits + 1 /\ inits' = inits + 1
      /\ Arrive(c, "init_secure_api", "reply", inits + 1)
      /\ UNCHANGED <<disk, lc, op, owned, crashes, hkey, smask, cl, job, upd, running>>
  BY DEF init_secure_api, lvars, Inv, TypeOK, ServerTyped
<1>2. /\ req' \in [Clients -> Requests]
      /\ req[c].at = "idle" /\ req[c].m = "none" /\ job[c].at = "none"
      /\ req'[c].at = "reply" /\ req'[c].m = "init_secure_api" /\ req'[c].got = okey' /\ req'[c].key \in {0, hkey}
      /\ raced' \in BOOLEAN /\ (raced => raced')
      /\ \A d \in Clients : d # c => req'[d] = req[d]
      /\ ~raced' => \A d \in Clients : req[d].m # "init_secure_api"
  BY <1>1, ArriveFacts DEF Methods, Special
<1>3. LifeTyped' /\ SeedInv'
  BY <1>1 DEF Inv, TypeOK, LifeTyped, SeedInv, SeedKept, Here
<1>4. ServerTyped'
  BY <1>1, <1>2 DEF Inv, TypeOK, ServerTyped
<1>5. MaskInv'
  <2>1. \A d \in Clients : req'[d].m = "open_wallet" => req'[d].got <= lc.opens
    BY <1>2 DEF Inv, MaskInv
  <2> QED
    BY <1>1, <2>1 DEF Inv, MaskInv, keychain, IsOpen
<1>6. JobInv'
  BY <1>1, <1>2 DEF Inv, JobInv
<1>7. SharedInv'
  <2> SUFFICES ASSUME ~raced'
               PROVE  /\ \A d, e \in Clients :
                           req'[d].m = req'[e].m /\ req'[d].m \in {"init_secure_api", "open_wallet"} => d = e
                      /\ \A d \in Clients : /\ req'[d].m = "init_secure_api" => KeyPending(d)'
                                            /\ req'[d].m = "open_wallet" => MaskPending(d)'
                      /\ InFlight("init_secure_api")' # {}
                      /\ InFlight("open_wallet")' = {} => (IsOpen' => smask' = lc'.backend.mask)
    BY DEF SharedInv
  <2>1. /\ \A d, e \in Clients :
             req[d].m = req[e].m /\ req[d].m \in {"init_secure_api", "open_wallet"} => d = e
        /\ \A d \in Clients : req[d].m = "open_wallet" => MaskPending(d)
        /\ InFlight("open_wallet") = {} => (IsOpen => smask = lc.backend.mask)
        /\ \A d \in Clients : req[d].m # "init_secure_api"
    BY <1>2 DEF Inv, SharedInv
  <2>2. \A d \in Clients : req'[d].m = "init_secure_api" => d = c
    BY <1>2, <2>1
  <2>3. \A d, e \in Clients :
           req'[d].m = req'[e].m /\ req'[d].m \in {"init_secure_api", "open_wallet"} => d = e
    <3> TAKE d, e \in Clients
    <3>1. CASE d = c \/ e = c
      BY <1>2, <2>2, <3>1
    <3>2. CASE d # c /\ e # c
      BY <1>2, <2>1, <3>2
    <3> QED
      BY <3>1, <3>2
  <2>4. KeyPending(c)'
    BY <1>1, <1>2 DEF KeyPending
  <2>5. \A d \in Clients : req'[d].m = "open_wallet" => MaskPending(d)'
    <3> TAKE d \in Clients
    <3>1. CASE d = c
      BY <1>2, <3>1
    <3>2. CASE d # c
      BY <1>1, <1>2, <2>1, <3>2 DEF MaskPending, IsOpen
    <3> QED
      BY <3>1, <3>2
  <2>6. InFlight("open_wallet")' = InFlight("open_wallet")
    BY <1>2 DEF InFlight
  <2> QED
    BY <1>1, <1>2, <2>1, <2>2, <2>3, <2>4, <2>5, <2>6 DEF InFlight, IsOpen
<1>8. OwnWrites
  BY <1>1 DEF OwnWrites
<1> QED
  BY <1>3, <1>4, <1>5, <1>6, <1>7, <1>8 DEF Inv, TypeOK

(* open_wallet: the mask is new, and the shared one is not yet replaced.   *)
LEMMA OpenWalletInv ==
    ASSUME Inv, NEW c \in Clients, NEW pw \in Passwords, OpenWallet(c, pw)
    PROVE  Inv' /\ OwnWrites
<1> DEFINE got == IF lc' = lc THEN 0 ELSE lc'.backend.mask
<1>1. /\ LifeInv /\ open_wallet(pw, TRUE) /\ Arrive(c, "open_wallet", "reply", got)
      /\ UNCHANGED <<okey, hkey, smask, cl, job, upd, running, inits>>
  BY DEF Inv, TypeOK, LifeInv, OpenWallet, Quiet
<1>2. /\ LifeInv' /\ LifeTyped' /\ UNCHANGED <<op, owned, crashes>>
      /\ \A d \in Dirs : disk'[d].db.holds = disk[d].db.holds
      /\ \/ lc' = lc
         \/ /\ lc'.backend \in Backends /\ lc'.backend # NoBackend
            /\ lc'.backend.mask = lc.opens + 1 /\ lc'.opens = lc.opens + 1 /\ lc' # lc
  BY <1>1, OpenFacts DEF LifeInv
<1>3. /\ lc.opens \in Nat /\ lc.backend.mask \in Nat /\ lc'.opens \in Nat /\ lc'.backend.mask \in Nat
      /\ IsOpen <=> lc.backend.mask # 0
      /\ IsOpen' <=> lc'.backend.mask # 0
      /\ lc'.opens >= lc.opens /\ lc.backend.mask <= lc.opens
  BY <1>1, <1>2, OpenByMask, OpenByMaskNext DEF LifeInv, Inv, MaskInv
<1>4. got \in Nat /\ got <= lc'.opens
  BY <1>2, <1>3
<1>5. lc' # lc => got = lc'.backend.mask /\ got # 0
  BY <1>2, <1>3
<1>9. lc' = lc => got = 0
  OBVIOUS
<1> HIDE DEF got
<1>6. /\ req' \in [Clients -> Requests]
      /\ req[c].at = "idle" /\ req[c].m = "none" /\ job[c].at = "none"
      /\ req'[c].at = "reply" /\ req'[c].m = "open_wallet" /\ req'[c].got = got
      /\ raced' \in BOOLEAN /\ (raced => raced')
      /\ \A d \in Clients : d # c => req'[d] = req[d]
      /\ ~raced' => \A d \in Clients : req[d].m # "open_wallet"
  BY <1>1, <1>4, ArriveFacts DEF Methods, Special
<1>7. ServerTyped'
  BY <1>1, <1>6 DEF Inv, TypeOK, ServerTyped
<1>8. MaskInv'
  <2>1. \A d \in Clients : req'[d].m = "open_wallet" => req'[d].got <= lc'.opens
    <3> TAKE d \in Clients
    <3>1. req[d].got \in Nat /\ (req[d].m = "open_wallet" => req[d].got <= lc.opens)
      BY DEF Inv, MaskInv, TypeOK, ServerTyped, Requests
    <3> QED
      BY <1>3, <1>4, <1>6, <3>1
  <2>2. \A d \in Clients : cl'[d].tok <= lc'.opens
    <3> TAKE d \in Clients
    <3>1. cl[d].tok \in Nat /\ cl[d].tok <= lc.opens /\ cl' = cl
      BY <1>1 DEF Inv, MaskInv, TypeOK, ServerTyped
    <3> QED
      BY <1>3, <3>1
  <2>3. \A u \in Updaters : upd'[u].mask <= lc'.opens
    <3> TAKE u \in Updaters
    <3>1. upd[u].mask \in Nat /\ upd[u].mask <= lc.opens /\ upd' = upd
      BY <1>1 DEF Inv, MaskInv, TypeOK, ServerTyped
    <3> QED
      BY <1>3, <3>1
  <2>4. \A t \in Threads : JobOK(t)'
    BY <1>1, <1>2, JobStays DEF SameWallet
  <2>5. lc'.backend.mask <= lc'.opens
    BY <1>2, <1>3
  <2> QED
    BY <2>1, <2>2, <2>3, <2>4, <2>5 DEF MaskInv, JobOK
<1>10. JobInv'
  BY <1>1, <1>6 DEF Inv, JobInv
<1>11. SharedInv'
  <2> SUFFICES ASSUME ~raced'
               PROVE  /\ \A d, e \in Clients :
                           req'[d].m = req'[e].m /\ req'[d].m \in {"init_secure_api", "open_wallet"} => d = e
                      /\ \A d \in Clients : /\ req'[d].m = "init_secure_api" => KeyPending(d)'
                                            /\ req'[d].m = "open_wallet" => MaskPending(d)'
                      /\ InFlight("init_secure_api")' = {} =>
                           hkey' = okey' /\ (hkey' # 0 => \E d \in Clients : cl'[d].key = hkey')
                      /\ InFlight("open_wallet")' # {}
    BY DEF SharedInv
  <2>1. /\ \A d, e \in Clients :
             req[d].m = req[e].m /\ req[d].m \in {"init_secure_api", "open_wallet"} => d = e
        /\ \A d \in Clients : req[d].m = "init_secure_api" => KeyPending(d)
        /\ InFlight("init_secure_api") = {} =>
             hkey = okey /\ (hkey # 0 => \E d \in Clients : cl[d].key = hkey)
        /\ IsOpen => smask = lc.backend.mask
        /\ \A d \in Clients : req[d].m # "open_wallet"
    BY <1>6 DEF Inv, SharedInv, InFlight
  <2>2. \A d \in Clients : req'[d].m = "open_wallet" => d = c
    BY <1>6, <2>1
  <2>3. \A d, e \in Clients :
           req'[d].m = req'[e].m /\ req'[d].m \in {"init_secure_api", "open_wallet"} => d = e
    <3> TAKE d, e \in Clients
    <3>1. CASE d = c \/ e = c
      BY <1>6, <2>2, <3>1
    <3>2. CASE d # c /\ e # c
      BY <1>6, <2>1, <3>2
    <3> QED
      BY <3>1, <3>2
  <2>4. MaskPending(c)'
    BY <1>1, <1>2, <1>3, <1>5, <1>6, <1>9, <2>1 DEF MaskPending
  <2>5. \A d \in Clients : req'[d].m = "init_secure_api" => KeyPending(d)'
    <3> TAKE d \in Clients
    <3>1. CASE d = c
      BY <1>6, <3>1
    <3>2. CASE d # c
      BY <1>1, <1>6, <2>1, <3>2 DEF KeyPending
    <3> QED
      BY <3>1, <3>2
  <2>6. InFlight("init_secure_api")' = InFlight("init_secure_api")
    BY <1>6 DEF InFlight
  <2> QED
    BY <1>1, <1>6, <2>1, <2>2, <2>3, <2>4, <2>5, <2>6 DEF InFlight
<1>12. OwnWrites
  BY <1>2 DEF OwnWrites
<1> QED
  BY <1>2, <1>7, <1>8, <1>10, <1>11, <1>12 DEF Inv, TypeOK, LifeInv

(* A reply to open_wallet hands the new mask to the foreign API; one to    *)
(* init_secure_api gives the client the key that the handler will take.    *)
LEMMA ReplyInv ==
    ASSUME Inv, NEW c \in Clients, Reply(c)
    PROVE  Inv' /\ OwnWrites
<1> DEFINE r == req[c]
           readable == r.key = 0 \/ decrypt(hkey, r.key)
<1>1. /\ r.at = "reply" /\ UNCHANGED <<disk, lc, op, owned, crashes, okey, hkey, job, upd, running, inits, raced>>
      /\ smask' = IF r.m = "open_wallet" /\ r.got # 0 THEN r.got ELSE smask
      /\ cl' = IF ~readable THEN cl
               ELSE CASE r.m = "init_secure_api" -> [cl EXCEPT ![c].key = r.got]
                      [] r.m = "open_wallet" /\ r.got # 0 -> [cl EXCEPT ![c].tok = r.got]
                      [] OTHER -> cl
      /\ req' = [req EXCEPT ![c] = IF r.m = "init_secure_api"
                                   THEN [r EXCEPT !.at = "key", !.got = okey] ELSE Idle]
  BY DEF Reply, lvars
<1>2. /\ r \in Requests /\ cl[c] \in [key : Nat, tok : Nat] /\ okey \in Nat /\ hkey \in Nat /\ smask \in Nat
      /\ cl \in [Clients -> [key : Nat, tok : Nat]] /\ req \in [Clients -> Requests]
  BY DEF Inv, TypeOK, ServerTyped
<1>3. Idle \in Requests /\ Idle.m = "none" /\ Idle.at = "idle"
  BY DEF Idle, Requests, Methods
<1>4. /\ req' \in [Clients -> Requests]
      /\ \A d \in Clients : d # c => req'[d] = req[d]
      /\ r.m = "init_secure_api" =>
           req'[c].at = "key" /\ req'[c].m = r.m /\ req'[c].got = okey /\ req'[c].key = r.key
      /\ r.m # "init_secure_api" => req'[c] = Idle
  <2>1. CASE r.m = "init_secure_api"
    <3> DEFINE s == [r EXCEPT !.at = "key", !.got = okey]
    <3>1. s \in Requests /\ s.at = "key" /\ s.m = r.m /\ s.got = okey /\ s.key = r.key
      BY <1>2 DEF Requests
    <3>2. req' = [req EXCEPT ![c] = s]
      BY <1>1, <2>1
    <3> HIDE DEF s
    <3> QED
      BY <1>2, <2>1, <3>1, <3>2
  <2>2. CASE r.m # "init_secure_api"
    BY <1>1, <1>2, <1>3, <2>2
  <2> QED
    BY <2>1, <2>2
<1>5. /\ cl' \in [Clients -> [key : Nat, tok : Nat]]
      /\ \A d \in Clients : d # c => cl'[d] = cl[d]
      /\ r.m # "init_secure_api" => cl'[c].key = cl[c].key
      /\ r.m = "init_secure_api" /\ readable => cl'[c].key = r.got
      /\ cl'[c].tok = cl[c].tok \/ (r.m = "open_wallet" /\ cl'[c].tok = r.got)
  <2>1. r.got \in Nat
    BY <1>2 DEF Requests
  <2>2. CASE cl' = cl /\ ~(r.m = "init_secure_api" /\ readable)
    BY <1>2, <2>2
  <2>3. CASE cl' = [cl EXCEPT ![c].key = r.got] /\ r.m = "init_secure_api"
    BY <1>2, <2>1, <2>3
  <2>4. CASE cl' = [cl EXCEPT ![c].tok = r.got] /\ r.m = "open_wallet"
    BY <1>2, <2>1, <2>4
  <2>5. CASE ~readable
    BY <1>1, <2>2, <2>5
  <2>6. CASE readable /\ r.m = "init_secure_api"
    BY <1>1, <2>3, <2>6
  <2>7. CASE readable /\ r.m = "open_wallet" /\ r.got # 0
    BY <1>1, <2>4, <2>7
  <2>8. CASE readable /\ r.m # "init_secure_api" /\ ~(r.m = "open_wallet" /\ r.got # 0)
    BY <1>1, <2>2, <2>8
  <2> QED
    BY <2>5, <2>6, <2>7, <2>8
<1>6. LifeTyped' /\ SeedInv'
  BY <1>1 DEF Inv, TypeOK, LifeTyped, SeedInv, SeedKept, Here
<1>7. smask' \in Nat
  BY <1>1, <1>2 DEF Requests
<1> HIDE DEF readable
<1>8. ServerTyped'
  BY <1>1, <1>4, <1>5, <1>7 DEF Inv, TypeOK, ServerTyped
<1>9. MaskInv'
  <2>1. \A d \in Clients : cl'[d].tok <= lc.opens
    BY <1>5 DEF Inv, MaskInv
  <2>2. \A d \in Clients : req'[d].m = "open_wallet" => req'[d].got <= lc.opens
    BY <1>3, <1>4 DEF Inv, MaskInv
  <2> QED
    BY <1>1, <2>1, <2>2 DEF Inv, MaskInv, keychain, IsOpen
<1>10. JobInv'
  <2>1. job[c].at = "none"
    BY <1>1 DEF Inv, JobInv
  <2> QED
    BY <1>1, <1>3, <1>4, <2>1 DEF Inv, JobInv
<1>11. SharedInv'
  <2> SUFFICES ASSUME ~raced'
               PROVE  /\ \A d, e \in Clients :
                           req'[d].m = req'[e].m /\ req'[d].m \in {"init_secure_api", "open_wallet"} => d = e
                      /\ \A d \in Clients : /\ req'[d].m = "init_secure_api" => KeyPending(d)'
                                            /\ req'[d].m = "open_wallet" => MaskPending(d)'
                      /\ InFlight("init_secure_api")' = {} =>
                           hkey' = okey' /\ (hkey' # 0 => \E d \in Clients : cl'[d].key = hkey')
                      /\ InFlight("open_wallet")' = {} => (IsOpen' => smask' = lc'.backend.mask)
    BY DEF SharedInv
  <2>1. /\ \A d, e \in Clients :
             req[d].m = req[e].m /\ req[d].m \in {"init_secure_api", "open_wallet"} => d = e
        /\ \A d \in Clients : req[d].m = "init_secure_api" => KeyPending(d)
        /\ \A d \in Clients : req[d].m = "open_wallet" => MaskPending(d)
        /\ InFlight("init_secure_api") = {} =>
             hkey = okey /\ (hkey # 0 => \E d \in Clients : cl[d].key = hkey)
        /\ InFlight("open_wallet") = {} => (IsOpen => smask = lc.backend.mask)
    BY <1>1 DEF Inv, SharedInv
  <2>2. \A d \in Clients : req'[d].m \in {"init_secure_api", "open_wallet"} => req[d].m = req'[d].m
    BY <1>3, <1>4
  <2>3. \A d, e \in Clients :
           req'[d].m = req'[e].m /\ req'[d].m \in {"init_secure_api", "open_wallet"} => d = e
    BY <2>1, <2>2
  <2>4. ASSUME NEW d \in Clients, req'[d].m = "init_secure_api"
        PROVE  KeyPending(d)'
    <3>1. req[d].m = "init_secure_api" /\ KeyPending(d)
      BY <2>1, <2>2, <2>4
    <3>2. CASE d = c
      <4>1. r.key \in {0, hkey} /\ r.got = okey
        BY <3>1, <3>2 DEF KeyPending
      <4>2. readable
        BY <4>1 DEF readable, decrypt
      <4> QED
        BY <1>1, <1>4, <1>5, <3>1, <3>2, <4>1, <4>2 DEF KeyPending
    <3>3. CASE d # c
      BY <1>1, <1>4, <1>5, <3>1, <3>3 DEF KeyPending
    <3> QED
      BY <3>2, <3>3
  <2>5. r.m = "open_wallet" => (IsOpen => smask' = lc.backend.mask)
    BY <1>1, <2>1 DEF MaskPending
  <2>6. ASSUME NEW d \in Clients, req'[d].m = "open_wallet"
        PROVE  MaskPending(d)'
    <3>1. req[d].m = "open_wallet" /\ MaskPending(d) /\ d # c
      BY <1>3, <1>4, <2>1, <2>2, <2>6
    <3>2. r.m # "open_wallet"
      BY <2>1, <3>1
    <3> QED
      BY <1>1, <1>4, <3>1, <3>2 DEF MaskPending, IsOpen
  <2>7. InFlight("init_secure_api")' = InFlight("init_secure_api") /\ (r.m = "init_secure_api" => InFlight("init_secure_api")' # {})
    BY <1>3, <1>4 DEF InFlight
  <2>8. InFlight("init_secure_api")' = {} =>
           hkey' = okey' /\ (hkey' # 0 => \E d \in Clients : cl'[d].key = hkey')
    <3> SUFFICES ASSUME InFlight("init_secure_api")' = {}
                 PROVE  hkey' = okey' /\ (hkey' # 0 => \E d \in Clients : cl'[d].key = hkey')
      OBVIOUS
    <3>1. r.m # "init_secure_api" /\ hkey = okey /\ (hkey # 0 => \E d \in Clients : cl[d].key = hkey)
      BY <2>1, <2>7
    <3>2. \A d \in Clients : cl'[d].key = cl[d].key
      BY <1>5, <3>1
    <3> QED
      BY <1>1, <3>1, <3>2
  <2>9. InFlight("open_wallet")' = {} => (IsOpen' => smask' = lc'.backend.mask)
    <3> SUFFICES ASSUME InFlight("open_wallet")' = {}, IsOpen
                 PROVE  smask' = lc.backend.mask
      BY <1>1 DEF IsOpen
    <3>1. CASE r.m = "open_wallet"
      BY <2>5, <3>1
    <3>2. CASE r.m # "open_wallet"
      <4>1. InFlight("open_wallet") = {}
        BY <1>4, <3>2 DEF InFlight
      <4> QED
        BY <1>1, <2>1, <3>2, <4>1
    <3> QED
      BY <3>1, <3>2
  <2> QED
    BY <2>3, <2>4, <2>6, <2>8, <2>9
<1>12. OwnWrites
  BY <1>1 DEF OwnWrites
<1> QED
  BY <1>6, <1>8, <1>9, <1>10, <1>11, <1>12 DEF Inv, TypeOK

(* update_owner_api_shared_key.                                            *)
LEMMA SetKeyInv ==
    ASSUME Inv, NEW c \in Clients, SetKey(c)
    PROVE  Inv' /\ OwnWrites
<1>1. /\ req[c].at = "key" /\ hkey' = req[c].got /\ req' = [req EXCEPT ![c] = Idle]
      /\ UNCHANGED <<disk, lc, op, owned, crashes, okey, smask, cl, job, upd, running, inits, raced>>
  BY DEF SetKey, update_owner_api_shared_key, lvars
<1>2. Idle \in Requests /\ Idle.m = "none" /\ Idle.at = "idle"
  BY DEF Idle, Requests, Methods
<1>3. /\ req' \in [Clients -> Requests] /\ req'[c] = Idle /\ hkey' \in Nat
      /\ \A d \in Clients : d # c => req'[d] = req[d]
      /\ req[c].m = "init_secure_api" /\ job[c].at = "none"
  BY <1>1, <1>2 DEF Inv, TypeOK, ServerTyped, Requests, JobInv
<1>4. LifeTyped' /\ SeedInv'
  BY <1>1 DEF Inv, TypeOK, LifeTyped, SeedInv, SeedKept, Here
<1>5. ServerTyped'
  BY <1>1, <1>3 DEF Inv, TypeOK, ServerTyped
<1>6. MaskInv'
  <2>1. \A d \in Clients : req'[d].m = "open_wallet" => req'[d].got <= lc.opens
    BY <1>2, <1>3 DEF Inv, MaskInv
  <2> QED
    BY <1>1, <2>1 DEF Inv, MaskInv, keychain, IsOpen
<1>7. JobInv'
  BY <1>1, <1>2, <1>3 DEF Inv, JobInv
<1>8. SharedInv'
  <2> SUFFICES ASSUME ~raced'
               PROVE  /\ \A d, e \in Clients :
                           req'[d].m = req'[e].m /\ req'[d].m \in {"init_secure_api", "open_wallet"} => d = e
                      /\ \A d \in Clients : /\ req'[d].m # "init_secure_api"
                                            /\ req'[d].m = "open_wallet" => MaskPending(d)'
                      /\ hkey' = okey' /\ (hkey' # 0 => \E d \in Clients : cl'[d].key = hkey')
                      /\ InFlight("open_wallet")' = {} => (IsOpen' => smask' = lc'.backend.mask)
    BY DEF SharedInv
  <2>1. /\ \A d, e \in Clients :
             req[d].m = req[e].m /\ req[d].m \in {"init_secure_api", "open_wallet"} => d = e
        /\ KeyPending(c)
        /\ \A d \in Clients : req[d].m = "open_wallet" => MaskPending(d)
        /\ InFlight("open_wallet") = {} => (IsOpen => smask = lc.backend.mask)
    BY <1>1, <1>3 DEF Inv, SharedInv
  <2>2. \A d \in Clients : req'[d].m \in {"init_secure_api", "open_wallet"} => req[d].m = req'[d].m /\ d # c
    BY <1>2, <1>3
  <2>3. \A d \in Clients : req'[d].m # "init_secure_api"
    BY <1>3, <2>1, <2>2
  <2>4. hkey' = okey' /\ cl'[c].key = hkey'
    BY <1>1, <2>1 DEF KeyPending
  <2>5. InFlight("open_wallet")' = InFlight("open_wallet")
    BY <1>2, <1>3 DEF InFlight
  <2>6. \A d \in Clients : req'[d].m = "open_wallet" => MaskPending(d)'
    BY <1>1, <1>3, <2>1, <2>2 DEF MaskPending, IsOpen
  <2> QED
    BY <1>1, <2>1, <2>2, <2>3, <2>4, <2>5, <2>6 DEF IsOpen
<1>9. OwnWrites
  BY <1>1 DEF OwnWrites
<1> QED
  BY <1>4, <1>5, <1>6, <1>7, <1>8, <1>9 DEF Inv, TypeOK

(* The process dies: only the files and what the clients know are left.    *)
LEMMA CrashInv ==
    ASSUME Inv, Crash
    PROVE  Inv' /\ OwnWrites
<1>1. /\ lc' = [lc EXCEPT !.backend = NoBackend] /\ op' = NoOp /\ crashes' = crashes + 1
      /\ okey' = 0 /\ hkey' = 0 /\ smask' = 0 /\ running' = FALSE /\ raced' = FALSE
      /\ req' = [c \in Clients |-> Idle]
      /\ job' = [t \in Threads |-> NoJob] /\ upd' = [u \in Updaters |-> NoUpdater]
      /\ UNCHANGED <<disk, owned, cl, inits>>
  BY DEF Crash
<1>2. /\ lc' \in [dir : Dirs, backend : Backends, opens : Nat] /\ lc.opens \in Nat
      /\ lc'.opens = lc.opens /\ lc'.backend = NoBackend /\ op' \in Ops /\ op'.kind = "none"
  BY <1>1 DEF Inv, TypeOK, LifeTyped, Backends, NoOp, Ops
<1>3. LifeTyped'
  BY <1>1, <1>2 DEF Inv, TypeOK, LifeTyped
<1>4. SeedInv'
  BY <1>1, <1>2 DEF Inv, SeedInv, SeedKept
<1>5. ServerTyped'
  BY <1>1 DEF Inv, TypeOK, ServerTyped, Idle, Requests, Methods, NoJob, NoUpdater
<1>6. MaskInv'
  <2>1. lc'.backend.mask = 0
    BY <1>2 DEF NoBackend
  <2>2. \A c \in Clients : req'[c].m = "none"
    BY <1>1 DEF Idle
  <2>3. /\ \A u \in Updaters : upd'[u].mask = 0
        /\ \A t \in Threads : job'[t].mask = 0 /\ job'[t].at = "none"
    BY <1>1 DEF NoJob, NoUpdater
  <2> QED
    BY <1>1, <1>2, <2>1, <2>2, <2>3 DEF Inv, MaskInv
<1>7. JobInv'
  BY <1>1 DEF JobInv, NoJob, Idle, Threads
<1>8. SharedInv'
  BY <1>1, <1>2 DEF SharedInv, Idle, IsOpen
<1>9. OwnWrites
  BY <1>1 DEF OwnWrites
<1> QED
  BY <1>3, <1>4, <1>5, <1>6, <1>7, <1>8, <1>9 DEF Inv, TypeOK

(* A request for an operation of the lifecycle.                            *)
LEMMA LifecycleRequestInv ==
    ASSUME Inv, NEW c \in Clients,
           \/ \E d \in Dirs : SetTopLevelDirectory(c, d)
           \/ CloseWallet(c) \/ CreateWallet(c) \/ ChangePassword(c) \/ DeleteWallet(c)
    PROVE  Inv' /\ OwnWrites
<1> USE DEF Done, Quiet, Long
<1>0. LifeInv /\ crashes \in Nat /\ running \in BOOLEAN
  BY DEF Inv, TypeOK, LifeInv, LifeTyped, ServerTyped
<1>1. CASE CloseWallet(c) \/ \E d \in Dirs : SetTopLevelDirectory(c, d)
  <2>1. /\ UNCHANGED <<disk, op, owned, crashes, okey, hkey, smask, cl, job, upd, running, inits>>
        /\ \/ lc' = [lc EXCEPT !.backend = NoBackend]
           \/ op = NoOp /\ \E d \in Dirs : lc' = [lc EXCEPT !.dir = d]
        /\ \E m \in {"close_wallet", "set_top_level_directory"} : Arrive(c, m, "reply", 0)
    BY <1>1 DEF CloseWallet, close_wallet, SetTopLevelDirectory
  <2>2. LifeInv' /\ lc'.opens = lc.opens /\ lc'.backend \in {lc.backend, NoBackend}
    BY <1>0, <2>1, CloseFacts
  <2>3. SameWallet \/ (lc'.opens = lc.opens /\ lc'.backend.mask = 0)
    BY <2>2 DEF SameWallet, NoBackend
  <2>4. PICK m \in {"close_wallet", "set_top_level_directory"} : Arrive(c, m, "reply", 0)
    BY <2>1
  <2>5. m \in Methods \ Special /\ m # "none"
    BY DEF Methods, Special
  <2>6. Inv'
    BY <1>0, <2>1, <2>2, <2>3, <2>4, <2>5, ArrivesAndGoesOn
  <2> QED
    BY <2>1, <2>6 DEF OwnWrites
<1>2. CASE CreateWallet(c) \/ ChangePassword(c) \/ DeleteWallet(c)
  <2>1. /\ UNCHANGED <<lc, okey, hkey, smask, cl, job, upd, running, inits>>
        /\ \E m \in {"create_wallet", "change_password", "delete_wallet"} : Arrive(c, m, "working", 0)
    BY <1>2 DEF CreateWallet, ChangePassword, DeleteWallet, create_wallet, change_password, delete_wallet
  <2>2. LifeInv'
    BY <1>0, <1>2, CreateInv, PasswordInv, DeleteInv DEF CreateWallet, ChangePassword, DeleteWallet
  <2>3. SameWallet
    BY <2>1 DEF SameWallet
  <2>4. PICK m \in {"create_wallet", "change_password", "delete_wallet"} : Arrive(c, m, "working", 0)
    BY <2>1
  <2>5. m \in Methods \ Special /\ m # "none"
    BY DEF Methods, Special
  <2>6. Inv'
    BY <1>0, <2>1, <2>2, <2>3, <2>4, <2>5, ArrivesAndGoesOn
  <2>7. OwnWrites
    <3>1. CASE CreateWallet(c) \/ DeleteWallet(c)
      BY <3>1 DEF CreateWallet, DeleteWallet, create_wallet, delete_wallet, OwnWrites
    <3>2. CASE ChangePassword(c)
      <4> DEFINE r == BackupSeed(Here, BakName(Here))
      <4>1. SetDisk(Here, r) /\ FreeBak(Here) # {}
        BY <3>2 DEF ChangePassword, change_password
      <4>2. Here \in Dirs /\ disk[Here] \in Disks
        BY <1>0, HereFacts DEF LifeInv
      <4>3. r.db = disk[Here].db
        BY <4>2 DEF BackupSeed, Disks
      <4> HIDE DEF r
      <4>4. \A d \in Dirs : disk'[d].db = disk[d].db
        BY <1>0, <4>1, <4>2, <4>3 DEF SetDisk, LifeInv, LifeTyped
      <4> QED
        BY <4>4 DEF OwnWrites
    <3> QED
      BY <1>2, <3>1, <3>2
  <2> QED
    BY <2>6, <2>7
<1> QED
  BY <1>1, <1>2

(* The other requests.                                                     *)
LEMMA OtherRequestInv ==
    ASSUME Inv, NEW c \in Clients,
           TokenMethod(c) \/ RefreshMethod(c) \/ StartUpdater(c) \/ StopUpdater(c)
    PROVE  Inv' /\ OwnWrites
<1> USE DEF Done, Quiet
<1>0. /\ LifeInv /\ LifeTyped /\ crashes \in Nat /\ running \in BOOLEAN
      /\ {"token", "retrieve", "start_updater", "stop_updater"} \in SUBSET (Methods \ Special)
  BY DEF Inv, TypeOK, LifeInv, LifeTyped, ServerTyped, Methods, Special
<1>1. CASE TokenMethod(c)
  <2>1. /\ UNCHANGED <<lc, op, owned, crashes, okey, hkey, smask, cl, job, upd, running, inits>>
        /\ Arrive(c, "token", "reply", 0)
        /\ disk' = IF keychain(cl[c].tok) THEN Written(lc.backend.words) ELSE disk
    BY <1>1 DEF TokenMethod
  <2>2. LifeInv' /\ OwnWrites
    <3>1. CASE keychain(cl[c].tok)
      <4>1. IsOpen /\ lc.backend.words \in Words /\ disk' = Written(lc.backend.words)
        BY <1>0, <2>1, <3>1, OpenByMask DEF keychain
      <4> QED
        BY <1>0, <2>1, <4>1, WrittenFacts DEF OwnWrites
    <3>2. CASE ~keychain(cl[c].tok)
      BY <1>0, <2>1, <3>2 DEF OwnWrites, LifeInv, LifeTyped, SeedInv, SeedKept, Here
    <3> QED
      BY <3>1, <3>2
  <2>3. SameWallet
    BY <2>1 DEF SameWallet
  <2> QED
    BY <1>0, <2>1, <2>2, <2>3, ArrivesAndGoesOn
<1>2. CASE RefreshMethod(c) \/ StartUpdater(c) \/ StopUpdater(c)
  <2>1. UNCHANGED <<disk, lc, op, owned, crashes, okey, hkey, smask, cl, inits>> /\ running' \in BOOLEAN
    BY <1>0, <1>2 DEF RefreshMethod, StartUpdater, StopUpdater, lvars
  <2>2. LifeInv' /\ OwnWrites /\ SameWallet
    BY <1>0, <2>1 DEF OwnWrites, LifeInv, LifeTyped, SeedInv, SeedKept, Here, SameWallet
  <2>3. CASE RefreshMethod(c)
    <3>1. PICK at \in {"refresh", "reply"} :
            /\ Arrive(c, "retrieve", at, 0) /\ upd' = upd
            /\ job' = job \/ (at = "refresh" /\ job' = StartJob(c, cl[c].tok))
      BY <2>3 DEF RefreshMethod
    <3> QED
      BY <1>0, <2>1, <2>2, <3>1, ArrivesAndGoesOn
  <2>4. CASE StartUpdater(c)
    <3>1. /\ Arrive(c, "start_updater", "reply", 0) /\ job' = job
          /\ \E u \in Updaters : upd' = [upd EXCEPT ![u] = [at |-> "queued", mask |-> cl[c].tok]]
      BY <2>4 DEF StartUpdater
    <3> QED
      BY <1>0, <2>1, <2>2, <3>1, ArrivesAndGoesOn
  <2>5. CASE StopUpdater(c)
    <3>1. Arrive(c, "stop_updater", "reply", 0) /\ job' = job /\ upd' = upd
      BY <2>5 DEF StopUpdater
    <3> QED
      BY <1>0, <2>1, <2>2, <3>1, ArrivesAndGoesOn
  <2> QED
    BY <1>2, <2>3, <2>4, <2>5
<1> QED
  BY <1>1, <1>2

(* A refresh ends, for a client or for an updater.                         *)
LEMMA JobEndsInv ==
    ASSUME Inv, LifeInv', NEW t \in Threads, NEW ok \in BOOLEAN, job[t].at # "none", JobEnds(t, ok),
           UNCHANGED <<lc, okey, hkey, smask, cl, running, inits, raced>>
    PROVE  Inv'
<1>1. ThreadsOK /\ req \in [Clients -> Requests] /\ running \in BOOLEAN /\ raced \in BOOLEAN /\ LifeTyped'
  BY ThreadsAreOK DEF Inv, TypeOK, ServerTyped, LifeInv
<1>2. NoJob \in Jobs /\ NoJob.at = "none" /\ NoJob.mask = 0 /\ NoUpdater \in UpdaterStates /\ NoUpdater.mask = 0
  BY DEF NoJob, Jobs, NoUpdater, UpdaterStates
<1>3. /\ job' \in [Threads -> Jobs] /\ job'[t] = NoJob
      /\ \A s \in Threads : s # t => job'[s] = job[s]
  BY <1>1, <1>2 DEF ThreadsOK, JobEnds
<1>4. lc.opens \in Nat /\ SameWallet
  BY OpenByMask DEF Inv, TypeOK, SameWallet
<1>5. \A s \in Threads : JobOK(s)'
  <2> TAKE s \in Threads
  <2>1. CASE s = t
    BY <1>2, <1>3, <1>4, <2>1 DEF JobOK, SameWallet
  <2>2. CASE s # t
    BY <1>1, <1>3, <1>4, <2>2, JobStays
  <2> QED
    BY <2>1, <2>2
<1>6. CASE t \in Clients
  <2>1. req' = [req EXCEPT ![t].at = "reply"] /\ upd' = upd
    BY <1>6 DEF JobEnds
  <2>2. req[t].m = "retrieve" /\ req[t].at = "refresh"
    BY <1>6 DEF Inv, JobInv
  <2>3. /\ req' \in [Clients -> Requests]
        /\ req'[t].at = "reply" /\ req'[t].m = req[t].m /\ req'[t].got = req[t].got /\ req'[t].key = req[t].key
        /\ \A d \in Clients : d # t => req'[d] = req[d]
    BY <1>1, <1>6, <2>1 DEF Requests
  <2>4. \A d \in Clients : Onward(d)
    BY <2>2, <2>3 DEF Onward
  <2>5. \A d \in Clients : job'[d].at # "none" => req'[d].m = "retrieve" /\ req'[d].at = "refresh"
    <3> TAKE d \in Clients
    <3>1. CASE d = t
      BY <1>2, <1>3, <3>1
    <3>2. CASE d # t
      BY <1>3, <2>3, <3>2 DEF Inv, JobInv, Threads
    <3> QED
      BY <3>1, <3>2
  <2>6. ThreadsOK'
    BY <1>1, <1>3, <1>5, <2>1 DEF ThreadsOK
  <2> QED
    BY <1>1, <1>4, <2>3, <2>4, <2>5, <2>6, GoesOn
<1>7. CASE t \notin Clients
  <2>1. /\ req' = req /\ t \in Updaters
        /\ upd' = [upd EXCEPT ![t] = IF ok THEN [@ EXCEPT !.at = "test"] ELSE NoUpdater]
    BY <1>7 DEF JobEnds, Threads
  <2>2. upd' \in [Updaters -> UpdaterStates] /\ \A u \in Updaters : upd'[u].mask <= lc.opens
    <3> DEFINE s == [upd[t] EXCEPT !.at = "test"]
    <3>1. s \in UpdaterStates /\ s.mask = upd[t].mask
      BY <1>1, <2>1 DEF ThreadsOK, UpdaterStates
    <3>2. upd' = [upd EXCEPT ![t] = s] \/ upd' = [upd EXCEPT ![t] = NoUpdater]
      BY <2>1
    <3> HIDE DEF s
    <3> QED
      BY <1>1, <1>2, <1>4, <2>1, <3>1, <3>2 DEF ThreadsOK
  <2>3. \A d \in Clients : Onward(d)
    BY <2>1 DEF Onward
  <2>4. \A d \in Clients : job'[d].at # "none" => req'[d].m = "retrieve" /\ req'[d].at = "refresh"
    BY <1>3, <1>7, <2>1 DEF Inv, JobInv, Threads
  <2>5. ThreadsOK'
    BY <1>3, <1>5, <2>2 DEF ThreadsOK
  <2> QED
    BY <1>1, <1>4, <2>1, <2>3, <2>4, <2>5, GoesOn
<1> QED
  BY <1>6, <1>7

(* The wallet is read: the seed that is noted is that of the wallet the    *)
(* mask fits.                                                              *)
LEMMA ReadWalletInv ==
    ASSUME Inv, NEW t \in Threads, ReadWallet(t)
    PROVE  Inv' /\ OwnWrites
<1>1. /\ job[t].at = "read" /\ UNCHANGED <<disk, lc, op, owned, crashes, okey, hkey, smask, cl, running, inits, raced>>
  BY DEF ReadWallet, lvars
<1>2. LifeInv' /\ OwnWrites /\ SameWallet
  BY <1>1 DEF Inv, TypeOK, OwnWrites, LifeInv, LifeTyped, SeedInv, SeedKept, Here, SameWallet
<1>3. CASE JobEnds(t, TRUE) \/ JobEnds(t, FALSE)
  BY <1>1, <1>2, <1>3, JobEndsInv
<1>4. CASE /\ keychain(job[t].mask)
           /\ job' = [job EXCEPT ![t].at = "apply", ![t].words = lc.backend.words]
           /\ UNCHANGED <<req, upd>>
  <2>1. ThreadsOK /\ req \in [Clients -> Requests] /\ running \in BOOLEAN /\ raced \in BOOLEAN /\ LifeTyped'
    BY <1>2, ThreadsAreOK DEF Inv, TypeOK, ServerTyped, LifeInv
  <2>2. lc.backend.words \in Words
    BY <1>4, OpenByMask DEF keychain, Inv, TypeOK
  <2> DEFINE j == [job[t] EXCEPT !.at = "apply", !.words = lc.backend.words]
  <2>3. j \in Jobs /\ j.at = "apply" /\ j.words = lc.backend.words /\ j.mask = job[t].mask
    BY <2>1, <2>2 DEF ThreadsOK, Jobs
  <2>4. job' = [job EXCEPT ![t] = j]
    BY <1>4, <2>1 DEF ThreadsOK, Jobs
  <2> HIDE DEF j
  <2>5. /\ job' \in [Threads -> Jobs] /\ job'[t] = j
        /\ \A s \in Threads : s # t => job'[s] = job[s]
    BY <2>1, <2>3, <2>4 DEF ThreadsOK
  <2>6. \A s \in Threads : JobOK(s)'
    <3> TAKE s \in Threads
    <3>1. CASE s = t
      <4>1. j.mask <= lc.opens
        BY <2>1, <2>3 DEF ThreadsOK, JobOK
      <4> QED
        BY <1>1, <2>2, <2>3, <2>5, <3>1, <4>1 DEF JobOK
    <3>2. CASE s # t
      BY <1>2, <2>1, <2>5, <3>2, JobStays
    <3> QED
      BY <3>1, <3>2
  <2>7. ThreadsOK'
    BY <1>1, <1>4, <2>1, <2>5, <2>6 DEF ThreadsOK
  <2>8. \A d \in Clients : job'[d].at # "none" => job[d].at # "none"
    BY <1>1, <2>5 DEF Threads
  <2>9. \A d \in Clients : job'[d].at # "none" => req'[d].m = "retrieve" /\ req'[d].at = "refresh"
    BY <1>4, <2>8 DEF Inv, JobInv
  <2>10. \A d \in Clients : Onward(d)
    BY <1>4 DEF Onward
  <2>11. Inv'
    BY <1>1, <1>2, <1>4, <2>1, <2>7, <2>9, <2>10, GoesOn
  <2> QED
    BY <1>2, <2>11
<1> QED
  BY <1>3, <1>4 DEF ReadWallet

(* The node's answer is written: into the wallet it was asked for, or into *)
(* none.                                                                   *)
LEMMA ApplyUpdateInv ==
    ASSUME Inv, NEW t \in Threads, ApplyUpdate(t)
    PROVE  Inv' /\ OwnWrites
<1>1. job[t].at = "apply" /\ UNCHANGED <<lc, op, owned, crashes, okey, hkey, smask, cl, running, inits, raced>>
  BY DEF ApplyUpdate
<1>2. JobOK(t) /\ LifeInv /\ LifeTyped
  BY ThreadsAreOK DEF ThreadsOK, Inv, TypeOK, LifeInv
<1>3. CASE keychain(job[t].mask)
  <2>1. job[t].words \in Words /\ job[t].words = lc.backend.words /\ IsOpen
    BY <1>1, <1>2, <1>3 DEF JobOK, keychain
  <2>2. /\ JobEnds(t, TRUE)
        /\ disk' = IF lc.backend.linked
                   THEN [Written(job[t].words) EXCEPT ![lc.backend.dir].db.init = "InitComplete"]
                   ELSE disk
    BY <1>3 DEF ApplyUpdate
  <2>3. LifeInv' /\ OwnWrites
    BY <1>1, <1>2, <2>1, <2>2, WrittenFacts DEF OwnWrites
  <2> QED
    BY <1>1, <2>2, <2>3, JobEndsInv
<1>4. CASE ~keychain(job[t].mask)
  <2>1. disk' = disk /\ JobEnds(t, FALSE)
    BY <1>4 DEF ApplyUpdate
  <2>2. LifeInv' /\ OwnWrites
    BY <1>1, <1>2, <2>1 DEF OwnWrites, LifeInv, LifeTyped, SeedInv, SeedKept, Here
  <2> QED
    BY <1>1, <2>1, <2>2, JobEndsInv
<1> QED
  BY <1>3, <1>4

(* The updater's own steps: it keeps its mask, and a refresh it starts     *)
(* gets that mask.                                                         *)
LEMMA UpdaterInv ==
    ASSUME Inv, NEW u \in Updaters, RunUpdater(u) \/ CheckOpened(u) \/ TestRunning(u)
    PROVE  Inv' /\ OwnWrites
<1>1. /\ UNCHANGED <<disk, lc, op, owned, crashes, okey, hkey, smask, cl, req, inits, raced>>
      /\ running' \in BOOLEAN
      /\ job' = job \/ job' = StartJob(u, upd[u].mask)
      /\ \/ upd' = [upd EXCEPT ![u] = NoUpdater]
         \/ \E at \in {"check", "update", "test"} : upd' = [upd EXCEPT ![u].at = at]
  <2>1. running \in BOOLEAN
    BY DEF Inv, TypeOK, ServerTyped
  <2>2. CASE RunUpdater(u)
    BY <2>2 DEF RunUpdater, lvars
  <2>3. CASE CheckOpened(u)
    BY <2>1, <2>3 DEF CheckOpened, lvars
  <2>4. CASE TestRunning(u)
    BY <2>1, <2>4 DEF TestRunning, lvars
  <2> QED
    BY <2>2, <2>3, <2>4
<1>2. LifeInv' /\ OwnWrites /\ SameWallet
  BY <1>1 DEF Inv, TypeOK, OwnWrites, LifeInv, LifeTyped, SeedInv, SeedKept, Here, SameWallet
<1>3. /\ ThreadsOK /\ req' \in [Clients -> Requests] /\ raced' \in BOOLEAN /\ LifeTyped'
      /\ u \in Threads /\ u \notin Clients /\ lc.opens \in Nat
  BY <1>1, <1>2, ThreadsAreOK, OwnerAssumption, OpenByMask
  DEF Inv, TypeOK, ServerTyped, LifeInv, Threads
<1>4. upd' \in [Updaters -> UpdaterStates] /\ \A v \in Updaters : upd'[v].mask <= lc.opens
  <2>1. PICK s \in UpdaterStates : upd' = [upd EXCEPT ![u] = s] /\ s.mask <= lc.opens
    <3>1. CASE upd' = [upd EXCEPT ![u] = NoUpdater]
      <4>1. NoUpdater \in UpdaterStates /\ NoUpdater.mask <= lc.opens
        BY <1>3 DEF NoUpdater, UpdaterStates
      <4> QED
        BY <3>1, <4>1
    <3>2. ASSUME NEW at \in {"check", "update", "test"}, upd' = [upd EXCEPT ![u].at = at]
          PROVE  \E s \in UpdaterStates : upd' = [upd EXCEPT ![u] = s] /\ s.mask <= lc.opens
      <4> DEFINE s == [upd[u] EXCEPT !.at = at]
      <4>1. s \in UpdaterStates /\ s.mask = upd[u].mask
        BY <1>3 DEF ThreadsOK, UpdaterStates
      <4>2. upd' = [upd EXCEPT ![u] = s] /\ s.mask <= lc.opens
        BY <1>3, <3>2, <4>1 DEF ThreadsOK
      <4> QED
        BY <4>1, <4>2
    <3> QED
      BY <1>1, <3>1, <3>2
  <2> QED
    BY <1>3, <2>1 DEF ThreadsOK
<1>5. /\ job' \in [Threads -> Jobs] /\ \A s \in Threads : s # u => job'[s] = job[s]
      /\ job'[u] = job[u] \/ (job'[u].at = "read" /\ job'[u].mask = upd[u].mask)
  <2>1. CASE job' = job
    BY <1>3, <2>1 DEF ThreadsOK
  <2>2. CASE job' = StartJob(u, upd[u].mask)
    <3>1. [at |-> "read", words |-> "none", mask |-> upd[u].mask] \in Jobs
      BY <1>3 DEF ThreadsOK, UpdaterStates, Jobs
    <3> QED
      BY <1>3, <2>2, <3>1 DEF ThreadsOK, StartJob
  <2> QED
    BY <1>1, <2>1, <2>2
<1>6. \A s \in Threads : JobOK(s)'
  <2> TAKE s \in Threads
  <2>1. CASE job'[s] = job[s]
    BY <1>2, <1>3, <2>1, JobStays
  <2>2. CASE s = u /\ job'[u].at = "read" /\ job'[u].mask = upd[u].mask
    BY <1>1, <1>3, <2>2 DEF JobOK, ThreadsOK
  <2> QED
    BY <1>5, <2>1, <2>2
<1>7. ThreadsOK'
  BY <1>1, <1>4, <1>5, <1>6 DEF ThreadsOK
<1>8. \A d \in Clients : job'[d].at # "none" => req'[d].m = "retrieve" /\ req'[d].at = "refresh"
  BY <1>1, <1>3, <1>5 DEF Inv, JobInv, Threads
<1>9. \A d \in Clients : Onward(d)
  BY <1>1 DEF Onward
<1>10. Inv'
  BY <1>1, <1>2, <1>3, <1>7, <1>8, <1>9, GoesOn
<1> QED
  BY <1>2, <1>10

(* A foreign request, and the steps of an operation that holds the wallet  *)
(* mutex.                                                                  *)
LEMMA ForeignOrOpInv ==
    ASSUME Inv, ForeignRequest \/ OpStep
    PROVE  Inv' /\ OwnWrites
<1>1. LifeInv /\ ThreadsOK /\ req \in [Clients -> Requests] /\ running \in BOOLEAN /\ raced \in BOOLEAN
  BY ThreadsAreOK DEF Inv, TypeOK, ServerTyped, LifeInv
<1>2. /\ UNCHANGED <<okey, hkey, smask, cl, job, upd, running, inits, raced>>
      /\ \/ req' = req
         \/ req' = [c \in Clients |-> IF req[c].at = "working" /\ op' = NoOp
                                      THEN [req[c] EXCEPT !.at = "reply"] ELSE req[c]]
  BY DEF ForeignRequest, OpStep, Quiet, svars
<1>3. LifeInv' /\ SameWallet /\ OwnWrites
  <2>1. CASE ForeignRequest
    <3>1. /\ IsOpen /\ lc.backend.words \in Words /\ disk' = Written(lc.backend.words)
          /\ UNCHANGED <<lc, op, owned, crashes>>
      BY <1>1, <2>1, OpenByMask DEF ForeignRequest, keychain, LifeInv
    <3> QED
      BY <1>1, <3>1, WrittenFacts DEF OwnWrites, SameWallet
  <2>2. CASE OpStep
    <3>1. LifeInv' /\ SameWallet /\ NothingWritten
      BY <1>1, <2>2, OpStepFacts DEF OpStep
    <3> QED
      BY <3>1 DEF NothingWritten, OwnWrites
  <2> QED
    BY <2>1, <2>2
<1>4. /\ req' \in [Clients -> Requests]
      /\ \A d \in Clients : req'[d] = req[d] \/ (req[d].at = "working" /\ req'[d] = [req[d] EXCEPT !.at = "reply"])
  <2>1. \A d \in Clients : [req[d] EXCEPT !.at = "reply"] \in Requests
    BY <1>1 DEF Requests
  <2> QED
    BY <1>1, <1>2, <2>1
<1>5. \A d \in Clients : req'[d] = req[d] \/ (/\ req[d].at = "working" /\ req'[d].at = "reply" /\ req'[d].m = req[d].m
                                             /\ req'[d].got = req[d].got /\ req'[d].key = req[d].key)
  BY <1>1, <1>4 DEF Requests
<1>6. \A d \in Clients : Onward(d)
  BY <1>5 DEF Onward
<1>7. \A d \in Clients : job'[d].at # "none" => req'[d].m = "retrieve" /\ req'[d].at = "refresh"
  BY <1>2, <1>5 DEF Inv, JobInv
<1>8. ThreadsOK'
  <2>1. \A t \in Threads : JobOK(t)'
    BY <1>2, <1>3, JobStays DEF LifeInv
  <2> QED
    BY <1>1, <1>2, <1>3, <2>1 DEF ThreadsOK, SameWallet
<1> QED
  BY <1>1, <1>2, <1>3, <1>4, <1>6, <1>7, <1>8, GoesOn

(* Every step.                                                             *)
LEMMA NextInv ==
    ASSUME Inv, Next
    PROVE  Inv' /\ OwnWrites
<1>1. ASSUME NEW c \in Clients, Request(c)
      PROVE  Inv' /\ OwnWrites
  BY <1>1, InitSecureInv, OpenWalletInv, LifecycleRequestInv, OtherRequestInv DEF Request
<1>2. ASSUME NEW c \in Clients, Reply(c) \/ SetKey(c) \/ ReadWallet(c) \/ ApplyUpdate(c)
      PROVE  Inv' /\ OwnWrites
  BY <1>2, ReplyInv, SetKeyInv, ReadWalletInv, ApplyUpdateInv DEF Threads
<1>3. ASSUME NEW u \in Updaters, UpdaterStep(u)
      PROVE  Inv' /\ OwnWrites
  BY <1>3, UpdaterInv, ReadWalletInv, ApplyUpdateInv DEF UpdaterStep, Threads
<1> QED
  BY <1>1, <1>2, <1>3, ForeignOrOpInv, CrashInv DEF Next

(* A step that changes nothing.                                            *)
LEMMA StutterInv ==
    ASSUME Inv, UNCHANGED vars
    PROVE  Inv' /\ OwnWrites
<1>1. /\ UNCHANGED <<disk, lc, op, owned, crashes>>
      /\ UNCHANGED <<okey, hkey, smask, cl, req, job, upd, running, inits, raced>>
  BY DEF vars, lvars, svars
<1>2. LifeTyped' /\ SeedInv' /\ OwnWrites
  BY <1>1 DEF Inv, TypeOK, LifeTyped, SeedInv, SeedKept, Here, OwnWrites
<1>3. ServerTyped' /\ JobInv'
  BY <1>1 DEF Inv, TypeOK, ServerTyped, JobInv
<1>4. MaskInv'
  BY <1>1 DEF Inv, MaskInv, keychain, IsOpen
<1>5. SharedInv'
  BY <1>1 DEF Inv, SharedInv, InFlight, KeyPending, MaskPending, IsOpen
<1> QED
  BY <1>2, <1>3, <1>4, <1>5 DEF Inv, TypeOK

(* The server begins with no wallet open, in a directory with or without a *)
(* wallet.                                                                 *)
LEMMA InitInv ==
    Init => Inv
<1> SUFFICES ASSUME Init PROVE Inv
  OBVIOUS
<1>1. PICK d \in Dirs, w \in Words, pw \in Passwords, made \in BOOLEAN :
        /\ disk = [e \in Dirs |-> IF e = d /\ made THEN Wallet(w, pw) ELSE NoDisk]
        /\ owned = [e \in Dirs |-> IF e = d /\ made THEN {w} ELSE {}]
        /\ lc = [dir |-> d, backend |-> NoBackend, opens |-> 0]
  <2> DEFINE dir == CHOOSE d \in Dirs : TRUE
             words == CHOOSE w \in Words : TRUE
             password == CHOOSE pw \in Passwords : TRUE
  <2>1. dir \in Dirs /\ words \in Words /\ password \in Passwords
    BY LifecycleAssumption
  <2>2. PICK made \in BOOLEAN :
          /\ disk = [e \in Dirs |-> IF e = dir /\ made THEN Wallet(words, password) ELSE NoDisk]
          /\ owned = [e \in Dirs |-> IF e = dir /\ made THEN {words} ELSE {}]
          /\ lc = [dir |-> dir, backend |-> NoBackend, opens |-> 0]
    BY DEF Init
  <2> HIDE DEF dir, words, password
  <2> QED
    BY <2>1, <2>2
<1>2. /\ op = NoOp /\ crashes = 0 /\ inits = 0
      /\ okey = 0 /\ hkey = 0 /\ smask = 0 /\ running = FALSE /\ raced = FALSE
      /\ cl = [c \in Clients |-> [key |-> 0, tok |-> 0]]
      /\ req = [c \in Clients |-> Idle]
      /\ job = [t \in Threads |-> NoJob] /\ upd = [u \in Updaters |-> NoUpdater]
  BY DEF Init
<1>3. NoFile \in Files /\ NoDisk \in Disks
  BY DEF Files, NoFile, NoDisk, Disks, NoDb, Databases, InitStatus
<1>4. /\ Wallet(w, pw) \in Disks /\ Wallet(w, pw).seed.whole /\ Wallet(w, pw).seed.words = w
  <2>1. SeedFile(w, pw) \in Files /\ SeedFile(w, pw).whole /\ SeedFile(w, pw).words = w
    BY DEF SeedFile, Files
  <2> DEFINE db == [there |-> TRUE, init |-> "InitComplete", holds |-> {w}]
  <2>2. db \in Databases
    BY DEF Databases, InitStatus
  <2>3. Wallet(w, pw) = [NoDisk EXCEPT !.seed = SeedFile(w, pw), !.db = db]
    BY DEF Wallet
  <2> HIDE DEF db
  <2> QED
    BY <1>3, <2>1, <2>2, <2>3 DEF Disks
<1>5. LifeTyped
  <2>1. disk \in [Dirs -> Disks] /\ owned \in [Dirs -> SUBSET Words]
    BY <1>1, <1>3, <1>4
  <2>2. lc \in [dir : Dirs, backend : Backends, opens : Nat] /\ op \in Ops
    BY <1>1, <1>2 DEF Backends, Ops, NoOp
  <2> QED
    BY <1>2, <2>1, <2>2 DEF LifeTyped
<1>6. SeedInv
  <2>1. SeedKept
    BY <1>1, <1>4 DEF SeedKept
  <2> QED
    BY <1>2, <2>1 DEF SeedInv, NoOp
<1>7. ServerTyped
  BY <1>2 DEF ServerTyped, Idle, Requests, Methods, NoJob, NoUpdater
<1>8. MaskInv
  BY <1>1, <1>2 DEF MaskInv, NoBackend, Idle, NoJob, NoUpdater
<1>9. JobInv
  BY <1>2 DEF JobInv, NoJob, Idle, Threads
<1>10. SharedInv
  BY <1>1, <1>2 DEF SharedInv, Idle, IsOpen
<1> QED
  BY <1>5, <1>6, <1>7, <1>8, <1>9, <1>10 DEF Inv, TypeOK

-----------------------------------------------------------------------------
(* The theorems.                                                           *)

(* The inductive invariant holds.                                          *)
LEMMA Invariant ==
    Spec => []Inv
<1>1. Inv /\ [Next]_vars => Inv'
  BY NextInv, StutterInv
<1> QED
  BY <1>1, InitInv, PTL DEF Spec

(* The variables of the server and of the lifecycle keep their types.      *)
THEOREM TypeCorrect == Spec => []TypeOK
<1>1. Inv => TypeOK
  BY DEF Inv
<1> QED
  BY <1>1, Invariant, PTL

(* Every seed a wallet was made from is still in the seed file or in a     *)
(* backup of it, whole, wherever create_wallet or change_password was      *)
(* interrupted and whatever write failed.                                  *)
THEOREM SeedsAreKept == Spec => []SeedKept
<1>1. Inv => SeedKept
  BY DEF Inv, SeedInv
<1> QED
  BY <1>1, Invariant, PTL

(* When no init_secure_api and no open_wallet is under way, and none ever  *)
(* overlapped another, the handler's key is the Owner's and a client has   *)
(* it, and the foreign API's mask is that of the wallet that is open.      *)
THEOREM SharedStateIsAgreed == Spec => []SharedStateAgrees
<1>1. Inv => SharedStateAgrees
  BY DEF Inv, SharedInv, SharedStateAgrees
<1> QED
  BY <1>1, Invariant, PTL

(* Whatever a refresh read before it let go of the wallet mutex, what a    *)
(* step writes to a database belongs to the wallet that is open there.     *)
THEOREM WritesAreOwn == Spec => WritesOwn
<1>1. Inv /\ [Next]_vars => [OwnWrites]_vars
  BY NextInv, StutterInv
<1>2. Spec => [][OwnWrites]_vars
  BY <1>1, Invariant, PTL DEF Spec
<1> QED
  BY <1>2 DEF WritesOwn, OwnWrites

=============================================================================
