----------------------------- MODULE Lifecycle -----------------------------
(***************************************************************************)
(* The wallet's files and the lifecycle provider over them                 *)
(* (impls/src/lifecycle): creating, opening and closing a wallet, changing *)
(* its password, deleting it, with a crash or a failed write between any   *)
(* two file operations.  Every operation holds the wallet mutex from its   *)
(* beginning to its end: it is the one operation under way, op.            *)
(***************************************************************************)
EXTENDS Naturals, FiniteSets

CONSTANTS
    Dirs,        \* top level directories
    Words,       \* seeds, as recovery phrases
    Passwords,
    MaxBaks,     \* bound: backups of the seed file in one directory
    MaxOpens,    \* bound: how often a wallet is opened with a mask
    MaxCrashes   \* bound: crashes, and writes that fail

ASSUME LifecycleAssumption ==
    /\ Dirs # {} /\ Words # {} /\ Passwords # {}
    /\ MaxBaks \in Nat /\ MaxOpens \in Nat /\ MaxCrashes \in Nat

VARIABLES
    disk,     \* per directory: seed file, backups, database
    lc,       \* DefaultLCProvider: data_dir, backend, and the masks given out
    op,       \* the operation that is under way
    owned,    \* per directory: the seeds whose wallets were created there
    crashes

lvars == <<disk, lc, op, owned, crashes>>

-----------------------------------------------------------------------------
(* Files.  File::create leaves an empty file until write_all is done.      *)

NoFile == [words |-> "none", pw |-> "none", whole |-> FALSE]
EmptyFile == [words |-> "empty", pw |-> "none", whole |-> FALSE]
SeedFile(w, pw) == [words |-> w, pw |-> pw, whole |-> TRUE]
Files == [words : Words, pw : Passwords, whole : {TRUE}] \cup {NoFile, EmptyFile}

InitStatus == {"absent", "InitNeedsScanning", "InitNoScanning", "InitComplete"}

(* A wallet database: how it was initialised, and whose outputs it holds.  *)
NoDb == [there |-> FALSE, init |-> "absent", holds |-> {}]
NoDisk == [seed |-> NoFile, baks |-> [i \in 1 .. MaxBaks |-> NoFile], db |-> NoDb]

(* WalletSeed::seed_file_exists: an empty file exists too.                 *)
seed_file_exists(d) == disk[d].seed # NoFile

(* WalletSeed::from_file, EncryptedWalletSeed::decrypt: the words, or      *)
(* "none" for a missing or empty file and for a wrong password.            *)
from_file(f, pw) == IF f.whole /\ f.pw = pw THEN f.words ELSE "none"

(* backup_seed: the first name that is free.                               *)
FreeBak(d) == {i \in 1 .. MaxBaks : disk[d].baks[i] = NoFile}
BakName(d) == CHOOSE i \in FreeBak(d) : \A j \in FreeBak(d) : i <= j

-----------------------------------------------------------------------------
(* The provider.  A mask is a number; 0 stands for None.  A backend whose  *)
(* database was removed keeps writing to the unlinked file.                *)

NoBackend == [dir |-> "none", words |-> "none", mask |-> 0, linked |-> FALSE]
IsOpen == lc.backend # NoBackend

(* WalletBackend::keychain and batch: the mask must undo the one the       *)
(* wallet was opened with.                                                 *)
(* Mutant: the checksum of the master key is not compared.                 *)
keychain_unchecked(mask) == IsOpen
keychain(mask) == IsOpen /\ lc.backend.mask = mask

NoOp == [kind |-> "none", at |-> 0, words |-> "none", pw |-> "none", typed |-> FALSE, bak |-> 0]
Begin(kind, w, pw, typed, bak) ==
    op' = [kind |-> kind, at |-> 1, words |-> w, pw |-> pw, typed |-> typed, bak |-> bak]
Step == op' = [op EXCEPT !.at = @ + 1]
End == op' = NoOp
At(kind, n) == op.kind = kind /\ op.at = n
Here == lc.dir

SetDisk(d, r) == disk' = [disk EXCEPT ![d] = r]

(* Words no one has used yet: a random seed.                               *)
Fresh == Words \ UNION {owned[d] : d \in Dirs}

-----------------------------------------------------------------------------
(* create_wallet: refused when there is a seed file; then the seed file,   *)
(* the database with its default account, and its scan status.             *)

create_wallet(w, pw, typed) ==
    /\ op = NoOp /\ ~seed_file_exists(Here) /\ (typed \/ w \in Fresh)
    /\ Begin("create", w, pw, typed, 0)
    /\ UNCHANGED <<disk, lc, owned, crashes>>

CreateSeedFile ==
    /\ At("create", 1) /\ Step
    /\ SetDisk(Here, [disk[Here] EXCEPT !.seed = EmptyFile])
    /\ UNCHANGED <<lc, owned, crashes>>

WriteSeedFile ==
    /\ At("create", 2) /\ Step
    /\ SetDisk(Here, [disk[Here] EXCEPT !.seed = SeedFile(op.words, op.pw)])
    /\ owned' = [owned EXCEPT ![Here] = @ \cup {op.words}]
    /\ UNCHANGED <<lc, crashes>>

(* WalletBackend::new.                                                     *)
OpenDb(db) == [db EXCEPT !.there = TRUE]
CreateDb ==
    /\ At("create", 3) /\ Step
    /\ SetDisk(Here, [disk[Here] EXCEPT !.db = OpenDb(@)])
    /\ UNCHANGED <<lc, owned, crashes>>

SaveInitStatus ==
    /\ At("create", 4) /\ End
    /\ SetDisk(Here, [disk[Here] EXCEPT !.db.init = IF op.typed THEN "InitNeedsScanning"
                                                    ELSE "InitNoScanning"])
    /\ UNCHANGED <<lc, owned, crashes>>

(* open_wallet: the database is opened, or made, before the seed is read.  *)
(* The open backend, if any, is kept when it fails.                        *)
open_wallet(pw, masked) ==
    LET w == from_file(disk[Here].seed, pw)
        m == IF masked THEN lc.opens + 1 ELSE 0
    IN  /\ op = NoOp /\ lc.opens < MaxOpens
        /\ SetDisk(Here, [disk[Here] EXCEPT !.db = OpenDb(@)])
        /\ lc' = IF w = "none" THEN lc
                 ELSE [lc EXCEPT !.backend = [dir |-> Here, words |-> w, mask |-> m, linked |-> TRUE],
                                 !.opens = @ + 1]
        /\ UNCHANGED <<op, owned, crashes>>

close_wallet ==
    /\ op = NoOp
    /\ lc' = [lc EXCEPT !.backend = NoBackend]
    /\ UNCHANGED <<disk, op, owned, crashes>>

-----------------------------------------------------------------------------
(* change_password: the seed file is renamed to a backup, a new one is     *)
(* made, read back and compared, and only then is the backup removed.      *)

(* Mutant: the old file is deleted instead of renamed.                     *)
BackupSeed_deleted(d, i) == [disk[d] EXCEPT !.seed = NoFile]
BackupSeed(d, i) == [disk[d] EXCEPT !.baks[i] = disk[d].seed, !.seed = NoFile]

change_password(old, new) ==
    /\ op = NoOp /\ FreeBak(Here) # {}
    /\ from_file(disk[Here].seed, old) # "none"
    /\ Begin("password", disk[Here].seed.words, new, TRUE, BakName(Here))
    /\ SetDisk(Here, BackupSeed(Here, BakName(Here)))
    /\ UNCHANGED <<lc, owned, crashes>>

NewSeedFile ==
    /\ At("password", 1) /\ Step
    /\ SetDisk(Here, [disk[Here] EXCEPT !.seed = EmptyFile])
    /\ UNCHANGED <<lc, owned, crashes>>

NewSeedWritten ==
    /\ At("password", 2) /\ Step
    /\ SetDisk(Here, [disk[Here] EXCEPT !.seed = SeedFile(op.words, op.pw)])
    /\ UNCHANGED <<lc, owned, crashes>>

(* The result of init_file is not looked at: a file that could not be      *)
(* written shows when it is read back.                                     *)
PasswordChanged ==
    /\ At("password", 3) /\ End
    /\ IF from_file(disk[Here].seed, op.pw) = op.words
       THEN SetDisk(Here, [disk[Here] EXCEPT !.baks[op.bak] = NoFile])
       ELSE UNCHANGED disk
    /\ UNCHANGED <<lc, owned, crashes>>

-----------------------------------------------------------------------------
(* delete_wallet: remove_dir_all of the top level directory, file by file. *)

delete_wallet ==
    /\ op = NoOp
    /\ Begin("delete", "none", "none", FALSE, 0)
    /\ owned' = [owned EXCEPT ![Here] = {}]
    /\ UNCHANGED <<disk, lc, crashes>>

Unlinked == [lc EXCEPT !.backend.linked = @ /\ lc.backend.dir # Here]

RemoveSome ==
    /\ At("delete", 1) /\ Step
    /\ \/ SetDisk(Here, [disk[Here] EXCEPT !.db = NoDb]) /\ lc' = Unlinked
       \/ SetDisk(Here, [disk[Here] EXCEPT !.seed = NoFile]) /\ UNCHANGED lc
    /\ UNCHANGED <<owned, crashes>>

RemoveRest ==
    /\ At("delete", 2) /\ End
    /\ SetDisk(Here, NoDisk) /\ lc' = Unlinked
    /\ UNCHANGED <<owned, crashes>>

OpSteps ==
    \/ CreateSeedFile \/ WriteSeedFile \/ CreateDb \/ SaveInitStatus
    \/ NewSeedFile \/ NewSeedWritten \/ PasswordChanged
    \/ RemoveSome \/ RemoveRest

(* A write fails (no space is left, say).  init_file's error ends          *)
(* create_wallet; change_password goes on to read the file back.           *)
WriteFails ==
    /\ crashes < MaxCrashes /\ crashes' = crashes + 1
    /\ \/ op.kind = "create" /\ op.at \in {1, 2, 3, 4} /\ End
       \/ op.kind = "password" /\ op.at \in {1, 2} /\ op' = [op EXCEPT !.at = 3]
    /\ UNCHANGED <<disk, lc, owned>>

=============================================================================
