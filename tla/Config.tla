------------------------------- MODULE Config -------------------------------
(***************************************************************************)
(* The wallet's configuration (config/src/config.rs): the file, the copy   *)
(* the process keeps, the lock under which it is saved, the notice a       *)
(* change sends, and the start of the process that writes or reads the     *)
(* file for the first time.  A configuration is a function from settings   *)
(* to values; a setting the program does not know is kept as it is.        *)
(***************************************************************************)
EXTENDS Naturals, FiniteSets

CONSTANTS
    Workers,     \* threads that read and change the configuration
    TorValues,   \* what the [tor] section can say
    MaxCrashes   \* bound: crashes, and operations that fail

(* A mutex nobody holds is "free".                                         *)
ASSUME ConfigAssumption == "free" \notin Workers

VARIABLES
    file,      \* the file: absent, torn, or its contents
    secret,    \* the API secret files
    cache,     \* CONFIG_INSTANCES: the configuration, or that there is none
    lock,      \* CONFIG_SAVE_LOCK: its holder
    wallet,    \* the wallet mutex: its holder
    job,       \* per worker: what it is doing
    start,     \* initial_setup_wallet
    chan,      \* the sender that is registered, and whether a notice waits
    crashes,
    legacy,    \* the file the process began with had no version
    bare       \* the secrets a create_config of this process has not made

cvars == <<file, secret, cache, lock, wallet, job, start, chan, crashes, legacy, bare>>

-----------------------------------------------------------------------------
(* Configurations.                                                         *)

Known == {"version", "tor"}
Default == [k \in Known |-> IF k = "version" THEN "2" ELSE "ext"]
Parse(c) == [k \in DOMAIN c \cap Known |-> c[k]]

NoFile == [is |-> "absent", has |-> Default]
Torn == [is |-> "torn", has |-> Default]
Whole(c) == [is |-> "whole", has |-> c]

NoCache == [is |-> "none", has |-> Default]
Cached(m) == [is |-> "cached", has |-> m]

(* merge_config: what is known and no longer set is removed, what is set   *)
(* is written, and the rest of the old file stays.                         *)
merge_config(old, new) ==
    LET removed == DOMAIN Parse(old) \ DOMAIN new
    IN  [k \in (DOMAIN old \ removed) \cup DOMAIN new |-> IF k \in DOMAIN new THEN new[k] ELSE old[k]]

(* migrate_config_file_version_none_to_2.                                  *)
NeedsMigration(c) == "version" \notin DOMAIN c
Migrated(c) == [k \in Known |-> IF k \in DOMAIN c THEN c[k] ELSE Default[k]]

(* Owner::set_tor_config(Some(v)), or (None), which switches Tor off.      *)
SetTor(m, v) == [k \in DOMAIN m \cup {"tor"} |-> IF k = "tor" THEN v ELSE m[k]]

-----------------------------------------------------------------------------
(* The secrets of the owner API and of the foreign API.                    *)

Secrets == {"owner", "api"}

(* check_api_secret_file: a secret file that is missing or empty is made   *)
(* again (one that is removed for that still counts as empty).             *)
(* Mutant: a file that is there is taken as it is.                         *)
check_api_secret_exists(s) == s # "absent"
check_api_secret(s) == s = "whole"

-----------------------------------------------------------------------------
(* The notice: the sender of the listener's current round, or of an        *)
(* earlier round, whose receiver is gone.                                  *)

NoChan == [tx |-> "none", waits |-> FALSE, rx |-> FALSE]

(* set_global_config: the copy is replaced and the listener told; a        *)
(* listener that is gone is taken off the list.                            *)
Notified ==
    CASE chan.tx = "current" /\ chan.rx -> [chan EXCEPT !.waits = TRUE]
      [] chan.tx = "none" -> chan
      [] OTHER -> [chan EXCEPT !.tx = "none"]

set_global_config(m) == cache' = Cached(m) /\ chan' = Notified

(* cache_loaded_config: a copy that is there already wins.                 *)
(* Mutant: what was loaded replaces it.                                    *)
cache_loaded_config_always(m) == Cached(m)
cache_loaded_config(m) == IF cache = NoCache THEN Cached(m) ELSE cache

-----------------------------------------------------------------------------
(* Workers.                                                                *)

NoWork == [at |-> "idle", m |-> "none", v |-> "none", buf |-> Default, old |-> Default]
Go(t, at) == job' = [job EXCEPT ![t].at = at]
Finish(t) == job' = [job EXCEPT ![t] = NoWork]
Up == start = "done"

Begin(t, m, v, at) ==
    /\ Up /\ job[t] = NoWork
    /\ job' = [job EXCEPT ![t] = [NoWork EXCEPT !.at = at, !.m = m, !.v = v]]

(* Owner::set_tor_config and set_top_level_directory hold the wallet mutex *)
(* around the save lock.                                                   *)
set_tor_config(t) ==
    /\ \E v \in TorValues : Begin(t, "update", v, "lock")
    /\ wallet = "free" /\ wallet' = t
    /\ UNCHANGED <<file, secret, cache, lock, start, chan, crashes, legacy, bare>>

reload_global_config(t) ==
    /\ Begin(t, "reload", "none", "lock")
    /\ wallet = "free" /\ wallet' = t
    /\ UNCHANGED <<file, secret, cache, lock, start, chan, crashes, legacy, bare>>

(* create_config, in a directory that has no configuration yet; it holds   *)
(* the wallet mutex to its end.                                            *)
create_config(t) ==
    /\ file.is = "absent" /\ Begin(t, "create", "none", "empty")
    /\ wallet = "free" /\ wallet' = t /\ bare' = Secrets
    /\ UNCHANGED <<file, secret, cache, lock, start, chan, crashes, legacy>>

(* get_global_config: from the copy, or else from the file, without the    *)
(* lock.                                                                   *)
get_global_config(t) ==
    /\ cache = NoCache
    /\ Begin(t, "get", "none", "read")
    /\ UNCHANGED <<file, secret, cache, lock, wallet, start, chan, crashes, legacy, bare>>

TakeLock(t) ==
    /\ job[t].at = "lock" /\ lock = "free" /\ lock' = t
    /\ Go(t, "read")
    /\ UNCHANGED <<file, secret, cache, wallet, start, chan, crashes, legacy, bare>>

Release(t) ==
    /\ lock' = IF lock = t THEN "free" ELSE lock
    /\ wallet' = IF wallet = t THEN "free" ELSE wallet

AfterRead(t) == CASE job[t].m = "update" -> "temp" [] job[t].m = "get" -> "insert" [] OTHER -> "set"

(* read_config.  A torn file cannot be parsed: the call ends in a panic or *)
(* an error.                                                               *)
read_config(t) ==
    /\ job[t].at = "read"
    /\ IF file.is # "whole"
       THEN Finish(t) /\ Release(t)
       ELSE /\ job' = [job EXCEPT ![t].buf = file.has,
                                  ![t].at = IF NeedsMigration(file.has) THEN "empty" ELSE AfterRead(t)]
            /\ UNCHANGED <<lock, wallet>>
    /\ UNCHANGED <<file, secret, cache, start, chan, crashes, legacy, bare>>

(* A new file and the migration of an old one are written in place:        *)
(* emptied first, then written.                                            *)
FileEmptied(t) ==
    /\ job[t].at = "empty" /\ Go(t, "fill")
    /\ file' = Torn
    /\ UNCHANGED <<secret, cache, lock, wallet, start, chan, crashes, legacy, bare>>

FileFilled(t) ==
    LET c == IF job[t].m = "create" THEN Default ELSE merge_config(job[t].buf, Migrated(job[t].buf))
    IN  /\ job[t].at = "fill"
        /\ file' = Whole(c)
        /\ job' = [job EXCEPT ![t].buf = c,
                              ![t].at = IF job[t].m = "create" THEN "lock" ELSE AfterRead(t)]
        /\ UNCHANGED <<secret, cache, lock, wallet, start, chan, crashes, legacy, bare>>

(* save_locked: the file is read once more, the new one written beside it  *)
(* and renamed over it.                                                    *)
WriteTemp(t) ==
    /\ job[t].at = "temp"
    /\ IF file.is # "whole"
       THEN Finish(t) /\ Release(t)
       ELSE job' = [job EXCEPT ![t].old = file.has, ![t].at = "rename"] /\ UNCHANGED <<lock, wallet>>
    /\ UNCHANGED <<file, secret, cache, start, chan, crashes, legacy, bare>>

NewMembers(t) == IF job[t].m = "update" THEN SetTor(Parse(job[t].buf), job[t].v) ELSE Parse(job[t].buf)

(* Mutant: the file itself is created anew, and written after that.        *)
Saved_in_place(t) == Torn
Saved(t) == Whole(merge_config(job[t].old, NewMembers(t)))

Rename(t) ==
    /\ job[t].at = "rename" /\ Go(t, "set")
    /\ file' = Saved(t)
    /\ UNCHANGED <<secret, cache, lock, wallet, start, chan, crashes, legacy, bare>>

SetConfig(t) ==
    /\ job[t].at = "set"
    /\ set_global_config(NewMembers(t))
    /\ IF job[t].m = "create"
       THEN Go(t, "secret") /\ lock' = "free" /\ UNCHANGED wallet
       ELSE Finish(t) /\ Release(t)
    /\ UNCHANGED <<file, secret, start, crashes, legacy, bare>>

InsertConfig(t) ==
    /\ job[t].at = "insert" /\ Finish(t)
    /\ cache' = cache_loaded_config(Parse(job[t].buf))
    /\ UNCHANGED <<file, secret, lock, wallet, start, chan, crashes, legacy, bare>>

(* The last part of create_config makes the secret of the foreign API.     *)
MakeSecret(f, is) == secret' = [secret EXCEPT ![f] = is]

CreateSecret(t) ==
    /\ \/ /\ job[t].at = "secret" /\ ~check_api_secret(secret["api"])
          /\ MakeSecret("api", "empty") /\ Go(t, "write") /\ UNCHANGED <<lock, wallet, bare>>
       \/ /\ \/ job[t].at = "secret" /\ check_api_secret(secret["api"]) /\ UNCHANGED secret
             \/ job[t].at = "write" /\ MakeSecret("api", "whole")
          /\ Finish(t) /\ Release(t) /\ bare' = bare \ {"api"}
    /\ UNCHANGED <<file, cache, start, chan, crashes, legacy>>

(* A file that cannot be read, created, written or renamed ends the job    *)
(* with what is done so far: the file may be torn, and a configuration     *)
(* made by create_config left without its secret.  (There an unwrap        *)
(* panics, which ends the request and lets go of the wallet mutex; the     *)
(* process stays up.)                                                      *)
JobFails(t) ==
    /\ job[t].at \in {"read", "empty", "fill", "temp", "rename", "secret", "write"}
    /\ crashes < MaxCrashes /\ crashes' = crashes + 1
    /\ Finish(t) /\ Release(t)
    /\ UNCHANGED <<file, secret, cache, start, chan, legacy, bare>>

WorkerStep(t) ==
    \/ TakeLock(t) \/ read_config(t) \/ FileEmptied(t) \/ FileFilled(t)
    \/ WriteTemp(t) \/ Rename(t) \/ SetConfig(t) \/ InsertConfig(t) \/ CreateSecret(t)

-----------------------------------------------------------------------------
(* The start of the process.                                               *)

(* initial_setup_wallet: a default file is written in place; a file that   *)
(* is there is read, and migrated in place.  One that is torn ends the     *)
(* start in a panic.                                                       *)
InPlace(c) == [is |-> "torn", has |-> c]   \* emptied, to be filled with c

SetupFile ==
    \/ /\ start = "begin" /\ file.is = "absent"
       /\ file' = InPlace(Default) /\ start' = "fill" /\ UNCHANGED <<cache, chan>>
    \/ /\ start = "begin" /\ file.is = "whole" /\ NeedsMigration(file.has)
       /\ file' = InPlace(merge_config(file.has, Migrated(file.has)))
       /\ start' = "fill" /\ UNCHANGED <<cache, chan>>
    \/ /\ start = "fill"
       /\ file' = Whole(file.has) /\ start' = "owner" /\ set_global_config(Parse(file.has))
    \/ /\ start = "begin" /\ file.is = "whole" /\ ~NeedsMigration(file.has)
       /\ start' = "owner" /\ set_global_config(Parse(file.has)) /\ UNCHANGED file
    \/ /\ start = "begin" /\ file.is = "torn"
       /\ start' = "panic" /\ UNCHANGED <<file, cache, chan>>

Setup == SetupFile /\ UNCHANGED <<secret, lock, wallet, job, crashes, legacy, bare>>

(* Both secrets are checked, one after the other.  A start that fails ends *)
(* the process: as far as the files go it is a crash.                      *)
Writing(f) == IF f = "owner" THEN "ownerWrite" ELSE "apiWrite"
AfterSecret(f) == IF f = "owner" THEN "api" ELSE "done"

SetupSecret ==
    /\ \E f \in Secrets :
         \/ start = f /\ ~check_api_secret(secret[f]) /\ start' = Writing(f) /\ MakeSecret(f, "empty")
         \/ start = f /\ check_api_secret(secret[f]) /\ start' = AfterSecret(f) /\ UNCHANGED secret
         \/ start = Writing(f) /\ start' = AfterSecret(f) /\ MakeSecret(f, "whole")
    /\ UNCHANGED <<file, cache, lock, wallet, job, chan, crashes, legacy, bare>>

(* The process dies and is started again.                                  *)
CrashConfig ==
    /\ crashes < MaxCrashes /\ crashes' = crashes + 1
    /\ cache' = NoCache /\ lock' = "free" /\ wallet' = "free" /\ chan' = NoChan
    /\ job' = [t \in Workers |-> NoWork] /\ start' = "begin" /\ bare' = {}
    /\ UNCHANGED <<file, secret, legacy>>

Future(c) == [k \in DOMAIN c \cup {"future"} |-> IF k = "future" THEN "x" ELSE c[k]]

(* No file yet, one of this version, or an old one, as the process starts; *)
(* or the owner has changed to a directory of which there is no copy yet.  *)
ConfigInit ==
    /\ \E f \in {NoFile, Whole(Future(Default)), Whole(Future([k \in {"tor"} |-> "off"]))} :
         /\ file = f
         /\ legacy = (f.is = "whole" /\ NeedsMigration(f.has))
         /\ start \in {"begin", "done"}
         /\ secret = [s \in Secrets |->
                        IF f.is = "whole" /\ start = "done" THEN "whole" ELSE "absent"]
    /\ cache = NoCache /\ lock = "free" /\ wallet = "free" /\ chan = NoChan
    /\ job = [t \in Workers |-> NoWork] /\ crashes = 0 /\ bare = {}

=============================================================================
