------------------------------ MODULE Listener ------------------------------
(***************************************************************************)
(* The foreign listener (controller/src/controller.rs) that follows the    *)
(* configuration: each round registers for changes, reads the settings,    *)
(* takes its key from the wallet, starts the API server and the Tor        *)
(* service, and is stopped by a watcher thread when a notice arrives.      *)
(* The Tor service is a process of its own (impls/src/tor/process.rs) or   *)
(* runs inside the wallet (impls/src/tor/arti.rs).                         *)
(***************************************************************************)
EXTENDS Config

CONSTANTS MaxProcs   \* bound: Tor processes that are launched

VARIABLES
    lst,       \* the listener thread: where it is, its settings, and the
               \* Tor process it owns (_tor_service; 0: none)
    opened,    \* a wallet is open
    watch,     \* the watcher thread of this round
    restart,   \* restart_needed
    stop,      \* a message waits in the API server's stop channel
    procs,     \* Tor processes that run
    launched,  \* how many were launched
    pid,       \* the pid file: 0 absent, or a process
    torn,      \* the pid file is empty, or was not written yet
    served,    \* the onion service inside the wallet runs
    hs,        \* the onion service's directory: absent, made, or with its key files
    orphans    \* Tor processes that were launched and never noted

tvars == <<procs, launched, pid, torn, served, hs, orphans>>
lvars == <<lst, opened, watch, restart, stop>>
vars == <<cvars, lvars, tvars>>

Listening == lst.at # "down"
To(at) == lst' = [lst EXCEPT !.at = at]

Init ==
    /\ ConfigInit
    /\ lst = [at |-> "down", tor |-> "off", mine |-> 0, own |-> 0] /\ opened = TRUE
    /\ watch = "none" /\ restart = FALSE /\ stop = FALSE
    /\ procs = {} /\ launched = 0 /\ pid = 0 /\ torn = FALSE /\ served = FALSE
    /\ hs = "absent" /\ orphans = {}

-----------------------------------------------------------------------------
(* The rounds of foreign_listener.                                         *)

Listen ==
    /\ Up /\ lst.at = "down" /\ To("register")
    /\ UNCHANGED <<cvars, opened, watch, restart, stop, tvars>>

(* register_config_listener: the configuration is loaded if need be, and   *)
(* the sender of a new channel takes the place of the old one.  (A load    *)
(* that migrates an old file is one step here; those of the start and of   *)
(* the workers take two.)                                                  *)
register_config_listener ==
    /\ lst.at = "register" /\ To("config")
    /\ IF cache # NoCache THEN UNCHANGED <<cache, file>>
       ELSE /\ file.is = "whole" /\ cache' = Cached(Migrated(file.has))
            /\ file' = Whole(merge_config(file.has, Migrated(file.has)))
    /\ chan' = [tx |-> "current", waits |-> FALSE, rx |-> TRUE]
    /\ watch' = "none" /\ restart' = FALSE /\ stop' = FALSE
    /\ UNCHANGED <<secret, lock, wallet, job, start, crashes, legacy, bare, opened, tvars>>

(* It ends when the file cannot be read.                                   *)
RegisterFails ==
    /\ lst.at = "register" /\ cache = NoCache /\ file.is # "whole" /\ To("down")
    /\ UNCHANGED <<cvars, opened, watch, restart, stop, tvars>>

(* listener_tor_config.                                                    *)
(* Mutant: the settings of the last round are used again.                  *)
listener_tor_config_kept == IF lst.mine = 0 THEN cache.has["tor"] ELSE lst.tor
listener_tor_config == cache.has["tor"]

ReadTorConfig ==
    /\ lst.at = "config"
    /\ lst' = [lst EXCEPT !.at = "wallet", !.tor = listener_tor_config, !.mine = 1]
    /\ UNCHANGED <<cvars, opened, watch, restart, stop, tvars>>

(* The key is taken from the open wallet; with none the listener ends, and *)
(* its receiver with it.                                                   *)
TakeKey ==
    /\ lst.at = "wallet" /\ wallet = "free"
    /\ IF opened THEN To("serve") /\ UNCHANGED chan
       ELSE To("down") /\ chan' = [chan EXCEPT !.rx = FALSE, !.waits = FALSE]
    /\ UNCHANGED <<file, secret, cache, lock, wallet, job, start, crashes, legacy, bare, opened, watch,
                   restart, stop, tvars>>

(* The API server does not start: the listener ends.                       *)
ApiFails ==
    /\ lst.at = "serve" /\ To("down") /\ chan' = [chan EXCEPT !.rx = FALSE, !.waits = FALSE]
    /\ UNCHANGED <<file, secret, cache, lock, wallet, job, start, crashes, legacy, bare, opened, watch,
                   restart, stop, tvars>>

(* The watcher starts after the Tor service did, or failed to.             *)
Watch ==
    /\ lst.at = "started" /\ To("join") /\ watch' = "recv"
    /\ UNCHANGED <<cvars, opened, restart, stop, tvars>>

(* The watcher: the flag is set before the server is told to stop.         *)
(* Mutant: the server is told first.                                       *)
WatcherSteps_swapped == <<"stop", "flag">>
WatcherSteps == <<"flag", "stop">>

Received ==
    /\ watch = "recv" /\ chan.waits /\ watch' = "first"
    /\ chan' = [chan EXCEPT !.waits = FALSE, !.rx = FALSE]
    /\ UNCHANGED <<file, secret, cache, lock, wallet, job, start, crashes, legacy, bare, lst, opened,
                   restart, stop, tvars>>

WatcherActs ==
    /\ watch \in {"first", "second"}
    /\ watch' = IF watch = "first" THEN "second" ELSE "none"
    /\ LET what == WatcherSteps[IF watch = "first" THEN 1 ELSE 2]
       IN  /\ restart' = (restart \/ what = "flag")
           /\ stop' = (stop \/ what = "stop")
    /\ UNCHANGED <<cvars, lst, opened, tvars>>

(* The API thread was joined: the onion service inside is stopped, the     *)
(* Tor process of this round dropped.                                      *)
Joined ==
    /\ lst.at = "join" /\ stop /\ stop' = FALSE
    /\ served' = (served /\ lst.tor # "int")
    /\ lst' = [lst EXCEPT !.at = IF restart THEN "register" ELSE "down", !.own = 0]
    /\ chan' = IF restart THEN chan ELSE [chan EXCEPT !.tx = "none"]
    /\ procs' = procs \ {lst.own}
    /\ UNCHANGED <<file, secret, cache, lock, wallet, job, start, crashes, legacy, bare, opened,
                   watch, restart, launched, pid, torn, hs, orphans>>

(* stop_tor_service takes the service out and shuts it down, and fails     *)
(* when its worker panicked or the lock of its state cannot be had: the    *)
(* listener then ends, restart_needed or not, and stays on the list.       *)
StopFails ==
    /\ lst.at = "join" /\ stop /\ lst.tor = "int" /\ served
    /\ crashes < MaxCrashes /\ crashes' = crashes + 1
    /\ To("down") /\ stop' = FALSE /\ served' = FALSE
    /\ UNCHANGED <<file, secret, cache, lock, wallet, job, start, chan, legacy, bare, opened, watch,
                   restart, procs, launched, pid, torn, hs, orphans>>

-----------------------------------------------------------------------------
(* Tor.                                                                    *)

NoTor ==
    /\ lst.at = "serve" /\ lst.tor = "off" /\ To("started")
    /\ UNCHANGED <<cvars, opened, watch, restart, stop, tvars>>

(* start_tor_service, inside the wallet; it may fail.                      *)
start_tor_service ==
    /\ lst.at = "serve" /\ lst.tor = "int" /\ To("started")
    /\ served' \in {TRUE, served}
    /\ UNCHANGED <<cvars, opened, watch, restart, stop, procs, launched, pid, torn, hs, orphans>>

(* output_onion_service_config: a directory that is there is taken as it   *)
(* is; a new one gets its key files after it was made.                     *)
OnionDir ==
    /\ lst.at = "serve" /\ lst.tor = "ext"
    /\ IF hs = "absent" THEN To("files") /\ hs' = "dir" ELSE To("launch") /\ hs' = hs
    /\ UNCHANGED <<cvars, opened, watch, restart, stop, procs, launched, pid, torn, served, orphans>>

OnionFiles ==
    /\ lst.at = "files" /\ To("launch") /\ hs' = "whole"
    /\ UNCHANGED <<cvars, opened, watch, restart, stop, procs, launched, pid, torn, served, orphans>>

(* TorProcess::launch: the process the pid file names is killed, a new one *)
(* started, and the file written.  An empty pid file is an error.          *)
(* Mutant: the old process is left alone.                                  *)
KilledFirst_none == {}
KilledFirst == {pid}

Launch ==
    /\ lst.at = "launch" /\ ~torn /\ launched < MaxProcs
    /\ To("pid") /\ launched' = launched + 1
    /\ procs' = (procs \ KilledFirst) \cup {launched + 1}
    /\ UNCHANGED <<cvars, opened, watch, restart, stop, pid, torn, served, hs, orphans>>

(* It fails before there is a new process: the onion service's directory   *)
(* or the pid file are no good, or the program is not found (the old       *)
(* process was killed by then).                                            *)
LaunchFails ==
    /\ lst.tor = "ext" /\ lst.at \in {"serve", "files", "launch"} /\ To("started")
    /\ \/ UNCHANGED procs
       \/ lst.at = "launch" /\ ~torn /\ procs' = procs \ KilledFirst
    /\ UNCHANGED <<cvars, opened, watch, restart, stop, launched, pid, torn, served, hs, orphans>>

PidEmptied ==
    /\ lst.at = "pid" /\ ~torn /\ torn' = TRUE /\ pid' = 0
    /\ UNCHANGED <<cvars, lvars, procs, launched, served, hs, orphans>>

PidWritten ==
    /\ lst.at = "pid" /\ torn /\ torn' = FALSE /\ pid' = launched
    /\ lst' = [lst EXCEPT !.at = "bootstrap", !.own = launched]
    /\ UNCHANGED <<cvars, opened, watch, restart, stop, procs, launched, served, hs, orphans>>

(* The pid file cannot be created, or not be written and is left empty:    *)
(* launch returns without the process, which goes on, neither owned nor    *)
(* noted.                                                                  *)
PidFails ==
    /\ lst.at = "pid" /\ To("started")
    /\ crashes < MaxCrashes /\ crashes' = crashes + 1
    /\ orphans' = orphans \cup {launched}
    /\ UNCHANGED <<file, secret, cache, lock, wallet, job, start, chan, legacy, bare, opened, watch,
                   restart, stop, procs, launched, pid, torn, served, hs>>

(* The first of the bootstrap's end and the timeout; on an error the       *)
(* process is killed.  The listener goes on without Tor.                   *)
Bootstrap ==
    /\ lst.at = "bootstrap"
    /\ \/ To("started") /\ UNCHANGED procs
       \/ lst' = [lst EXCEPT !.at = "started", !.own = 0] /\ procs' = procs \ {pid}
    /\ UNCHANGED <<cvars, opened, watch, restart, stop, launched, pid, torn, served, hs, orphans>>

-----------------------------------------------------------------------------
(* The owner opens and closes the wallet.                                  *)
OpenClose ==
    /\ Up /\ wallet = "free" /\ opened' = ~opened
    /\ UNCHANGED <<cvars, lst, watch, restart, stop, tvars>>

(* A killed wallet leaves its Tor process behind.                          *)
Crash ==
    /\ CrashConfig
    /\ lst' = [lst EXCEPT !.at = "down", !.own = 0] /\ watch' = "none"
    /\ restart' = FALSE /\ stop' = FALSE /\ served' = FALSE
    /\ orphans' = orphans \cup (IF lst.at = "pid" THEN {launched} ELSE {})
    /\ UNCHANGED <<opened, procs, launched, pid, torn, hs>>

ListenerStep ==
    \/ register_config_listener \/ RegisterFails \/ ReadTorConfig \/ TakeKey \/ Watch \/ Joined
    \/ NoTor \/ start_tor_service \/ OnionDir \/ OnionFiles \/ Launch \/ LaunchFails \/ PidEmptied \/ PidWritten \/ Bootstrap
WatcherStep == Received \/ WatcherActs

Work(t) == WorkerStep(t) /\ UNCHANGED <<lvars, tvars>>

Next ==
    \/ Listen \/ ListenerStep \/ WatcherStep \/ OpenClose \/ Crash
    \/ ApiFails \/ StopFails \/ PidFails
    \/ \E t \in Workers :
         \/ Work(t)
         \/ (set_tor_config(t) \/ create_config(t) \/ get_global_config(t) \/ JobFails(t))
            /\ UNCHANGED <<lvars, tvars>>
         \/ reload_global_config(t) /\ ~opened /\ UNCHANGED <<lvars, tvars>>
    \/ (Setup \/ SetupSecret) /\ UNCHANGED <<lvars, tvars>>

(* Threads run, and a mutex that is let go of is eventually had.  Nothing  *)
(* has to fail.                                                            *)
Fairness ==
    /\ SF_vars(ListenerStep) /\ WF_vars(WatcherStep)
    /\ \A t \in Workers : SF_vars(Work(t))

Spec == Init /\ [][Next]_vars /\ Fairness

-----------------------------------------------------------------------------
(* What a careful reader of the code would want to hold.  A file without a *)
(* version is migrated in place and without the save lock: where that      *)
(* matters the properties are about files that have one.                   *)

(* No crash, failed save or other thread leaves a file that was whole      *)
(* incomplete (save_locked renames a finished file over it), and settings  *)
(* this version does not know survive every save and migration             *)
(* (merge_config): a file without a version has them again when it is      *)
(* whole again.                                                            *)
ConfigIntact ==
    [][/\ ~legacy /\ file.is = "whole" => file'.is = "whole"
       /\ file'.is = "whole" /\ (legacy \/ (file.is = "whole" /\ "future" \in DOMAIN file.has))
            => "future" \in DOMAIN file'.has]_vars

(* Outside of the step from the rename to set_global_config, the copy in   *)
(* memory is what the file says, whichever of a first load, an update and  *)
(* a reload ended last.                                                    *)
CacheFresh ==
    ~legacy /\ cache # NoCache /\ file.is = "whole" /\ (\A t \in Workers : job[t].at # "set")
        => cache.has = Parse(file.has)

(* A wallet that is up and has a configuration has both API secrets, even  *)
(* if an earlier start, or create_config, ended between making the file    *)
(* and writing them; but for those a create_config of the same process     *)
(* has not made: it fails before, or is not done yet, and the one of the   *)
(* owner API it never makes.                                               *)
SecretWhole == Up /\ file # NoFile => \A f \in Secrets \ bare : secret[f] = "whole"

(* One Tor process at most is left running by the listener, over restarts  *)
(* of the listener and of the wallet, beside those whose id never got into *)
(* the pid file, because the wallet died or the file could not be written; *)
(* and the onion service inside runs only while the listener is configured *)
(* for it.                                                                 *)
OneTor == Cardinality(procs \ orphans) <= 1 /\ (served => lst.tor = "int")

(* A change of the configuration restarts a listener and does not end it:  *)
(* what ends one is the death of the process or an onion service inside    *)
(* that cannot be stopped.                                                 *)
RestartsNotEnds ==
    [][lst.at = "join" /\ lst'.at = "down" => ~Up' \/ (served /\ ~served' /\ crashes' > crashes)]_vars

(* When the configuration stays as it is and the listener is up, it ends   *)
(* up running with these settings: no change is missed, wherever in a      *)
(* round it happened.                                                      *)
ListenerFollows ==
    \A v \in TorValues :
        <>[](Listening /\ cache # NoCache /\ cache.has["tor"] = v) => <>[](lst.tor = v)

=============================================================================
