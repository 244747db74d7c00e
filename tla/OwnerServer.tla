---------------------------- MODULE OwnerServer ----------------------------
(***************************************************************************)
(* The owner API as a server (controller/src/controller.rs, api/src):      *)
(* clients that agree on a key and send sealed requests, the lifecycle     *)
(* operations they call, the mask shared with the foreign API, the         *)
(* background updater, and refreshes that let go of the wallet mutex       *)
(* between reading the wallet and writing to it.                           *)
(*                                                                         *)
(* A request is opened and handled when it arrives (a lifecycle operation  *)
(* and a refresh take more steps); its reply is sealed later, with the key *)
(* of that moment.                                                         *)
(***************************************************************************)
EXTENDS Lifecycle

CONSTANTS
    Clients,
    Updaters,    \* names for updater threads
    MaxKeys      \* bound: how often a key is agreed on

(* A client's thread is not the updater's.                                 *)
ASSUME OwnerAssumption == Clients \cap Updaters = {} /\ MaxKeys \in Nat

VARIABLES
    okey,      \* Owner::shared_key, 0 for None
    hkey,      \* OwnerAPIHandlerV3::shared_key
    smask,     \* keychain_mask, which the foreign API uses
    cl,        \* per client: its key and token
    req,       \* per client: its request
    job,       \* per thread: a refresh under way
    upd,       \* per updater thread: where it is, and the mask it was given
    running,   \* Owner::updater_running
    inits,     \* how many keys were made
    raced      \* two inits, or two opens, were under way at once

svars == <<okey, hkey, smask, cl, req, job, upd, running, inits, raced>>
vars == <<lvars, svars>>

Threads == Clients \cup Updaters

(* A request: the method, the key it was sealed with (0: plain), its       *)
(* result (a key, a mask; 0: none).                                        *)
Idle == [at |-> "idle", m |-> "none", key |-> 0, got |-> 0]
NoJob == [at |-> "none", words |-> "none", mask |-> 0]
NoUpdater == [at |-> "none", mask |-> 0]

(* A directory may hold a wallet that was made earlier.                    *)
Wallet(w, pw) ==
    [NoDisk EXCEPT !.seed = SeedFile(w, pw),
                   !.db = [there |-> TRUE, init |-> "InitComplete", holds |-> {w}]]

Init ==
    /\ LET d == CHOOSE d \in Dirs : TRUE
           w == CHOOSE w \in Words : TRUE
           pw == CHOOSE pw \in Passwords : TRUE
       IN  \E made \in BOOLEAN :
             /\ disk = [e \in Dirs |-> IF e = d /\ made THEN Wallet(w, pw) ELSE NoDisk]
             /\ owned = [e \in Dirs |-> IF e = d /\ made THEN {w} ELSE {}]
             /\ lc = [dir |-> d, backend |-> NoBackend, opens |-> 0]
    /\ op = NoOp /\ crashes = 0 /\ inits = 0
    /\ okey = 0 /\ hkey = 0 /\ smask = 0 /\ running = FALSE /\ raced = FALSE
    /\ cl = [c \in Clients |-> [key |-> 0, tok |-> 0]]
    /\ req = [c \in Clients |-> Idle]
    /\ job = [t \in Threads |-> NoJob] /\ upd = [u \in Updaters |-> NoUpdater]

-----------------------------------------------------------------------------
(* The envelope.  A sealed body is opened with the key it was sealed with. *)

decrypt(sealedWith, key) == key # 0 /\ sealedWith = key

(* call_api, up to the method: is_init_secure_api lets a plain call in,    *)
(* every other request must be sealed with the handler's key.              *)
Accepted(c, m) ==
    /\ req[c] = Idle
    /\ \/ decrypt(cl[c].key, hkey)
       \/ m = "init_secure_api"

Sealed(c) == IF decrypt(cl[c].key, hkey) THEN cl[c].key ELSE 0

InFlight(m) == {c \in Clients : req[c].m = m}

Arrive(c, m, at, got) ==
    /\ Accepted(c, m)
    /\ req' = [req EXCEPT ![c] = [at |-> at, m |-> m, key |-> Sealed(c), got |-> got]]
    /\ raced' = (raced \/ (m \in {"init_secure_api", "open_wallet"} /\ InFlight(m) # {}))

(* A request that is not accepted is answered with an error and changes    *)
(* nothing.                                                                *)

(* OwnerRpc::init_secure_api.                                              *)
init_secure_api(c) ==
    /\ inits < MaxKeys /\ inits' = inits + 1 /\ okey' = inits + 1
    /\ Arrive(c, "init_secure_api", "reply", inits + 1)
    /\ UNCHANGED <<lvars, hkey, smask, cl, job, upd, running>>

(* update_mask, then encrypt_response, with the handler's key of now; then *)
(* for init_secure_api the handler's key is replaced.                      *)
Reply(c) ==
    LET r == req[c]
        readable == r.key = 0 \/ decrypt(hkey, r.key)
    IN  /\ r.at = "reply"
        /\ smask' = IF r.m = "open_wallet" /\ r.got # 0 THEN r.got ELSE smask
        /\ cl' = IF ~readable THEN cl
                 ELSE CASE r.m = "init_secure_api" -> [cl EXCEPT ![c].key = r.got]
                        [] r.m = "open_wallet" /\ r.got # 0 -> [cl EXCEPT ![c].tok = r.got]
                        [] OTHER -> cl
        /\ req' = [req EXCEPT ![c] = IF r.m = "init_secure_api"
                                     THEN [r EXCEPT !.at = "key", !.got = okey] ELSE Idle]
        /\ UNCHANGED <<lvars, okey, hkey, job, upd, running, inits, raced>>

(* update_owner_api_shared_key, with the Owner's key as it was read.       *)
(* Mutant: the handler's key is never replaced once there is one.          *)
update_owner_api_shared_key_once(k) == IF hkey = 0 THEN k ELSE hkey
update_owner_api_shared_key(k) == k

SetKey(c) ==
    /\ req[c].at = "key"
    /\ hkey' = update_owner_api_shared_key(req[c].got)
    /\ req' = [req EXCEPT ![c] = Idle]
    /\ UNCHANGED <<lvars, okey, smask, cl, job, upd, running, inits, raced>>

-----------------------------------------------------------------------------
(* Lifecycle methods.  The wallet mutex is held until the operation ends.  *)

Quiet == UNCHANGED <<okey, hkey, smask, cl, job, upd, running, inits>>
Done(c, m) == Arrive(c, m, "reply", 0)

OpenWallet(c, pw) ==
    /\ open_wallet(pw, TRUE)
    /\ Arrive(c, "open_wallet", "reply", IF lc' = lc THEN 0 ELSE lc'.backend.mask)
    /\ Quiet

CloseWallet(c) == close_wallet /\ Done(c, "close_wallet") /\ Quiet

(* Owner::set_top_level_directory: not while the updater runs, nor while a *)
(* wallet is open.                                                         *)
SetTopLevelDirectory(c, d) ==
    /\ op = NoOp /\ ~running /\ ~IsOpen
    /\ lc' = [lc EXCEPT !.dir = d]
    /\ Done(c, "set_top_level_directory") /\ Quiet
    /\ UNCHANGED <<disk, op, owned, crashes>>

Long(c, m) == Arrive(c, m, "working", 0) /\ Quiet

CreateWallet(c) ==
    \E w \in Words, pw \in Passwords, typed \in BOOLEAN :
        create_wallet(w, pw, typed) /\ Long(c, "create_wallet")
ChangePassword(c) ==
    \E old, new \in Passwords : change_password(old, new) /\ Long(c, "change_password")
DeleteWallet(c) == delete_wallet /\ Long(c, "delete_wallet")

OpStep ==
    /\ OpSteps \/ WriteFails
    /\ req' = [c \in Clients |-> IF req[c].at = "working" /\ op' = NoOp
                                 THEN [req[c] EXCEPT !.at = "reply"] ELSE req[c]]
    /\ Quiet /\ UNCHANGED raced

-----------------------------------------------------------------------------
(* Methods with a token.                                                   *)

(* A batch that is committed: records of the seed whose keys were used.    *)
Written(w) ==
    IF lc.backend.linked
    THEN [disk EXCEPT ![lc.backend.dir].db.holds = @ \cup {w}]
    ELSE disk

(* The methods that take the wallet mutex once, from init_send_tx to       *)
(* finalize_tx and build_output: what they write is told in WalletCore.    *)
TokenMethod(c) ==
    /\ op = NoOp
    /\ disk' = IF keychain(cl[c].tok) THEN Written(lc.backend.words) ELSE disk
    /\ Done(c, "token") /\ Quiet
    /\ UNCHANGED <<lc, op, owned, crashes>>

(* ForeignAPIHandlerV2: a foreign request uses the shared mask.            *)
ForeignRequest ==
    /\ op = NoOp /\ keychain(smask)
    /\ disk' = Written(lc.backend.words)
    /\ UNCHANGED <<lc, op, owned, crashes, svars>>

(* retrieve_outputs, estimate_max_sendable, retrieve_txs and               *)
(* retrieve_summary_info refresh first, unless an updater is running.      *)
StartJob(t, mask) == [job EXCEPT ![t] = [at |-> "read", words |-> "none", mask |-> mask]]
RefreshFromNode == ~running

RefreshMethod(c) ==
    /\ Arrive(c, "retrieve", IF RefreshFromNode THEN "refresh" ELSE "reply", 0)
    /\ job' = IF RefreshFromNode THEN StartJob(c, cl[c].tok) ELSE job
    /\ UNCHANGED <<lvars, okey, hkey, smask, cl, upd, running, inits>>

(* A job ends: the client's method goes on to its reply; the updater goes  *)
(* to the end of its loop, or, on an error, its thread is over.            *)
JobEnds(t, ok) ==
    /\ job' = [job EXCEPT ![t] = NoJob]
    /\ IF t \in Clients
       THEN req' = [req EXCEPT ![t].at = "reply"] /\ UNCHANGED upd
       ELSE /\ upd' = [upd EXCEPT ![t] = IF ok THEN [@ EXCEPT !.at = "test"] ELSE NoUpdater]
            /\ UNCHANGED req

(* update_wallet_state: the wallet is read under the mutex, the node is    *)
(* asked without it, and the answer is written under it again, if the mask *)
(* still fits.  When the node is not reached it ends without an error.     *)
ReadWallet(t) ==
    /\ job[t].at = "read" /\ op = NoOp
    /\ \/ /\ keychain(job[t].mask)
          /\ job' = [job EXCEPT ![t].at = "apply", ![t].words = lc.backend.words]
          /\ UNCHANGED <<req, upd>>
       \/ keychain(job[t].mask) /\ JobEnds(t, TRUE)
       \/ ~keychain(job[t].mask) /\ JobEnds(t, FALSE)
    /\ UNCHANGED <<lvars, okey, hkey, smask, cl, running, inits, raced>>

ApplyUpdate(t) ==
    /\ job[t].at = "apply" /\ op = NoOp
    /\ IF keychain(job[t].mask)
       THEN /\ disk' = IF lc.backend.linked
                       THEN [Written(job[t].words) EXCEPT ![lc.backend.dir].db.init = "InitComplete"]
                       ELSE disk
            /\ JobEnds(t, TRUE)
       ELSE UNCHANGED disk /\ JobEnds(t, FALSE)
    /\ UNCHANGED <<lc, op, owned, crashes, okey, hkey, smask, cl, running, inits, raced>>

-----------------------------------------------------------------------------
(* The updater.                                                            *)

(* start_updater spawns a thread, which waits for the updater's mutex;     *)
(* every call spawns one.                                                  *)
StartUpdater(c) ==
    /\ \E u \in Updaters :
         /\ upd[u] = NoUpdater
         /\ upd' = [upd EXCEPT ![u] = [at |-> "queued", mask |-> cl[c].tok]]
    /\ Done(c, "start_updater")
    /\ UNCHANGED <<lvars, okey, hkey, smask, cl, job, running, inits>>

StopUpdater(c) ==
    /\ running' = FALSE
    /\ Done(c, "stop_updater")
    /\ UNCHANGED <<lvars, okey, hkey, smask, cl, job, upd, inits>>

(* Updater::run: the flag is set, then the loop begins.                    *)
RunUpdater(u) ==
    /\ upd[u].at = "queued" /\ \A v \in Updaters : upd[v].at \in {"none", "queued"}
    /\ running' = TRUE
    /\ upd' = [upd EXCEPT ![u].at = "check"]
    /\ UNCHANGED <<lvars, okey, hkey, smask, cl, req, job, inits, raced>>

CheckOpened(u) ==
    /\ upd[u].at = "check" /\ op = NoOp
    /\ upd' = [upd EXCEPT ![u].at = IF IsOpen THEN "update" ELSE "test"]
    /\ job' = IF IsOpen THEN StartJob(u, upd[u].mask) ELSE job
    /\ UNCHANGED <<lvars, okey, hkey, smask, cl, req, running, inits, raced>>

(* Mutant: the loop does not look at the flag.                             *)
is_running_ignored == TRUE
is_running == running

TestRunning(u) ==
    /\ upd[u].at = "test"
    /\ upd' = [upd EXCEPT ![u] = IF is_running THEN [@ EXCEPT !.at = "check"] ELSE NoUpdater]
    /\ UNCHANGED <<lvars, okey, hkey, smask, cl, req, job, running, inits, raced>>

UpdaterStep(u) ==
    RunUpdater(u) \/ CheckOpened(u) \/ ReadWallet(u) \/ ApplyUpdate(u) \/ TestRunning(u)

(* The process dies and is started again; the clients do not notice.       *)
Crash ==
    /\ crashes < MaxCrashes /\ crashes' = crashes + 1
    /\ lc' = [lc EXCEPT !.backend = NoBackend] /\ op' = NoOp
    /\ okey' = 0 /\ hkey' = 0 /\ smask' = 0 /\ running' = FALSE /\ raced' = FALSE
    /\ req' = [c \in Clients |-> Idle]
    /\ job' = [t \in Threads |-> NoJob] /\ upd' = [u \in Updaters |-> NoUpdater]
    /\ UNCHANGED <<disk, owned, cl, inits>>

Request(c) ==
    \/ init_secure_api(c)
    \/ \E pw \in Passwords : OpenWallet(c, pw)
    \/ \E d \in Dirs : SetTopLevelDirectory(c, d)
    \/ CloseWallet(c) \/ CreateWallet(c) \/ ChangePassword(c) \/ DeleteWallet(c)
    \/ TokenMethod(c) \/ RefreshMethod(c)
    \/ StartUpdater(c) \/ StopUpdater(c)

Next ==
    \/ \E c \in Clients :
         Request(c) \/ Reply(c) \/ SetKey(c) \/ ReadWallet(c) \/ ApplyUpdate(c)
    \/ \E u \in Updaters : UpdaterStep(u)
    \/ ForeignRequest \/ OpStep \/ Crash

(* Threads run, and the mutexes (parking_lot) are eventually fair: an      *)
(* updater that waits for the wallet gets it.                              *)
Fairness == WF_vars(OpStep) /\ \A u \in Updaters : SF_vars(UpdaterStep(u))

Spec == Init /\ [][Next]_vars /\ Fairness

=============================================================================
