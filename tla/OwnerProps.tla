----------------------------- MODULE OwnerProps -----------------------------
(***************************************************************************)
(* What the owner server promises over restarts, reopened wallets and      *)
(* concurrent clients.                                                     *)
(***************************************************************************)
EXTENDS OwnerServer

(* Every seed a wallet was made from is still there, whole, in the seed    *)
(* file or in a backup of it, whatever write failed and wherever the       *)
(* process died during create_wallet or change_password.                   *)
SeedKept ==
    \A d \in Dirs : \A w \in owned[d] :
        \/ disk[d].seed.whole /\ disk[d].seed.words = w
        \/ \E i \in 1 .. MaxBaks : disk[d].baks[i].whole /\ disk[d].baks[i].words = w

(* While no init_secure_api and no open_wallet is under way, and none ever *)
(* overlapped another of its kind, the handler's key is one that a client  *)
(* holds and the mask the foreign API uses fits the wallet that is open.   *)
SharedStateAgrees ==
    ~raced /\ InFlight("init_secure_api") \cup InFlight("open_wallet") = {} =>
        /\ hkey # 0 => \E c \in Clients : cl[c].key = hkey
        /\ hkey = okey
        /\ IsOpen => smask = lc.backend.mask

(* What a refresh read from one wallet is never written into another: the  *)
(* records a step adds to a database are those of the seed the wallet was  *)
(* opened with there, although the wallet may have been closed, replaced   *)
(* and opened again since the refresh read it.                             *)
WritesOwn ==
    [][\A d \in Dirs : \A w \in disk'[d].db.holds \ disk[d].db.holds :
         lc.backend.dir = d /\ lc.backend.words = w]_vars

(* An updater whose flag is cleared stops, unless it is set again by       *)
(* another one that starts.                                                *)
Stops ==
    \A u \in Updaters :
        (upd[u].at \notin {"none", "queued"} /\ ~running) ~> (upd[u].at = "none" \/ running)

=============================================================================
