------------------------------ MODULE MCOwner ------------------------------
(***************************************************************************)
(* An instance of the owner server for TLC.                                *)
(***************************************************************************)
EXTENDS OwnerProps

(* What is taken together: the lifecycle with its faults, one client and   *)
(* one updater; or two clients; or two updaters; the last two with wallets *)
(* that stay as they were.                                                 *)
OneClient == \A c \in Clients \ {"c1"} : cl[c].key = 0 /\ req[c] = Idle
UpdatersIn(U) == \A u \in Updaters \ U : upd[u] = NoUpdater
Settled == op = NoOp /\ crashes = 0 /\ \A d \in Dirs : disk[d].db.init \in {"absent", "InitComplete"}

OneWallet == lc.dir = "d1" /\ \A d \in Dirs \ {"d1"} : disk[d] = NoDisk
NoFaults == crashes = 0 /\ op.kind \in {"none", "create"} /\ \A c \in Clients : job[c] = NoJob

OnceMore == crashes = 0 \/ lc.opens <= 1

Apart ==
    \/ OneClient /\ UpdatersIn({"u1"}) /\ inits <= 1 /\ OneWallet /\ OnceMore
    \/ OneClient /\ UpdatersIn({"u1"}) /\ inits <= 1 /\ NoFaults
    \/ UpdatersIn({}) /\ Settled
    \/ OneClient /\ inits <= 1 /\ Settled

=============================================================================
