------------------------------ MODULE MCRepair ------------------------------
(***************************************************************************)
(* WalletCore with a history variable: quiet holds while nothing but the   *)
(* thread's own steps has happened since it started its job.               *)
(***************************************************************************)
EXTENDS MCWallet

VARIABLE quiet

Starting == \E t \in Threads : StartJob(t)
Working == \E t \in Threads : JobStep(t)

QuietInit == Init /\ quiet = FALSE
QuietNext ==
    \/ Starting /\ quiet' = TRUE
    \/ Working /\ quiet' = quiet
    \/ (ApiCall \/ ChainStep) /\ quiet' = FALSE

QuietSpec == QuietInit /\ [][QuietNext]_<<vars, quiet>>

(* The records agree with the chain: exactly the outputs of the UTXO set   *)
(* are spendable, or locked if the scan leaves locks alone.                *)
Holding(d, k, del) ==
    \E m \in BOOLEAN : d.outs[<<k, m>>].status \in
        IF del THEN {"Unspent"} ELSE {"Unspent", "Locked"}

Agrees(d, del) ==
    /\ \A k \in Key : k \in Utxo <=> Holding(d, k, del)
    /\ del => \A x \in Slot : d.outs[x].status \notin {"Locked", "Unconfirmed"}

(* A scan that runs undisturbed repairs the wallet: whatever mixture of    *)
(* cancelled, re-mined, reverted and half-finished transactions it starts  *)
(* from, the records agree with the chain at its end, unless the node is   *)
(* behind the height of the last refresh (the refresh is then skipped).    *)
ScanRepairs ==
    [][\A t \in Threads :
         (/\ quiet /\ th[t].pc = "children" /\ th[t].job = "scan"
          /\ th'[t].pc = "idle" /\ Height >= db.confH[active])
         => Agrees(db', th[t].del)]_<<vars, quiet>>

=============================================================================
