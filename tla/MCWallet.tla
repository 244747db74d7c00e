------------------------------ MODULE MCWallet ------------------------------
(***************************************************************************)
(* WalletCore for TLC: slates and threads are model values.                *)
(***************************************************************************)
EXTENDS WalletProps, TLC

(* Threads run the same code and are not ordered.                          *)
ThreadSymmetry == Permutations(Threads)

(* What is taken together in the run MCRepair: invoices, issued and paid,  *)
(* with updates; or coinbases, with updates and scans; or a payment, with  *)
(* a reorganisation and scans.                                             *)
Untouched(S) ==
    S \cap issued = {} /\ \A s \in S : db.ctxs[s] = NoContext /\ TxsWithSlate(db, s) = {}
NoCoinbase == (\A x \in Slot : db.outs[x].cb = 0) /\ \A tx \in signed : tx.cb = 0
JobsIn(J) == \A t \in Threads : th[t].job \in J \cup {"none"}

Apart ==
    \/ NoCoinbase /\ JobsIn({"update"}) /\ Height <= 1 /\ reorgs = 0 /\ Untouched(SendSlates)
    \/ Untouched(Slates) /\ reorgs = 0
    \/ Untouched(InvSlates \cup PaySlates) /\ NoCoinbase /\ JobsIn({"scan"})

(* In the run MCThreads, a payment or coinbases.                           *)
CoinbaseAlone == NoCoinbase \/ Untouched(Slates)

(* In the run MCLive, a payment has change or it may expire.  Only the     *)
(* choice of init_send_tx is restricted: no step of a job is cut off.      *)
ChangeOrExpiry == \A s \in Slates : db.ctxs[s].outs = {} \/ db.ctxs[s].ttl = 0

=============================================================================
