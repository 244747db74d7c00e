----------------------------- MODULE MCRestore -----------------------------
(***************************************************************************)
(* Restore on small chains, with a bound on how much happens at once.      *)
(***************************************************************************)
EXTENDS Restore

CONSTANT Events   \* disturbances in one behaviour

(* An earlier wallet with three accounts, found in blocks of different     *)
(* batches, and a wallet that was never used.                              *)
Chains == {<<<<1, 0>>, <<2, 0>>, <<0, 1>>>>, <<<<>>, <<>>, <<>>>>}

Names == {<<"savings", 0>>, <<"account", 2>>}

(* Everything that is not the undisturbed work of one thread.  (A view     *)
(* reads nothing of the database and of the other jobs: it runs alone.)    *)
One(b) == IF b THEN 1 ELSE 0
Busy == {t \in Scanners : th[t].pc \notin {"idle", "ended"}}
Disturbances ==
    fails + crashes + Cardinality(spent) + (Tip - 3) + Cardinality(marks)
    + Cardinality(UserLabels \cap DOMAIN accts)
    + Cardinality({k \in Key : outs[k] = "Unconfirmed"})
    + One(active # 0) + 2 * One(view # NoView)
    + One(Busy = Scanners \/ lost # {})
    + Events * One(\E t \in Busy : th[t].kind = "view" /\ (Busy # {t} \/ \E k \in Key : outs[k] # "None"))

Apart == Disturbances <= Events
=============================================================================
