---------------------------- MODULE MCListener ----------------------------
(***************************************************************************)
(* The listener and the configuration for TLC.  The races of two workers   *)
(* over the file are explored while no listener was started, with every    *)
(* kind of file; the rounds of the listener with one worker that changes   *)
(* or reloads a configuration, of this version.                            *)
(***************************************************************************)
EXTENDS Listener

CONSTANTS Alone   \* the worker beside the listener

Races == lst.at = "down" /\ lst.mine = 0
Rounds == ~legacy /\ bare = {} /\ \A t \in Workers : job[t] = NoWork \/ (t = Alone /\ job[t].m # "get")
Apart == Races \/ Rounds
=============================================================================
