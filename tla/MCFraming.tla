----------------------------- MODULE MCFraming -----------------------------
(***************************************************************************)
(* Every envelope around one slate, and every slate of a small family in   *)
(* one envelope; beside them, as a system of its own, the swap requests of *)
(* Mixnet.                                                                 *)
(***************************************************************************)
EXTENDS Framing

AddrA == <<97, 98>>
AddrB == <<99>>
MCSenders == {<<>>, AddrA}
MCRecipLists == {<<>>, <<AddrB, AddrA>>}

Sig(x, p) == [xs |-> x, nonce |-> x + 1, part |-> p]
Com(x, p) == [f |-> 0, c |-> x, p |-> p]
Proof(s) == [saddr |-> 5, raddr |-> 6, rsig |-> s]
MCSlates ==
    {[version |-> 4, id |-> 11, sta |-> IF o[1] = 3 THEN "I2" ELSE "S1", off |-> 3, opts |-> o, sigs |-> g, coms |-> c,
      proof |-> p, lock |-> IF o[4] = 2 THEN 8 ELSE 0] :
        o \in {<<2, 0, 0, 0, 0>>, <<2, 7, 5, 0, 0>>, <<2, 0, 5, 0, 0>>, <<3, 7, 0, 2, 9>>, <<3, 7, 5, 2, 9>>},
        g \in {<<>>, <<Sig(20, <<>>)>>, <<Sig(20, <<30>>), Sig(22, <<>>)>>},
        c \in {<<>>, <<<<Com(40, <<>>), Com(41, <<50>>)>>>>},
        p \in {<<>>, <<Proof(<<>>)>>, <<Proof(<<60>>)>>}}

-----------------------------------------------------------------------------
CONSTANTS Q, W, Fee, Amounts, ServerLists, MaxReqs, MaxBuilt

VARIABLES outs, child, reqs, onion, which, peeled,
          codec   \* the system of this behaviour

M == INSTANCE Mixnet

swap == <<outs, child, reqs, onion, which, peeled>>

MCServerLists == {<<>>, <<1>>, <<1, 2>>, <<2, 3, 1>>}

CodecsInit ==
    \/ /\ codec = "slatepack" /\ Init
       /\ outs = {} /\ child = 0 /\ reqs = <<>> /\ onion = <<>> /\ which = 0 /\ peeled = <<>>
    \/ /\ codec = "mixnet" /\ M!Init
       /\ sp = NoPack /\ text = <<>> /\ how = "idle" /\ got = NoPack

CodecsNext ==
    \/ codec = "slatepack" /\ Next /\ UNCHANGED <<swap, codec>>
    \/ codec = "mixnet" /\ M!Next /\ UNCHANGED <<vars, codec>>

Codecs == CodecsInit /\ [][CodecsNext]_<<vars, swap, codec>>

(* A swap pays: the commitment that remains when all servers have peeled   *)
(* the onion made by create_mwixnet_req is that of the wallet's new output.*)
SwapPays == M!SwapPays

(* Only the server whose turn it is can read a layer (peel_layer).         *)
OnlyNextPeels == M!OnlyNextPeels

=============================================================================
