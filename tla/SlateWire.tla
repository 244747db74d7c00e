------------------------------ MODULE SlateWire ------------------------------
(***************************************************************************)
(* What becomes of a slate between two wallets: SlateV4 and its binary and *)
(* JSON forms (slate_versions/), the slatepack around the binary form, its *)
(* encryption and its armor (slatepack/).                                  *)
(***************************************************************************)
EXTENDS SlateOps, Sequences, SequencesExt

-----------------------------------------------------------------------------
(* SlateV4: the transaction is replaced by its commitments, an output      *)
(* being a commitment that carries a range proof.                          *)

Option(x, none) == IF x = none THEN <<>> ELSE <<x>>
OrElse(o, none) == IF o = <<>> THEN none ELSE o[1]

ComsOf(tx) ==
    IF tx = NoTx THEN <<>>
    ELSE <<{[c |-> c, p |-> FALSE] : c \in tx.ins} \cup {[c |-> c, p |-> TRUE] : c \in tx.outs}>>

SigsOf(parts) == {[xs |-> k, part |-> Option(parts[k], NoSig)] : k \in DOMAIN parts}

SlateV4(sl) ==
    [id |-> sl.id, sta |-> sl.state, off |-> sl.offset, num_parts |-> sl.np,
     amt |-> sl.amount, fee |-> sl.fee, ttl |-> sl.ttl, sigs |-> SigsOf(sl.parts),
     coms |-> ComsOf(sl.tx), proof |-> Option(sl.proof, NoProof)]

PartsOf(sigs) ==
    [k \in {g.xs : g \in sigs} |-> OrElse((CHOOSE g \in sigs : g.xs = k).part, NoSig)]

(* tx_from_slate_v4 computes excess and signature again from what is in    *)
(* the slate; a signature that does not verify is left blank.              *)
tx_from_slate_v4(v4) ==
    IF v4.coms = <<>> THEN NoTx
    ELSE LET calc == [parts |-> PartsOf(v4.sigs), fee |-> v4.fee]
         IN  [ins |-> {x.c : x \in {y \in v4.coms[1] : ~y.p}},
              outs |-> {x.c : x \in {y \in v4.coms[1] : y.p}},
              fee |-> v4.fee, excess |-> calc_excess(calc),
              signed |-> finalize_signature(calc), offset |-> v4.off]

SlateFromV4(v4) ==
    [id |-> v4.id, state |-> v4.sta, tx |-> tx_from_slate_v4(v4), np |-> v4.num_parts,
     amount |-> v4.amt, fee |-> v4.fee, ttl |-> v4.ttl, offset |-> v4.off,
     parts |-> PartsOf(v4.sigs), proof |-> OrElse(v4.proof, NoProof)]

-----------------------------------------------------------------------------
(* The binary form: a status byte says which optional fields follow, in a  *)
(* fixed order, and a reader takes the others for their defaults.          *)

OptRank == [num_parts |-> 1, amt |-> 2, fee |-> 3, ttl |-> 4]
OptDefault == [num_parts |-> 2, amt |-> 0, fee |-> 0, ttl |-> 0]

StateByte == <<"S1", "S2", "S3", "I1", "I2", "I3">>
write_state(sta) == IF \E b \in 1 .. 6 : StateByte[b] = sta
                    THEN CHOOSE b \in 1 .. 6 : StateByte[b] = sta ELSE 0
read_state(b) == IF b \in 1 .. 6 THEN StateByte[b] ELSE "NA"

(* Where a field stands among those that are written.                      *)
Place(fs, f) == Cardinality({g \in fs : OptRank[g] <= OptRank[f]})

write_opts(v4) ==
    LET present == {f \in DOMAIN OptDefault : v4[f] # OptDefault[f]}
    IN  [status |-> present,
         body |-> [i \in 1 .. Cardinality(present) |->
                      v4[CHOOSE f \in present : Place(present, f) = i]]]

read_opts(b) ==
    [f \in DOMAIN OptDefault |->
        IF f \in b.status THEN b.body[Place(b.status, f)] ELSE OptDefault[f]]

write_bin(v4) ==
    [id |-> v4.id, sta |-> write_state(v4.sta), off |-> v4.off, opts |-> write_opts(v4),
     sigs |-> v4.sigs, structs |-> <<v4.coms, v4.proof>>]

read_bin(b) ==
    LET o == read_opts(b.opts)
    IN  [id |-> b.id, sta |-> read_state(b.sta), off |-> b.off, num_parts |-> o["num_parts"],
         amt |-> o["amt"], fee |-> o["fee"], ttl |-> o["ttl"], sigs |-> b.sigs,
         coms |-> b.structs[1], proof |-> b.structs[2]]

(* The JSON form, used over Tor: an object without the members that have   *)
(* their default.                                                          *)
JsonDefault == [num_parts |-> 2, amt |-> 0, fee |-> 0, ttl |-> 0,
                off |-> EmptyBag, coms |-> <<>>, proof |-> <<>>]

write_json(v4) ==
    [f \in {g \in DOMAIN v4 : g \notin DOMAIN JsonDefault \/ v4[g] # JsonDefault[g]} |-> v4[f]]
read_json(j) == [f \in DOMAIN j \cup DOMAIN JsonDefault |->
                    IF f \in DOMAIN j THEN j[f] ELSE JsonDefault[f]]

-----------------------------------------------------------------------------
(* Slatepacks.  Mode 0 is plain text; in mode 1 the payload is readable    *)
(* with a recipient's key only and holds the sender as well.               *)

Nobody == <<>>

try_encrypt_payload(sp, recipients) ==
    IF recipients = {} THEN sp
    ELSE [sp EXCEPT !.mode = 1, !.sender = Nobody, !.to = recipients,
                    !.payload = [meta |-> [sender |-> sp.sender], slate |-> sp.payload]]

(* dec_key is the address whose secret key is tried; the wrong one fails.  *)
CanDecrypt(sp, addr) == sp.mode = 0 \/ addr \in sp.to
try_decrypt_payload(sp, addr) ==
    IF sp.mode = 0 THEN sp
    ELSE [sp EXCEPT !.mode = 0, !.sender = sp.payload.meta.sender, !.to = {},
                    !.payload = sp.payload.slate]

create_slatepack(sl, sender, recipients) ==
    try_encrypt_payload([mode |-> 0, sender |-> sender, to |-> {},
                         payload |-> write_bin(SlateV4(sl))], recipients)

(* Armor: framing and a checksum over the bytes; damaged text is refused.  *)
armor(sp) == [check |-> sp, data |-> sp]
CanDecode(a) == a.check = a.data

create_slatepack_message(sl, sender, recipients) ==
    armor(create_slatepack(sl, sender, recipients))

(* slate_from_slatepack_message with the key of one address, which is what *)
(* the commands use; decode_slatepack_message then gives the sender.       *)
Readable(a, addr) == CanDecode(a) /\ CanDecrypt(a.data, addr)
get_slate(a, addr) == SlateFromV4(read_bin(try_decrypt_payload(a.data, addr).payload))
get_sender(a, addr) == try_decrypt_payload(a.data, addr).sender

(* The foreign API's receive_tx and finalize_tx take and give JSON.        *)
over_tor(sl) == SlateFromV4(read_json(write_json(SlateV4(sl))))

=============================================================================
