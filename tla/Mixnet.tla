------------------------------- MODULE Mixnet -------------------------------
(***************************************************************************)
(* Swap requests for a mixnet (libwallet/src/mwixnet and                   *)
(* create_mwixnet_req): an output of the wallet is handed to a chain of    *)
(* servers in an onion, each layer of which tells one server by how much   *)
(* to change the output's commitment, so that the last holds a new output  *)
(* of the wallet.                                                          *)
(*                                                                         *)
(* A commitment v*H + r*G is the pair of v and r, blinding factors live in *)
(* a group of order Q.  A secret key is a number, its public key the same  *)
(* number; a shared secret is the set of its two keys.  An encrypted byte  *)
(* is a value and the set of key stream bytes it is masked with.           *)
(***************************************************************************)
EXTENDS Integers, Sequences, FiniteSets, SequencesExt, Functions

CONSTANTS
    Q,             \* order of the group of blinding factors
    W,             \* amounts are numbers below W (2^64)
    Fee,           \* tx_fee(1, 1, 1)
    Amounts,       \* amounts of the wallet's outputs
    ServerLists,   \* lists of server keys, 1 .. 9
    MaxReqs,       \* requests made
    MaxBuilt       \* outputs built beside them

VARIABLES
    outs,     \* the wallet's outputs: key id, amount, status, whether by MMR index
    child,    \* the next child index
    reqs,     \* requests made: output, new output, servers, onion, signature
    onion,    \* the onion under way
    which,    \* the request it belongs to; 0 if none is under way
    peeled    \* the payloads taken off it

-----------------------------------------------------------------------------
(* Commitments.                                                            *)

Blind(amount, key) == (amount + 3 * key + 1) % Q

commit(value, blind) == [v |-> value, r |-> blind % Q]
commit_sum(a, b) == [v |-> a.v + b.v, r |-> (a.r + b.r) % Q]
add_excess(c, excess) == commit_sum(c, commit(0, excess))
sub_value(c, value) == [c EXCEPT !.v = @ - value]

(* BlindingFactor::split                                                   *)
split(a, b) == (a - b) % Q

CommitOf(o) == commit(o.amount, Blind(o.amount, o.key))

-----------------------------------------------------------------------------
(* The commitment signature: s*H + t*G = e*C + R holds for an e that       *)
(* hashes commitment, nonce and message, if the signer knew C's opening.   *)

calc_challenge(c, nonce, msg) == <<c, nonce, msg>>

sign(amount, blind, nonce, msg) ==
    [nonce |-> nonce, v |-> amount, r |-> blind,
     e |-> calc_challenge(commit(amount, blind), nonce, msg)]

verify(sig, c, msg) ==
    /\ commit(sig.v, sig.r) = c
    /\ sig.e = calc_challenge(c, sig.nonce, msg)

-----------------------------------------------------------------------------
(* Payloads, byte by byte (a field is one byte), and the onion on the wire.*)

Plain(v) == [val |-> v, mask |-> {}]
Vals(bytes) == [i \in DOMAIN bytes |-> bytes[i].val]

write_optional(o) == IF o = <<>> THEN <<0>> ELSE <<1>> \o o
read_optional(vals, i) == IF vals[i] = 0 THEN <<>> ELSE <<vals[i + 1]>>

WritePayload(p) ==
    LET vals == <<0, p.next, p.excess, p.fee>> \o write_optional(p.proof)
    IN  [i \in DOMAIN vals |-> Plain(vals[i])]

Readable(bytes) == (\A i \in DOMAIN bytes : bytes[i].mask = {}) /\ bytes[1].val = 0

ReadPayload(bytes) ==
    LET vals == Vals(bytes)
    IN  [next |-> vals[2], excess |-> vals[3], fee |-> vals[4],
         proof |-> read_optional(vals, 5)]

WriteOnion(o) ==
    <<Plain(o.pubkey), Plain(o.commit), Plain(Len(o.enc))>>
    \o FlattenSeq([i \in DOMAIN o.enc |-> <<Plain(Len(o.enc[i]))>> \o o.enc[i]])

(* Each payload is preceded by its length.                                 *)
ReadOnion(bytes) ==
    LET starts[i \in 1 .. bytes[3].val + 1] ==
            IF i = 1 THEN 4 ELSE starts[i - 1] + 1 + bytes[starts[i - 1]].val
    IN  [pubkey |-> bytes[1].val, commit |-> bytes[2].val,
         enc |-> [i \in 1 .. bytes[3].val |->
                     SubSeq(bytes, starts[i] + 1, starts[i + 1] - 1)]]

(* A request travels as JSON, whose data are the encrypted payloads.       *)
ToJson(o) == [pubkey |-> o.pubkey, commit |-> o.commit, data |-> o.enc]
FromJson(j) == [pubkey |-> j.pubkey, commit |-> j.commit, enc |-> j.data]

-----------------------------------------------------------------------------
(* Encryption.                                                             *)

(* new_stream_cipher: the key stream belongs to the shared secret.         *)
(* Mutant: the secret is left out of the key.                              *)
new_stream_cipher_unkeyed(sk, pk) == {}

new_stream_cipher(sk, pk) == {sk, pk}

(* apply_keystream to bytes, the cipher having run over pos bytes before.  *)
apply_keystream(cipher, pos, bytes) ==
    [i \in DOMAIN bytes |->
        LET k == <<cipher, pos + i>>
        IN  [bytes[i] EXCEPT !.mask = (@ \ {k}) \cup ({k} \ @)]]

(* Bytes of payloads i .. j-1: one cipher runs over all of them.           *)
Before(payloads, i, j) ==
    FoldFunctionOnSet(LAMBDA p, n : Len(p) + n, 0, payloads, i .. j - 1)

(* create_onion: payload j is encrypted for the servers j, j-1, ... 1.     *)
(* eph are the ephemeral keys, one for each hop.                           *)
create_onion(c, hops, eph) ==
    LET n == Len(hops)
        payloads == [i \in 1 .. n |->
            WritePayload([next |-> IF i < n THEN eph[i + 1] ELSE 0,
                          excess |-> hops[i].excess, fee |-> hops[i].fee,
                          proof |-> hops[i].proof])]
        cipher(i) == new_stream_cipher(eph[i], hops[i].server)
        layer[i \in 0 .. n, j \in 1 .. n] ==
            IF i = 0 THEN payloads[j]
            ELSE apply_keystream(cipher(i), Before(payloads, i, j), layer[i - 1, j])
    IN  [pubkey |-> IF n = 0 THEN 0 ELSE eph[1], commit |-> c,
         enc |-> [j \in 1 .. n |-> layer[j, j]]]
-----------------------------------------------------------------------------
(* The position of the key stream for payload k of an onion being peeled.  *)
Position(enc, k) == Before(enc, 1, k)

Decrypted(o, server, k) ==
    apply_keystream(new_stream_cipher(server, o.pubkey), Position(o.enc, k), o.enc[k])

CanPeel(o, server) == o.enc # <<>> /\ Readable(Decrypted(o, server, 1))

Payload(o, server) == ReadPayload(Decrypted(o, server, 1))

peel_layer(o, server) ==
    LET p == Payload(o, server)
    IN  [pubkey |-> p.next,
         commit |-> sub_value(add_excess(o.commit, p.excess), p.fee),
         enc |-> [k \in 1 .. Len(o.enc) - 1 |-> Decrypted(o, server, k + 1)]]

-----------------------------------------------------------------------------
NoOnion == [pubkey |-> 0, commit |-> commit(0, 0), enc |-> <<>>]

(* One output was received by this wallet, one restored by a scan.         *)
Init ==
    /\ \E a, b \in Amounts :
          outs = {[key |-> 0, amount |-> a, status |-> "Unspent", mmr |-> FALSE],
                  [key |-> 1, amount |-> b, status |-> "Unspent", mmr |-> TRUE]}
    /\ child = 2
    /\ reqs = <<>> /\ onion = NoOnion /\ which = 0 /\ peeled = <<>>

(* amount - fee * n, in the arithmetic of a release build.                 *)
NewAmount(o, servers) == (o.amount - Fee * Len(servers)) % W

(* build_output draws the next key and saves nothing else.                 *)
Built(amount) == [commit |-> commit(amount, Blind(amount, child)), key |-> child]

build_output ==
    /\ child < 2 + MaxReqs + MaxBuilt
    /\ child' = child + 1
    /\ UNCHANGED <<outs, reqs, onion, which, peeled>>

(* What is left of the excess for the last hop.                            *)
(* Mutant: the last excess is the whole difference.                        *)
Left_whole(sum, rand) == sum

Left(sum, rand) == FoldFunction(LAMBDA x, y : split(y, x), sum, rand)

(* Each hop but the last gets a random excess, the last what is left of    *)
(* the difference between the two blinding factors, and the range proof.   *)
Hops(o, new, servers, rand) ==
    LET n == Len(servers)
        sum == split(new.commit.r, Blind(o.amount, o.key))
    IN  [i \in 1 .. n |->
           [server |-> servers[i], fee |-> Fee,
            excess |-> IF i = n THEN Left(sum, rand) ELSE rand[i],
            proof |-> IF i = n THEN <<new.commit>> ELSE <<>>]]

Ephemeral(r, n) == [i \in 1 .. n |-> 10 * r + i]

(* The request for output o.  Locking looks the output up without an MMR   *)
(* index, which fails for a restored one after the key was drawn.          *)
create_mwixnet_req(o, servers, lock, rand) ==
    /\ Len(reqs) < MaxReqs /\ child < 2 + MaxReqs + MaxBuilt
    /\ LET new == Built(NewAmount(o, servers))
           r == Len(reqs) + 1
           on == create_onion(CommitOf(o), Hops(o, new, servers, rand),
                              Ephemeral(r, Len(servers)))
           sig == sign(o.amount, Blind(o.amount, o.key), r, WriteOnion(on))
           made == ~lock \/ ~o.mmr
       IN  /\ reqs' = IF made THEN Append(reqs, [out |-> o, new |-> new.commit, servers |-> servers,
                                                 onion |-> on, sig |-> sig])
                      ELSE reqs
           /\ outs' = IF made /\ lock THEN (outs \ {o}) \cup {[o EXCEPT !.status = "Locked"]}
                      ELSE outs
    /\ child' = child + 1
    /\ UNCHANGED <<onion, which, peeled>>

(* A server takes a request, whose signature it checks.                    *)
Submit(r) ==
    /\ which = 0
    /\ LET o == FromJson(ToJson(reqs[r].onion)) IN
         /\ verify(reqs[r].sig, o.commit, WriteOnion(o))
         /\ onion' = o
    /\ which' = r /\ peeled' = <<>>
    /\ UNCHANGED <<outs, child, reqs>>

Peel(server) ==
    /\ which # 0 /\ CanPeel(onion, server)
    /\ peeled' = Append(peeled, Payload(onion, server))
    /\ onion' = ReadOnion(WriteOnion(peel_layer(onion, server)))
    /\ UNCHANGED <<outs, child, reqs, which>>

(* The mixnet gives up, or is done.                                        *)
End ==
    /\ which # 0
    /\ which' = 0 /\ onion' = NoOnion /\ peeled' = <<>>
    /\ UNCHANGED <<outs, child, reqs>>

Servers == UNION {ToSet(l) : l \in ServerLists}

Next ==
    \/ build_output
    \/ \E o \in outs, servers \in ServerLists, lock \in BOOLEAN :
         \E rand \in [1 .. Len(servers) - 1 -> 1 .. Q - 1] :
            create_mwixnet_req(o, servers, lock, rand)
    \/ \E r \in DOMAIN reqs : Submit(r)
    \/ \E s \in Servers : Peel(s)
    \/ End

-----------------------------------------------------------------------------
(* A swap pays: when every server has peeled its layer, in the order of    *)
(* the request, the commitment that remains is that of the wallet's new    *)
(* output, the last payload proves its range, and nothing is left to peel. *)
(* An output worth less than the fees makes a request that cannot.         *)
SwapPays ==
    (which # 0 /\ Len(peeled) = Len(reqs[which].servers) /\ peeled # <<>>) =>
        LET r == reqs[which] IN
        /\ onion.enc = <<>> /\ onion.pubkey = 0
        /\ Last(peeled).proof = <<r.new>>
        /\ r.out.amount >= Fee * Len(r.servers) => onion.commit = r.new

(* Only the server whose turn it is can read anything: the others, and     *)
(* those that have had their turn, cannot peel the onion.                  *)
OnlyNextPeels ==
    which # 0 => \A s \in Servers :
        CanPeel(onion, s) <=> /\ Len(peeled) < Len(reqs[which].servers)
                              /\ s = reqs[which].servers[Len(peeled) + 1]

=============================================================================
