---------------------------- MODULE ExchangeProofs ----------------------------
(***************************************************************************)
(* No wallet ever lets out two different signatures made with one nonce    *)
(* (NoNonceReuse), for any number of wallets, accounts, slates and         *)
(* contexts, whatever messages are lost, repeated, reordered, damaged or   *)
(* given to the wrong command, by message and by Tor.                      *)
(*                                                                         *)
(* NoNonceReuse is not inductive: a context can outlive a signature made   *)
(* with its key.  process_invoice_tx signs and keeps the context, and      *)
(* finalize_tx would sign again with the same key over any slate it        *)
(* accepts.  That it accepts none is what the invariant has to say, of the *)
(* slates that can reach a command (GoodSlate) and of such a key (Barred). *)
(***************************************************************************)
EXTENDS ExchangeProps, TLAPS

(* Keys a wallet has drawn for a slate, and the next one it will draw.     *)
DrawnKey(d, k) ==
    /\ k \in Wallets \X Slates \X Nat
    /\ k[3] <= d[k[1]].draws[k[2]]
NextKey(w, d, s) == <<w, s, d.draws[s] + 1>>

(* A key's term in the sum of a slate's offsets.                           *)
Term(k) == <<"-">> \o k

SlateFields == {"id", "state", "tx", "np", "amount", "fee", "ttl", "offset", "parts", "proof"}
TxFields == {"ins", "outs", "fee", "excess", "signed", "offset"}
Formed(sl) == DOMAIN sl = SlateFields /\ (sl.tx # NoTx => DOMAIN sl.tx = TxFields)

(* Slates by the state they are in.  An offer has one participant, who has *)
(* not signed; an answer has one, who has signed together with another and *)
(* has adjusted the offset; in a complete slate everyone has signed.       *)
Offered(d, sl) ==
    /\ DOMAIN sl.offset = {}
    /\ \E k \in Keys(sl) : Keys(sl) = {k} /\ sl.parts[k] = NoSig /\ DrawnKey(d, k)

Signed(d, S, sl, k) ==
    /\ sl.parts[k] # NoSig /\ <<k, sl.parts[k]>> \in S
    /\ \A j \in sl.parts[k].keys : DrawnKey(d, j)

Answered(d, S, sl) ==
    \E k \in Keys(sl) :
        /\ Keys(sl) = {k} /\ Signed(d, S, sl, k) /\ sl.parts[k].keys # {k}
        /\ Term(k) \in DOMAIN sl.offset /\ sl.offset[Term(k)] \in Nat \ {0}

Complete(d, S, sl) == Keys(sl) # {} /\ \A k \in Keys(sl) : Signed(d, S, sl, k)

GoodSlate(d, S, sl) ==
    /\ Formed(sl) /\ sl.id \in Slates /\ sl.state \in SlateState
    /\ sl.state \in {"S1", "I1"} => Offered(d, sl)
    /\ sl.state \in {"S2", "I2"} => Answered(d, S, sl)
    /\ sl.state \in {"S3", "I3"} => Complete(d, S, sl)

(* The slate does not let a wallet whose context has this key finish.      *)
Bars(sl, k) ==
    /\ sl.state \in {"S1", "I1"} => k \notin Keys(sl)
    /\ sl.state \in {"S2", "I2"} =>
          \A j \in Keys(sl) : j # k => k \notin sl.parts[j].keys

(* The slates that can reach a command.                                    *)
Flying(M, T) ==
    {get_slate(m, a) : m \in M, a \in Address}
        \cup {T[w].sl : w \in {v \in Wallets : T[v] # NoCmd}}
        \cup {T[w].answer[1] : w \in {v \in Wallets : T[v] # NoCmd /\ T[v].answer # <<>>}}

(* Slates that are alike in all of this, as a slate and its decoded copy.  *)
Same(x, y) ==
    /\ x.id = y.id /\ x.state = y.state /\ x.offset = y.offset
    /\ Keys(x) = Keys(y) /\ \A k \in Keys(y) : x.parts[k] = y.parts[k]

(* What decoding and damaging a message rely on.                           *)
Shaped(m) ==
    /\ "data" \in DOMAIN m
    /\ m.data.mode = 0 =>
          /\ {"mode", "payload"} \subseteq DOMAIN m.data
          /\ {"id", "sta", "off", "sigs"} \subseteq DOMAIN m.data.payload

WalletOK(d) ==
    /\ {"ctx", "draws"} \subseteq DOMAIN d
    /\ d.draws \in [Slates -> Nat]
    /\ DOMAIN d.ctx = Slates

ContextFields ==
    {"acct", "key", "initKey", "ins", "outs", "amount", "fee", "late", "index", "excess"}
ContextOK(w, d, s) ==
    d.ctx[s] # NoContext =>
        /\ DOMAIN d.ctx[s] = ContextFields
        /\ \E n \in 1 .. d.draws[s] : d.ctx[s].initKey = <<w, s, n>>

(* A live context's key has not signed, or no slate lets it sign again.    *)
Unused(S, k) == \A x \in S : x[1] # k
Barred(d, s, F, S) ==
    d.ctx[s] # NoContext =>
        \/ Unused(S, d.ctx[s].initKey)
        \/ \A sl \in F : Bars(sl, d.ctx[s].initKey)

DbOK ==
    /\ DOMAIN db = Wallets
    /\ \A w \in Wallets : WalletOK(db[w]) /\ \A s \in Slates : ContextOK(w, db[w], s)
Shapes(M, T) ==
    /\ DOMAIN T = Wallets
    /\ \A w \in Wallets : T[w] # NoCmd => {"sl", "answer"} \subseteq DOMAIN T[w]
    /\ \A m \in M : Shaped(m)
SlatesOK ==
    /\ Shapes(msgs, tor)
    /\ \A sl \in Flying(msgs, tor) : GoodSlate(db, seen, sl)
SeenOK == \A x \in seen : DrawnKey(db, x[1])
BarredOK == \A w \in Wallets, s \in Slates : Barred(db[w], s, Flying(msgs, tor), seen)

Inv == NoNonceReuse /\ DbOK /\ SlatesOK /\ SeenOK /\ BarredOK

-----------------------------------------------------------------------------
(* What the wire keeps of a slate.                                         *)

(* The signatures of a slate come back from the list they are sent as.     *)
LEMMA PartsComeBack ==
    ASSUME NEW parts
    PROVE  /\ DOMAIN PartsOf(SigsOf(parts)) = DOMAIN parts
           /\ \A k \in DOMAIN parts : PartsOf(SigsOf(parts))[k] = parts[k]
<1> DEFINE sigs == SigsOf(parts)
           g(k) == [xs |-> k, part |-> Option(parts[k], NoSig)]
<1>1. sigs = {g(k) : k \in DOMAIN parts}
  BY DEF SigsOf
<1>2. {h.xs : h \in sigs} = DOMAIN parts
  <2>1. \A k \in DOMAIN parts : g(k) \in sigs /\ g(k).xs = k
    BY <1>1
  <2>2. \A h \in sigs : h.xs \in DOMAIN parts
    BY <1>1
  <2> HIDE DEF sigs, g
  <2>. QED  BY <2>1, <2>2
<1>3. DOMAIN PartsOf(sigs) = DOMAIN parts
  BY <1>2 DEF PartsOf
<1>4. ASSUME NEW k \in DOMAIN parts
      PROVE  PartsOf(sigs)[k] = parts[k]
  <2>1. (CHOOSE h \in sigs : h.xs = k) = g(k)
    <3>1. g(k) \in sigs /\ g(k).xs = k
      BY <1>1
    <3>2. \A h \in sigs : h.xs = k => h = g(k)
      BY <1>1
    <3>. QED  BY <3>1, <3>2
  <2>2. PartsOf(sigs)[k] = OrElse((CHOOSE h \in sigs : h.xs = k).part, NoSig)
    BY <1>2 DEF PartsOf
  <2>3. g(k).part = Option(parts[k], NoSig)
    OBVIOUS
  <2> HIDE DEF sigs, g
  <2>4. PartsOf(sigs)[k] = OrElse(Option(parts[k], NoSig), NoSig)
    BY <2>1, <2>2, <2>3
  <2>. QED  BY <2>4 DEF OrElse, Option
<1>. QED  BY <1>3, <1>4

(* A slate made from the wire form has all its fields.                     *)
LEMMA DecodedFields ==
    ASSUME NEW v
    PROVE  /\ Formed(SlateFromV4(v))
           /\ SlateFromV4(v).id = v.id /\ SlateFromV4(v).state = v.sta
           /\ SlateFromV4(v).offset = v.off /\ SlateFromV4(v).parts = PartsOf(v.sigs)
<1>1. tx_from_slate_v4(v) # NoTx => DOMAIN tx_from_slate_v4(v) = TxFields
  BY DEF tx_from_slate_v4, TxFields
<1>. QED  BY <1>1 DEF SlateFromV4, SlateFields, Formed

(* A slate read back from one of its wire forms is like the slate.         *)
LEMMA WireKeeps ==
    ASSUME NEW sl, NEW v,
           v.id = sl.id, v.sta = sl.state, v.off = sl.offset, v.sigs = SigsOf(sl.parts)
    PROVE  Same(SlateFromV4(v), sl)
  BY DecodedFields, PartsComeBack DEF Same, Keys

(* The status byte of each of the six states is read as that state.        *)
LEMMA StateComesBack ==
    ASSUME NEW sta \in SlateState
    PROVE  read_state(write_state(sta)) = sta
<1>1. PICK b \in 1 .. 6 : StateByte[b] = sta
  BY DEF StateByte, SlateState
<1> DEFINE c == CHOOSE i \in 1 .. 6 : StateByte[i] = sta
<1>2. c \in 1 .. 6 /\ StateByte[c] = sta
  BY <1>1
<1>3. write_state(sta) = c
  BY <1>1 DEF write_state
<1>. QED  BY <1>2, <1>3 DEF read_state

(* Encryption for some recipients hides the payload and changes nothing.   *)
LEMMA PackKeeps ==
    ASSUME NEW p, NEW sender, NEW recs, NEW a,
           NEW sp, sp = try_encrypt_payload([mode |-> 0, sender |-> sender, to |-> {},
                                             payload |-> p], recs)
    PROVE  /\ try_decrypt_payload(sp, a).payload = p
           /\ {"mode", "payload"} \subseteq DOMAIN sp
           /\ sp.mode = 0 => sp.payload = p
<1> DEFINE plain == [mode |-> 0, sender |-> sender, to |-> {}, payload |-> p]
<1>1. CASE recs = {}
  <2>1. sp = plain
    BY <1>1 DEF try_encrypt_payload
  <2>. QED  BY <2>1 DEF try_decrypt_payload
<1>2. CASE recs # {}
  <2>1. sp = [mode |-> 1, sender |-> Nobody, to |-> recs,
              payload |-> [meta |-> [sender |-> sender], slate |-> p]]
    BY <1>2 DEF try_encrypt_payload
  <2>. QED  BY <2>1 DEF try_decrypt_payload
<1>. QED  BY <1>1, <1>2

(* Whatever key a message is read with, the slate in it is like the one    *)
(* that was written.                                                       *)
LEMMA MessageKeeps ==
    ASSUME NEW sl, sl.state \in SlateState, NEW sender, NEW recs, NEW a,
           NEW m, m = create_slatepack_message(sl, sender, recs)
    PROVE  /\ Same(get_slate(m, a), sl)
           /\ Formed(get_slate(m, a))
           /\ Shaped(m)
<1> DEFINE bin == write_bin(SlateV4(sl))
           sp == create_slatepack(sl, sender, recs)
<1>1. m.data = sp /\ "data" \in DOMAIN m
  BY DEF create_slatepack_message, armor
<1>2. sp = try_encrypt_payload([mode |-> 0, sender |-> sender, to |-> {},
                                payload |-> bin], recs)
  BY DEF create_slatepack
<1>3. bin = [id |-> sl.id, sta |-> write_state(sl.state), off |-> sl.offset,
             opts |-> write_opts(SlateV4(sl)), sigs |-> SigsOf(sl.parts),
             structs |-> <<SlateV4(sl).coms, SlateV4(sl).proof>>]
  BY DEF write_bin, SlateV4
<1> HIDE DEF sp, bin
<1>4. /\ try_decrypt_payload(m.data, a).payload = bin
      /\ {"mode", "payload"} \subseteq DOMAIN m.data
      /\ m.data.mode = 0 => m.data.payload = bin
  BY <1>1, <1>2, PackKeeps
<1>5. get_slate(m, a) = SlateFromV4(read_bin(bin))
  BY <1>4 DEF get_slate
<1>6. /\ read_bin(bin).id = sl.id /\ read_bin(bin).sta = sl.state
      /\ read_bin(bin).off = sl.offset /\ read_bin(bin).sigs = SigsOf(sl.parts)
  BY <1>3, StateComesBack DEF read_bin
<1>7. Same(get_slate(m, a), sl)
  BY <1>5, <1>6, WireKeeps
<1>8. Formed(get_slate(m, a))
  BY <1>5, DecodedFields
<1>9. Shaped(m)
  BY <1>1, <1>3, <1>4 DEF Shaped
<1>. QED  BY <1>7, <1>8, <1>9

(* The JSON form keeps it as well.                                         *)
LEMMA TorKeeps ==
    ASSUME NEW sl
    PROVE  Same(over_tor(sl), sl) /\ Formed(over_tor(sl))
<1> DEFINE v == SlateV4(sl)
           r == read_json(write_json(v))
<1>1. /\ DOMAIN v = {"id", "sta", "off", "num_parts", "amt", "fee", "ttl", "sigs", "coms", "proof"}
      /\ v["id"] = sl.id /\ v["sta"] = sl.state
      /\ v["off"] = sl.offset /\ v["sigs"] = SigsOf(sl.parts)
  BY DEF SlateV4
<1>2. DOMAIN JsonDefault = {"num_parts", "amt", "fee", "ttl", "off", "coms", "proof"}
  BY DEF JsonDefault
<1> HIDE DEF v
<1>3. ASSUME NEW f \in DOMAIN v
      PROVE  r[f] = v[f]
  BY DEF read_json, write_json
<1> HIDE DEF r
<1>4. /\ r["id"] = sl.id /\ r["sta"] = sl.state
      /\ r["off"] = sl.offset /\ r["sigs"] = SigsOf(sl.parts)
  BY <1>1, <1>3
<1>5. over_tor(sl) = SlateFromV4(r)
  BY DEF over_tor, r, v
<1>. QED  BY <1>4, <1>5, WireKeeps, DecodedFields

(* A damaged message still holds the slate's id, state and signatures.     *)
LEMMA DamageKeeps ==
    ASSUME NEW m, Shaped(m), m.data.mode = 0, NEW a,
           NEW x, x = [m EXCEPT !.data = Mangled(@)]
    PROVE  Same(get_slate(x, a), get_slate(m, a)) /\ Formed(get_slate(x, a)) /\ Shaped(x)
<1> DEFINE p == m.data.payload
           q == [p EXCEPT !.opts.body = [i \in DOMAIN @ |-> @[i] + 1]]
<1>1. x.data = [m.data EXCEPT !.payload = q] /\ "data" \in DOMAIN x
  BY DEF Mangled, Shaped
<1>2. x.data.mode = 0 /\ x.data.payload = q /\ {"mode", "payload"} \subseteq DOMAIN x.data
  BY <1>1 DEF Shaped
<1>3. /\ q.id = p.id /\ q.sta = p.sta /\ q.off = p.off /\ q.sigs = p.sigs
      /\ {"id", "sta", "off", "sigs"} \subseteq DOMAIN q
  BY DEF Shaped
<1> HIDE DEF q, p
<1>4. Shaped(x)
  BY <1>1, <1>2, <1>3 DEF Shaped
<1>5. get_slate(x, a) = SlateFromV4(read_bin(q)) /\ get_slate(m, a) = SlateFromV4(read_bin(p))
  BY <1>2 DEF get_slate, try_decrypt_payload, p
<1>6. /\ read_bin(q).id = read_bin(p).id /\ read_bin(q).sta = read_bin(p).sta
      /\ read_bin(q).off = read_bin(p).off /\ read_bin(q).sigs = read_bin(p).sigs
  BY <1>3 DEF read_bin
<1>. QED  BY <1>4, <1>5, <1>6, DecodedFields DEF Same, Keys

-----------------------------------------------------------------------------
(* What is said of a slate holds of a copy of it, and as more is drawn and *)
(* seen.                                                                   *)

(* A copy of a slate is as good as the slate.                              *)
LEMMA CopyIsGood ==
    ASSUME NEW d, NEW S, NEW x, NEW y, Same(x, y)
    PROVE  /\ Formed(x) /\ GoodSlate(d, S, y) => GoodSlate(d, S, x)
           /\ SigsIn(x) = SigsIn(y)
           /\ \A k : Bars(y, k) => Bars(x, k)
<1>1. Formed(x) /\ GoodSlate(d, S, y) => GoodSlate(d, S, x)
  BY DEF Same, GoodSlate, Offered, Answered, Complete, Signed
<1>2. SigsIn(x) = SigsIn(y)
  BY DEF Same, SigsIn
<1>3. \A k : Bars(y, k) => Bars(x, k)
  BY DEF Same, Bars
<1>. QED  BY <1>1, <1>2, <1>3

(* Being a copy is transitive.                                             *)
LEMMA CopyOfCopy ==
    ASSUME NEW x, NEW y, NEW z, Same(x, y), Same(y, z)
    PROVE  Same(x, z)
  BY DEF Same

(* e has drawn all that d has.                                             *)
Ahead(d, e) ==
    \A w \in Wallets, s \in Slates :
        d[w].draws[s] \in Nat /\ e[w].draws[s] \in Nat /\ d[w].draws[s] <= e[w].draws[s]

(* Good slates stay good.                                                  *)
LEMMA GoodStays ==
    ASSUME NEW d, NEW e, Ahead(d, e), NEW S, NEW U, S \subseteq U
    PROVE  /\ \A k : DrawnKey(d, k) => DrawnKey(e, k)
           /\ \A sl : GoodSlate(d, S, sl) => GoodSlate(e, U, sl)
<1>1. ASSUME NEW k, DrawnKey(d, k)
      PROVE  DrawnKey(e, k)
  <2>1. k[1] \in Wallets /\ k[2] \in Slates /\ k[3] \in Nat
    BY <1>1 DEF DrawnKey
  <2>2. d[k[1]].draws[k[2]] <= e[k[1]].draws[k[2]] /\ k[3] <= d[k[1]].draws[k[2]]
    BY <1>1, <2>1 DEF Ahead, DrawnKey
  <2>3. d[k[1]].draws[k[2]] \in Nat /\ e[k[1]].draws[k[2]] \in Nat
    BY <2>1 DEF Ahead
  <2>4. k[3] <= e[k[1]].draws[k[2]]
    BY <2>1, <2>2, <2>3
  <2>. QED  BY <1>1, <2>4 DEF DrawnKey
<1>2. \A sl, k : Signed(d, S, sl, k) => Signed(e, U, sl, k)
  BY <1>1 DEF Signed
<1>3. ASSUME NEW sl, GoodSlate(d, S, sl)
      PROVE  GoodSlate(e, U, sl)
  BY <1>1, <1>2, <1>3 DEF GoodSlate, Offered, Answered, Complete
<1>. QED  BY <1>1, <1>3

(* What a good slate is signed with has been seen.                         *)
LEMMA GoodIsSeen ==
    ASSUME NEW d, NEW S, NEW sl, GoodSlate(d, S, sl)
    PROVE  SigsIn(sl) \subseteq S
  BY DEF GoodSlate, SlateState, Offered, Answered, Complete, Signed, SigsIn

(* The keys of a good slate, and the keys it is signed for, were all drawn.*)
LEMMA GoodIsDrawn ==
    ASSUME NEW d, NEW S, NEW sl, GoodSlate(d, S, sl), \A x \in S : DrawnKey(d, x[1])
    PROVE  /\ \A k \in Keys(sl) : DrawnKey(d, k)
           /\ \A k \in Keys(sl) : sl.parts[k] # NoSig =>
                 \A j \in sl.parts[k].keys : DrawnKey(d, j)
<1>1. ASSUME NEW k, Signed(d, S, sl, k)
      PROVE  DrawnKey(d, k)
  <2>1. <<k, sl.parts[k]>> \in S
    BY <1>1 DEF Signed
  <2>. QED  BY <2>1
<1>. QED  BY <1>1 DEF GoodSlate, SlateState, Offered, Answered, Complete, Signed

-----------------------------------------------------------------------------
(* What the steps of an exchange do to a slate.                            *)

(* Every term occurs once in a sum of distinct terms.                      *)
LEMMA TermsOnce ==
    ASSUME NEW ks, NEW ins, NEW outs
    PROVE  \A x \in DOMAIN Terms(ks, ins, outs) : Terms(ks, ins, outs)[x] = 1
  BY DEF Terms, SetToBag

(* Adjusting an offset by a key adds the key's term once more.             *)
LEMMA TermAdded ==
    ASSUME NEW B, NEW k, NEW ins, NEW outs,
           NEW C, C = B (+) Terms({k}, ins, outs)
    PROVE  /\ Term(k) \in DOMAIN C
           /\ DOMAIN B = {} => C[Term(k)] = 1
           /\ Term(k) \in DOMAIN B => C[Term(k)] = B[Term(k)] + 1
<1> DEFINE T == Terms({k}, ins, outs)
           t == Term(k)
<1>1. t \in DOMAIN T
  BY DEF Terms, SetToBag, Term
<1>2. T[t] = 1
  BY <1>1, TermsOnce
<1> HIDE DEF T, t
<1>3. C = B (+) T
  BY DEF T
<1>4. /\ t \in DOMAIN C
      /\ C[t] = (IF t \in DOMAIN B THEN B[t] ELSE 0) + (IF t \in DOMAIN T THEN T[t] ELSE 0)
  BY <1>1, <1>3 DEF (+)
<1>5. C[t] = (IF t \in DOMAIN B THEN B[t] ELSE 0) + 1
  BY <1>1, <1>2, <1>4
<1>6. t \notin DOMAIN B => C[t] = 1
  BY <1>5
<1>7. t \in DOMAIN B => C[t] = B[t] + 1
  BY <1>5
<1>. QED  BY <1>4, <1>6, <1>7 DEF t

(* A slate with a key that was just drawn: an offer, or a reply to one of  *)
(* the slates in F.                                                        *)
Fresh(N, k, F) ==
    /\ Formed(N) /\ N.id \in Slates /\ Keys(N) = {k}
    /\ \/ /\ N.state \in {"S1", "I1"}
          /\ DOMAIN N.offset = {} /\ N.parts[k] = NoSig
       \/ /\ N.state \in {"S2", "I2"}
          /\ Term(k) \in DOMAIN N.offset /\ N.offset[Term(k)] \in Nat \ {0}
          /\ N.parts[k] # NoSig
          /\ \E o \in F : o.state \in {"S1", "I1"} /\ N.parts[k].keys = Keys(o) \cup {k}

(* The slate of a send is an offer (init_send_tx).                         *)
LEMMA SendOffers ==
    ASSUME NEW w, NEW a, NEW s \in Slates, NEW amount, NEW ttl, NEW ctx, NEW proof, NEW F
    PROVE  Fresh(init_send_slate(w, a, InitSlate(s, amount, ttl), ctx, proof), ctx.key, F)
  BY DEF init_send_slate, InitSlate, blank, compact, add_participant_info, Fresh, Formed,
         SlateFields, Keys, EmptyBag, SetToBag

(* So is the slate of an invoice (issue_invoice_tx).                       *)
LEMMA InvoiceOffers ==
    ASSUME NEW s \in Slates, NEW amount, NEW ctx, NEW F
    PROVE  Fresh(issue_slate(InvoiceSlate(s, amount), ctx), ctx.key, F)
  BY DEF issue_slate, InvoiceSlate, blank, compact, add_participant_info, Fresh, Formed,
         SlateFields, Keys, EmptyBag, SetToBag

(* The reply to an offer: ReceivedSlate is signed by the new key for every *)
(* key now on the slate, and receive_slate keeps that entry only.          *)
LEMMA ReplyIsFresh ==
    ASSUME NEW w, NEW a, NEW o, NEW sl, NEW ctx, NEW F, o \in F, Same(sl, o),
           Formed(sl), sl.id \in Slates, sl.state \in {"S1", "I1"}, DOMAIN sl.offset = {},
           ctx.key \notin Keys(sl), ctx.initKey = ctx.key
    PROVE  Fresh(receive_slate(w, a, sl, ctx), ctx.key, F)
<1> DEFINE k == ctx.key
           s0 == [sl EXCEPT !.tx = empty_transaction]
           s1 == add_transaction_elements(s0, {}, ctx.outs)
           s2 == fill_round_2(add_participant_info(s1, k), k)
           s3 == adjust_offset(s2, ctx)
           R == ReceivedSlate(w, a, sl, ctx)
           N == receive_slate(w, a, sl, ctx)
<1>1. /\ DOMAIN s1 = SlateFields /\ DOMAIN s1.tx = TxFields
      /\ s1.id = sl.id /\ s1.parts = sl.parts /\ s1.offset = sl.offset
  BY DEF Formed, SlateFields, TxFields, add_transaction_elements, empty_transaction
<1> HIDE DEF s1
<1>2. /\ DOMAIN s2 = SlateFields /\ s2.tx = s1.tx /\ s2.id = sl.id /\ s2.offset = sl.offset
      /\ DOMAIN s2.parts = DOMAIN sl.parts \cup {k}
      /\ s2.parts[k] # NoSig /\ s2.parts[k].keys = Keys(sl) \cup {k}
  BY <1>1 DEF add_participant_info, fill_round_2, SlateFields, Keys, NoSig
<1> HIDE DEF s2
<1>3. /\ DOMAIN s3 = SlateFields /\ s3.tx = s1.tx /\ s3.id = sl.id /\ s3.parts = s2.parts
      /\ s3.offset = sl.offset (+) Terms({k}, ctx.ins, ctx.outs)
  BY <1>2 DEF adjust_offset, SlateFields
<1> HIDE DEF s3
<1>4. \E p : R = [s3 EXCEPT !.proof = p]
  BY DEF ReceivedSlate, s1, s2, s3
<1>5. /\ DOMAIN R = SlateFields /\ R.tx = s1.tx /\ R.id = sl.id /\ R.parts = s2.parts
      /\ R.offset = s3.offset
  BY <1>3, <1>4 DEF SlateFields
<1> HIDE DEF R
<1>6. /\ DOMAIN N = SlateFields /\ N.tx = s1.tx /\ N.id = sl.id /\ N.state = "S2"
      /\ N.offset = s3.offset /\ DOMAIN N.parts = {k} /\ N.parts[k] = s2.parts[k]
  BY <1>2, <1>5 DEF receive_slate, remove_other_sigdata, SlateFields, Keys, R
<1> HIDE DEF N, k
<1>7. Term(k) \in DOMAIN N.offset /\ N.offset[Term(k)] = 1
  <2> DEFINE C == N.offset
             B == sl.offset
  <2>1. C = B (+) Terms({k}, ctx.ins, ctx.outs)
    BY <1>3, <1>6
  <2>2. DOMAIN B = {}
    OBVIOUS
  <2> HIDE DEF C, B
  <2>3. Term(k) \in DOMAIN C /\ C[Term(k)] = 1
    BY <2>1, <2>2, TermAdded
  <2>. QED  BY <2>3 DEF C
<1>8. Keys(sl) = Keys(o) /\ o.state \in {"S1", "I1"}
  BY DEF Same
<1>. QED  BY <1>1, <1>2, <1>6, <1>7, <1>8 DEF Fresh, Formed, Keys, N, k

(* repopulate_tx leaves the slate's id and offset, adds the key it is      *)
(* given and puts the offset into the transaction.                         *)
LEMMA Repopulated ==
    ASSUME NEW d, NEW sl, NEW ctx, NEW upd \in BOOLEAN,
           DOMAIN sl = SlateFields, DOMAIN sl.tx = TxFields,
           NEW R, R = repopulate_tx(d, sl, ctx, upd)
    PROVE  /\ DOMAIN R = SlateFields /\ DOMAIN R.tx = TxFields
           /\ R.id = sl.id /\ R.offset = sl.offset /\ R.tx.offset = sl.offset
           /\ R.state = sl.state
           /\ Keys(R) = Keys(sl) \cup {ctx.key}
           /\ \A j \in Keys(R) :
                 R.parts[j] = IF j \in Keys(sl) THEN sl.parts[j] ELSE NoSig
<1> DEFINE s1 == [sl EXCEPT !.amount = ctx.amount, !.fee = IF upd THEN ctx.fee ELSE @]
           s2 == add_participant_info(s1, ctx.key)
           s3 == add_transaction_elements(s2, ctx.ins \cap DOMAIN d.coins,
                                              ctx.outs \cap DOMAIN d.coins)
<1>1. /\ DOMAIN s1 = SlateFields /\ s1.tx = sl.tx /\ s1.id = sl.id /\ s1.state = sl.state
      /\ s1.offset = sl.offset /\ s1.parts = sl.parts
  BY DEF SlateFields
<1> HIDE DEF s1
<1>2. /\ DOMAIN s2 = SlateFields /\ s2.tx = sl.tx /\ s2.id = sl.id /\ s2.state = sl.state
      /\ s2.offset = sl.offset
      /\ s2.parts = [j \in Keys(sl) \cup {ctx.key} |->
                        IF j \in Keys(sl) THEN sl.parts[j] ELSE NoSig]
  BY <1>1 DEF add_participant_info, SlateFields, Keys
<1> HIDE DEF s2
<1>3. /\ DOMAIN s3 = SlateFields /\ DOMAIN s3.tx = TxFields /\ s3.id = sl.id
      /\ s3.state = sl.state /\ s3.offset = sl.offset /\ s3.parts = s2.parts
  BY <1>2 DEF add_transaction_elements, SlateFields, TxFields
<1> HIDE DEF s3
<1>4. R = [s3 EXCEPT !.tx.offset = sl.offset]
  BY DEF repopulate_tx, s1, s2, s3
<1>5. /\ DOMAIN R = SlateFields /\ DOMAIN R.tx = TxFields
      /\ R.id = sl.id /\ R.offset = sl.offset /\ R.tx.offset = sl.offset
      /\ R.state = sl.state /\ R.parts = s2.parts
  BY <1>2, <1>3, <1>4 DEF SlateFields, TxFields
<1>. QED  BY <1>2, <1>5 DEF Keys

(* The reply to an invoice, in the same way.                               *)
LEMMA PaymentIsFresh ==
    ASSUME NEW d, NEW o, NEW sl, NEW ctx, NEW F, o \in F, Same(sl, o),
           Formed(sl), sl.id \in Slates, sl.state \in {"S1", "I1"}, DOMAIN sl.offset = {},
           ctx.key \notin Keys(sl), ctx.initKey = ctx.key, DOMAIN ctx = ContextFields
    PROVE  Fresh(pay_slate(d, sl, ctx), ctx.key, F)
<1> DEFINE k == ctx.key
           self == d.ctx[sl.id] # NoContext
           s0 == [sl EXCEPT !.tx = empty_transaction, !.fee = Fee]
           s1 == add_transaction_elements(s0, ctx.ins, ctx.outs)
           s2 == fill_round_2(add_participant_info(s1, k), k)
           c2 == IF self THEN [ctx EXCEPT !.ins = {}, !.outs = {}] ELSE ctx
           P == PaidSlate(sl, ctx, self)
           C == PaidContext(d, sl, ctx)
           R == repopulate_tx(d, P, C, FALSE)
           N == pay_slate(d, sl, ctx)
<1>1. /\ DOMAIN s1 = SlateFields /\ DOMAIN s1.tx = TxFields
      /\ s1.id = sl.id /\ s1.parts = sl.parts /\ s1.offset = sl.offset
  BY DEF Formed, SlateFields, TxFields, add_transaction_elements, empty_transaction
<1> HIDE DEF s1
<1>2. /\ DOMAIN s2 = SlateFields /\ s2.tx = s1.tx /\ s2.id = sl.id /\ s2.offset = sl.offset
      /\ DOMAIN s2.parts = DOMAIN sl.parts \cup {k}
      /\ s2.parts[k] # NoSig /\ s2.parts[k].keys = Keys(sl) \cup {k}
  BY <1>1 DEF add_participant_info, fill_round_2, SlateFields, Keys, NoSig
<1> HIDE DEF s2
<1>3. P = adjust_offset(s2, c2)
  BY DEF PaidSlate, s1, s2
<1>4. c2.initKey = k /\ C.key = k
  BY DEF PaidContext, ContextFields
<1> HIDE DEF P, c2, C
<1>5. /\ DOMAIN P = SlateFields /\ DOMAIN P.tx = TxFields /\ P.id = sl.id /\ P.parts = s2.parts
      /\ P.offset = sl.offset (+) Terms({k}, c2.ins, c2.outs)
  BY <1>1, <1>2, <1>3, <1>4 DEF adjust_offset, SlateFields
<1>6. /\ DOMAIN R = SlateFields /\ DOMAIN R.tx = TxFields /\ R.id = sl.id
      /\ R.offset = P.offset
      /\ Keys(R) = Keys(P) \cup {C.key}
      /\ \A j \in Keys(R) : R.parts[j] = IF j \in Keys(P) THEN P.parts[j] ELSE NoSig
  <2>1. PICK u \in BOOLEAN : R = repopulate_tx(d, P, C, u)
    OBVIOUS
  <2> HIDE DEF R
  <2>. QED  BY <1>5, <2>1, Repopulated
<1> HIDE DEF R
<1>7. k \in Keys(R) /\ R.parts[k] = s2.parts[k]
  BY <1>2, <1>4, <1>5, <1>6 DEF Keys
<1>8. N = remove_other_sigdata([R EXCEPT !.amount = 0, !.state = "I2"], k)
  BY DEF pay_slate, P, C, R
<1>9. /\ DOMAIN N = SlateFields /\ DOMAIN N.tx = TxFields /\ N.id = sl.id /\ N.state = "I2"
      /\ N.offset = P.offset /\ DOMAIN N.parts = {k} /\ N.parts[k] = s2.parts[k]
  BY <1>6, <1>7, <1>8 DEF remove_other_sigdata, SlateFields, Keys
<1> HIDE DEF N, k
<1>10. Term(k) \in DOMAIN N.offset /\ N.offset[Term(k)] = 1
  <2> DEFINE X == N.offset
             B == sl.offset
  <2>1. X = B (+) Terms({k}, c2.ins, c2.outs)
    BY <1>5, <1>9
  <2>2. DOMAIN B = {}
    OBVIOUS
  <2> HIDE DEF X, B
  <2>3. Term(k) \in DOMAIN X /\ X[Term(k)] = 1
    BY <2>1, <2>2, TermAdded
  <2>. QED  BY <2>3 DEF X
<1>11. Keys(sl) = Keys(o) /\ o.state \in {"S1", "I1"}
  BY DEF Same
<1>. QED  BY <1>2, <1>9, <1>10, <1>11 DEF Fresh, Formed, Keys, N, k

(* What finalize_tx makes of an answer is signed by the key of the answer  *)
(* and by the first key of the context, and these differ: a term twice in  *)
(* the offset fails Transaction::validate, a missing signature or one over *)
(* other keys fails finalize_signature.                                    *)
Finishes(N, o, k) ==
    /\ Formed(N) /\ N.id = o.id /\ N.state \in {"S3", "I3"} /\ o.state \in {"S2", "I2"}
    /\ \E r \in Keys(o) :
          /\ Keys(o) = {r} /\ r # k /\ k \in o.parts[r].keys
          /\ Keys(N) = {r, k} /\ N.parts[r] = o.parts[r] /\ N.parts[r] # NoSig
          /\ N.parts[r].keys = {r, k} /\ N.parts[k] # NoSig /\ N.parts[k].keys = {r, k}

(* What finalize_tx signs: the slate with one more key, the other          *)
(* signatures as they came, and the offset with the first key's term.      *)
LEMMA CompletedIs ==
    ASSUME NEW d, NEW sl, NEW ctx, NEW inv \in BOOLEAN, Formed(sl), sl.tx # NoTx,
           DOMAIN ctx = ContextFields
    PROVE  LET N == Completed(d, sl, ctx, inv)
           IN  /\ DOMAIN N = SlateFields /\ DOMAIN N.tx = TxFields /\ N.id = sl.id
               /\ \E K \in Keys(N) : \A j : j \in Keys(N) <=> j \in Keys(sl) \/ j = K
               /\ \A j \in Keys(N) : j # ctx.initKey =>
                     N.parts[j] = IF j \in Keys(sl) THEN sl.parts[j] ELSE NoSig
               /\ LET t == Term(ctx.initKey)
                  IN  t \in DOMAIN sl.offset => /\ t \in DOMAIN N.tx.offset
                                                /\ N.tx.offset[t] = sl.offset[t] + 1
<1> DEFINE N == Completed(d, sl, ctx, inv)
<1> DEFINE K == IF inv THEN ctx.initKey ELSE ctx.key
           A == adjust_offset(sl, ctx)
           c == IF inv THEN [ctx EXCEPT !.key = ctx.initKey] ELSE ctx
           R == repopulate_tx(d, A, c, ~inv)
<1>1. c.key = K
  BY DEF ContextFields
<1>2. SigningKey(ctx) = ctx.initKey
  BY DEF SigningKey
<1>3. /\ DOMAIN A = SlateFields /\ DOMAIN A.tx = TxFields /\ A.id = sl.id /\ A.parts = sl.parts
      /\ A.offset = sl.offset (+) Terms({ctx.initKey}, ctx.ins, ctx.outs)
  BY DEF adjust_offset, Formed, SlateFields
<1> HIDE DEF A, c
<1>4. /\ DOMAIN R = SlateFields /\ DOMAIN R.tx = TxFields /\ R.id = sl.id
      /\ R.tx.offset = A.offset
      /\ Keys(R) = Keys(sl) \cup {K}
      /\ \A j \in Keys(R) : R.parts[j] = IF j \in Keys(sl) THEN sl.parts[j] ELSE NoSig
  <2>1. PICK u \in BOOLEAN : R = repopulate_tx(d, A, c, u)
    OBVIOUS
  <2> HIDE DEF R
  <2>. QED  BY <1>1, <1>3, <2>1, Repopulated DEF Keys
<1>5. N = fill_round_2(R, ctx.initKey)
  BY <1>2 DEF Completed, A, c
<1> HIDE DEF R, N
<1>6. /\ DOMAIN N = SlateFields /\ N.tx = R.tx /\ N.id = sl.id /\ N.fee = R.fee
      /\ N.parts = [j \in Keys(R) |-> IF j = ctx.initKey THEN [keys |-> Keys(R), fee |-> R.fee]
                                      ELSE R.parts[j]]
  BY <1>4, <1>5 DEF fill_round_2, SlateFields
<1>7. Keys(N) = Keys(R)
  BY <1>6 DEF Keys
<1>8. LET t == Term(ctx.initKey)
      IN  t \in DOMAIN sl.offset => /\ t \in DOMAIN N.tx.offset
                                    /\ N.tx.offset[t] = sl.offset[t] + 1
  <2> DEFINE X == N.tx.offset
             k == ctx.initKey
  <2>1. X = sl.offset (+) Terms({k}, ctx.ins, ctx.outs)
    BY <1>3, <1>4, <1>6
  <2> HIDE DEF X, k
  <2>2. Term(k) \in DOMAIN sl.offset => Term(k) \in DOMAIN X /\ X[Term(k)] = sl.offset[Term(k)] + 1
    BY <2>1, TermAdded
  <2>. QED  BY <2>2 DEF X, k
<1>9. \E L \in Keys(N) : \A j : j \in Keys(N) <=> j \in Keys(sl) \/ j = L
  BY <1>4, <1>7
<1>10. \A j \in Keys(N) : j # ctx.initKey =>
          N.parts[j] = IF j \in Keys(sl) THEN sl.parts[j] ELSE NoSig
  BY <1>4, <1>6, <1>7
<1>. QED  BY <1>4, <1>6, <1>8, <1>9, <1>10 DEF N

(* finalize_tx succeeds only where the answer was signed for the first key *)
(* of the context and another (finalize_signature, Transaction::validate). *)
LEMMA FinishedIs ==
    ASSUME NEW w, NEW D, NEW S, NEW d, NEW a, NEW sl, NEW ctx, NEW inv \in BOOLEAN,
           GoodSlate(D, S, sl), sl.state \in {"S2", "I2"}, DOMAIN ctx = ContextFields,
           CanComplete(w, d, a, sl, ctx, inv)
    PROVE  Finishes(finalize_slate(d, sl, ctx, inv), sl, ctx.initKey)
<1> DEFINE k == ctx.initKey
           C == Completed(d, sl, ctx, inv)
           Z == Finalized(C)
           N == finalize_slate(d, sl, ctx, inv)
<1>0. sl.tx # NoTx /\ Formed(sl)
  BY DEF CanComplete, GoodSlate
<1>1. /\ DOMAIN C = SlateFields /\ DOMAIN C.tx = TxFields /\ C.id = sl.id
      /\ \E K \in Keys(C) : \A j : j \in Keys(C) <=> j \in Keys(sl) \/ j = K
      /\ \A j \in Keys(C) : j # k =>
            C.parts[j] = IF j \in Keys(sl) THEN sl.parts[j] ELSE NoSig
      /\ LET t == Term(k)
         IN  t \in DOMAIN sl.offset => /\ t \in DOMAIN C.tx.offset
                                       /\ C.tx.offset[t] = sl.offset[t] + 1
  BY <1>0, CompletedIs
<1>2. finalize_signature(C) /\ ValidTx(Z.tx)
  BY DEF CanComplete, CanFinalize
<1>3. N = [Z EXCEPT !.state = IF inv THEN "I3" ELSE "S3", !.amount = 0]
  BY DEF finalize_slate
<1> HIDE DEF C
<1>4. /\ DOMAIN Z = SlateFields /\ DOMAIN Z.tx = TxFields /\ Z.id = sl.id /\ Z.parts = C.parts
      /\ Z.tx.offset = C.tx.offset
  BY <1>1 DEF Finalized, SlateFields, TxFields
<1> HIDE DEF Z, N
<1>5. /\ Formed(N) /\ N.id = sl.id /\ N.state \in {"S3", "I3"} /\ N.parts = C.parts
  BY <1>3, <1>4 DEF SlateFields, Formed
<1>6. PICK r \in Keys(sl) : /\ Keys(sl) = {r} /\ sl.parts[r] # NoSig /\ sl.parts[r].keys # {r}
                            /\ Term(r) \in DOMAIN sl.offset /\ sl.offset[Term(r)] \in Nat \ {0}
  BY DEF GoodSlate, Answered, Signed
<1>7. \A j \in Keys(C) : C.parts[j] # NoSig /\ C.parts[j].keys = Keys(C)
  BY <1>2 DEF finalize_signature, verify_part_sigs
<1>8. r # k
  <2> SUFFICES ASSUME r = k PROVE FALSE
    OBVIOUS
  <2> DEFINE off == C.tx.offset
  <2>1. Term(k) \in DOMAIN off /\ off[Term(k)] = sl.offset[Term(k)] + 1
    BY <1>1, <1>6
  <2>2. off = Terms(Z.tx.excess, Z.tx.ins, Z.tx.outs)
    BY <1>2, <1>4 DEF ValidTx
  <2>3. off[Term(k)] = 1
    BY <2>1, <2>2, TermsOnce
  <2>. QED  BY <1>6, <2>1, <2>3
<1>9. PICK K \in Keys(C) : \A j : j \in Keys(C) <=> j \in Keys(sl) \/ j = K
  BY <1>1
<1>9a. r \in Keys(C) /\ C.parts[r] = sl.parts[r]
  BY <1>1, <1>6, <1>8, <1>9
<1>10. K # r
  BY <1>6, <1>7, <1>9, <1>9a
<1>11. K = k
  <2>1. K \in Keys(C) /\ K \notin Keys(sl)
    BY <1>6, <1>9, <1>10
  <2>2. K # k => C.parts[K] = NoSig
    BY <1>1, <2>1
  <2>. QED  BY <1>7, <2>1, <2>2
<1>12. Keys(C) = {r, k} /\ Keys(N) = {r, k}
  BY <1>5, <1>6, <1>9, <1>11 DEF Keys
<1>. QED  BY <1>5, <1>6, <1>7, <1>8, <1>9a, <1>12 DEF Finishes, N

-----------------------------------------------------------------------------
(* What the steps do to the contexts of a wallet and to the count of keys. *)

Kept(d, e) == {"ctx", "draws"} \subseteq DOMAIN e /\ e.ctx = d.ctx /\ e.draws = d.draws

(* Locking, filing and cancelling touch neither.                           *)
LEMMA SaveKeeps ==
    ASSUME NEW d, {"ctx", "draws"} \subseteq DOMAIN d, NEW outs, NEW a, NEW id
    PROVE  Kept(d, SavedOutputs(d, outs, a, id))
  BY DEF SavedOutputs, Kept

(* tx_lock_outputs changes coins, the log and the stored transactions.     *)
LEMMA LockKeeps ==
    ASSUME NEW d, {"ctx", "draws"} \subseteq DOMAIN d, NEW w, NEW sl
    PROVE  Kept(d, tx_lock_outputs(w, d, sl))
<1> DEFINE ctx == d.ctx[sl.id]
           id == d.nextTx[ctx.acct]
           d1 == [d EXCEPT !.coins = [c \in DOMAIN @ |->
                     IF c \in ctx.ins THEN [@[c] EXCEPT !.status = "Locked", !.log = id] ELSE @[c]]]
           d2 == SavedOutputs(d1, ctx.outs, ctx.acct, id)
           R == tx_lock_outputs(w, d, sl)
<1>1. Kept(d, d1)
  BY DEF Kept
<1> HIDE DEF d1
<1>2. Kept(d, d2)
  BY <1>1, SaveKeeps DEF Kept
<1>3. PICK e, f : R = [d2 EXCEPT !.log[<<ctx.acct, id>>] = e, !.nextTx[ctx.acct] = id + 1,
                                 !.files[sl.id] = f]
  BY DEF tx_lock_outputs, d1
<1> HIDE DEF d2, R, ctx, id
<1>4. Kept(d2, R)
  BY <1>2, <1>3 DEF Kept
<1>. QED  BY <1>2, <1>4 DEF Kept, R

(* update_tx_slate_state changes a log entry.                              *)
LEMMA UpdateKeeps ==
    ASSUME NEW d, {"ctx", "draws"} \subseteq DOMAIN d, NEW a, NEW sl
    PROVE  Kept(d, update_tx_slate_state(d, a, sl))
  BY DEF update_tx_slate_state, Kept

(* update_stored_tx changes a log entry and a stored transaction.          *)
LEMMA StoreKeeps ==
    ASSUME NEW d, {"ctx", "draws"} \subseteq DOMAIN d, NEW w, NEW a, NEW sl, NEW inv
    PROVE  Kept(d, update_stored_tx(w, d, a, sl, inv))
<1>1. PICK p, e, f : update_stored_tx(w, d, a, sl, inv)
                        = [d EXCEPT !.log[p] = e, !.files[sl.id] = f]
  BY DEF update_stored_tx
<1>. QED  BY <1>1 DEF Kept

(* cancel_tx_and_outputs changes a log entry and coins.                    *)
LEMMA CancelKeeps ==
    ASSUME NEW d, {"ctx", "draws"} \subseteq DOMAIN d, NEW p
    PROVE  Kept(d, cancel_tx_and_outputs(d, p))
<1>1. PICK c : cancel_tx_and_outputs(d, p)
                  = [d EXCEPT !.log[p].type = IF @ = "TxSent" THEN "TxSentCancelled"
                                              ELSE "TxReceivedCancelled",
                              !.coins = c]
  BY DEF cancel_tx_and_outputs
<1>. QED  BY <1>1 DEF Kept

(* Drawing a key counts it.                                                *)
OneMore(d, e, s) ==
    /\ {"ctx", "draws"} \subseteq DOMAIN e
    /\ e.ctx = d.ctx /\ e.draws = [d.draws EXCEPT ![s] = @ + 1]

(* A context is drawn under the next number of its slate.                  *)
LEMMA DrawCounts ==
    ASSUME NEW d, {"ctx", "draws"} \subseteq DOMAIN d, NEW s, NEW ctx
    PROVE  OneMore(d, Drawn(d, s, ctx), s)
  BY DEF Drawn, OneMore

(* add_output_to_slate draws one and saves output and entry besides.       *)
LEMMA ReceiveCounts ==
    ASSUME NEW d, {"ctx", "draws"} \subseteq DOMAIN d, NEW a, NEW sl, NEW ctx
    PROVE  OneMore(d, ReceivedDb(d, a, sl, ctx), sl.id)
<1> DEFINE d1 == Drawn(d, sl.id, ctx)
           d2 == SavedOutputs(d1, ctx.outs, a, d.nextTx[a])
           R == ReceivedDb(d, a, sl, ctx)
<1>1. OneMore(d, d1, sl.id)
  BY DrawCounts
<1> HIDE DEF d1
<1>2. Kept(d1, d2)
  BY <1>1, SaveKeeps DEF OneMore
<1>3. PICK e, n : R = [d2 EXCEPT !.log[<<a, d.nextTx[a]>>] = e, !.nextTx[a] = n]
  BY DEF ReceivedDb, d1
<1> HIDE DEF d2, R
<1>4. Kept(d2, R)
  BY <1>2, <1>3 DEF Kept
<1>. QED  BY <1>1, <1>2, <1>4 DEF Kept, OneMore, R

(* A step that draws no key: a context that is left was there and has its  *)
(* first key still.                                                        *)
ContextKept(d, e, s) ==
    e.ctx[s] # NoContext =>
        d.ctx[s] # NoContext /\ DOMAIN e.ctx[s] = ContextFields
            /\ e.ctx[s].initKey = d.ctx[s].initKey
Quiet(d, e) ==
    WalletOK(e) /\ e.draws = d.draws /\ \A s \in Slates : ContextKept(d, e, s)

(* A step that draws one, for slate s; a context that is new has that key. *)
Drew(w, d, e, s) ==
    /\ WalletOK(e) /\ e.draws = [d.draws EXCEPT ![s] = @ + 1]
    /\ \A t \in Slates :
          \/ ContextKept(d, e, t)
          \/ t = s /\ DOMAIN e.ctx[s] = ContextFields /\ e.ctx[s].initKey = NextKey(w, d, s)

Good(w, d) == WalletOK(d) /\ \A s \in Slates : ContextOK(w, d, s)

(* A step that leaves the contexts alone is quiet.                         *)
LEMMA KeptIsQuiet ==
    ASSUME NEW w, NEW d, Good(w, d), NEW e, Kept(d, e)
    PROVE  Quiet(d, e)
  BY DEF Good, WalletOK, Kept, Quiet, ContextKept, ContextOK

(* Two quiet steps in a row are quiet, as when an answered send locks its  *)
(* coins and finalizes.                                                    *)
LEMMA QuietTwice ==
    ASSUME NEW d, NEW e, NEW f, Quiet(d, e), Quiet(e, f)
    PROVE  Quiet(d, f)
  BY DEF Quiet, ContextKept

(* A key drawn for a context that is not stored, as in receive_tx.         *)
LEMMA OneMoreDrew ==
    ASSUME NEW w, NEW d, Good(w, d), NEW s \in Slates, NEW e, OneMore(d, e, s)
    PROVE  Drew(w, d, e, s)
<1>1. e.draws \in [Slates -> Nat]
  BY DEF Good, WalletOK, OneMore
<1>. QED  BY <1>1 DEF Good, WalletOK, OneMore, Drew, ContextKept, ContextOK

-----------------------------------------------------------------------------
(* The steps of an exchange, in these terms.                               *)

NewKeyed(w, d, s, ctx) ==
    DOMAIN ctx = ContextFields /\ ctx.key = NextKey(w, d, s) /\ ctx.initKey = ctx.key

(* A context that is built has the next key of its slate as both its keys. *)
LEMMA BuiltContexts ==
    ASSUME NEW w, NEW d, NEW a, NEW sl
    PROVE  /\ \A c : NewKeyed(w, d, sl.id, build_send_tx(w, d, a, sl, c))
           /\ \A c, late, proof : NewKeyed(w, d, sl.id, InitContext(w, d, a, sl, c, late, proof))
           /\ NewKeyed(w, d, sl.id, build_recipient_output(w, d, a, sl))
<1> DEFINE N == NewContext(w, sl.id, d.draws[sl.id] + 1, a)
<1>1. NewKeyed(w, d, sl.id, N)
  BY DEF NewContext, NewKeyed, ContextFields, NextKey
<1> HIDE DEF N
<1>2. ASSUME NEW c
      PROVE  NewKeyed(w, d, sl.id, build_send_tx(w, d, a, sl, c))
  BY <1>1 DEF build_send_tx, NewKeyed, ContextFields, N
<1>3. ASSUME NEW c, NEW late, NEW proof
      PROVE  NewKeyed(w, d, sl.id, InitContext(w, d, a, sl, c, late, proof))
  <2> DEFINE b == build_send_tx(w, d, a, sl, c)
  <2>1. NewKeyed(w, d, sl.id, b)
    BY <1>2
  <2>2. PICK i, o, l, x : InitContext(w, d, a, sl, c, late, proof)
                             = [b EXCEPT !.ins = i, !.outs = o, !.late = l, !.index = x]
    BY DEF InitContext
  <2> HIDE DEF b
  <2>. QED  BY <2>1, <2>2 DEF NewKeyed, ContextFields
<1>4. NewKeyed(w, d, sl.id, build_recipient_output(w, d, a, sl))
  BY <1>1 DEF build_recipient_output, NewKeyed, ContextFields, N
<1>. QED  BY <1>2, <1>3, <1>4

(* A context with the key that was just drawn, or with the first key of    *)
(* the one it replaces, is put into the database.                          *)
LEMMA ContextPut ==
    ASSUME NEW w, NEW d, Good(w, d), NEW s \in Slates, NEW e, OneMore(d, e, s),
           NEW ctx, DOMAIN ctx = ContextFields,
           \/ ctx.initKey = NextKey(w, d, s)
           \/ d.ctx[s] # NoContext /\ ctx.initKey = d.ctx[s].initKey,
           NEW f, f = [e EXCEPT !.ctx[s] = ctx]
    PROVE  Drew(w, d, f, s)
<1>1. /\ {"ctx", "draws"} \subseteq DOMAIN f /\ f.draws = e.draws
      /\ f.ctx = [d.ctx EXCEPT ![s] = ctx]
  BY DEF OneMore
<1>2. Drew(w, d, e, s)
  BY OneMoreDrew
<1>3. WalletOK(f) /\ f.draws = [d.draws EXCEPT ![s] = @ + 1]
  BY <1>1, <1>2 DEF Drew, WalletOK, Good
<1>4. \A t \in Slates : f.ctx[t] = IF t = s THEN ctx ELSE d.ctx[t]
  BY <1>1 DEF Good, WalletOK
<1>. QED  BY <1>3, <1>4 DEF Drew, ContextKept, Good, ContextOK

(* init_send_tx, issue_invoice_tx, receive_tx and process_invoice_tx each  *)
(* draw one key.                                                           *)
LEMMA SendDraws ==
    ASSUME NEW w, NEW d, Good(w, d), NEW sl, sl.id \in Slates, NEW ctx,
           NewKeyed(w, d, sl.id, ctx)
    PROVE  Drew(w, d, init_send_db(d, sl, ctx), sl.id)
<1> DEFINE e == Drawn(d, sl.id, ctx)
           f == init_send_db(d, sl, ctx)
<1>1. OneMore(d, e, sl.id)
  BY DrawCounts DEF Good, WalletOK
<1>2. f = [e EXCEPT !.ctx[sl.id] = ctx]
  BY DEF init_send_db
<1> HIDE DEF e, f
<1>3. Drew(w, d, f, sl.id)
  BY <1>1, <1>2, ContextPut DEF NewKeyed
<1>. QED  BY <1>3 DEF f

(* issue_invoice_tx stores the context of the output it adds.              *)
LEMMA IssueDraws ==
    ASSUME NEW w, NEW d, Good(w, d), NEW a, NEW sl, sl.id \in Slates, NEW ctx,
           NewKeyed(w, d, sl.id, ctx)
    PROVE  Drew(w, d, issue_db(d, a, sl, ctx), sl.id)
<1> DEFINE e == ReceivedDb(d, a, sl, ctx)
           f == issue_db(d, a, sl, ctx)
<1>1. OneMore(d, e, sl.id)
  BY ReceiveCounts DEF Good, WalletOK
<1>2. f = [e EXCEPT !.ctx[sl.id] = ctx]
  BY DEF issue_db
<1> HIDE DEF e, f
<1>3. Drew(w, d, f, sl.id)
  BY <1>1, <1>2, ContextPut DEF NewKeyed
<1>. QED  BY <1>3 DEF f

(* The slate an output is added to keeps its id.                           *)
LEMMA ReceivedId ==
    ASSUME NEW w, NEW a, NEW sl, Formed(sl), NEW ctx
    PROVE  ReceivedSlate(w, a, sl, ctx).id = sl.id
<1> DEFINE s1 == add_transaction_elements([sl EXCEPT !.tx = empty_transaction], {}, ctx.outs)
           s2 == fill_round_2(add_participant_info(s1, ctx.key), ctx.key)
           s3 == adjust_offset(s2, ctx)
<1>1. DOMAIN s1 = SlateFields /\ s1.id = sl.id
  BY DEF Formed, SlateFields, add_transaction_elements
<1> HIDE DEF s1
<1>2. DOMAIN s2 = SlateFields /\ s2.id = sl.id
  BY <1>1 DEF add_participant_info, fill_round_2, SlateFields
<1> HIDE DEF s2
<1>3. DOMAIN s3 = SlateFields /\ s3.id = sl.id
  BY <1>2 DEF adjust_offset, SlateFields
<1> HIDE DEF s3
<1>4. \E p : ReceivedSlate(w, a, sl, ctx) = [s3 EXCEPT !.proof = p]
  BY DEF ReceivedSlate, s1, s2, s3
<1>. QED  BY <1>3, <1>4 DEF SlateFields

(* receive_tx stores none.                                                 *)
LEMMA ReceiveDraws ==
    ASSUME NEW w, NEW d, Good(w, d), NEW a, NEW sl, Formed(sl), sl.id \in Slates, NEW ctx
    PROVE  Drew(w, d, receive_db(w, d, a, sl, ctx), sl.id)
<1> DEFINE R == ReceivedSlate(w, a, sl, ctx)
           e == ReceivedDb(d, a, R, ctx)
           f == receive_db(w, d, a, sl, ctx)
<1>1. R.id = sl.id
  BY ReceivedId
<1> HIDE DEF R
<1>2. OneMore(d, e, sl.id)
  BY <1>1, ReceiveCounts DEF Good, WalletOK
<1>3. f = update_tx_slate_state(e, a, receive_slate(w, a, sl, ctx))
  BY DEF receive_db, R
<1> HIDE DEF e, f
<1>4. Kept(e, f)
  BY <1>2, <1>3, UpdateKeeps DEF OneMore
<1>5. OneMore(d, f, sl.id)
  BY <1>2, <1>4 DEF OneMore, Kept
<1>. QED  BY <1>5, OneMoreDrew DEF f

(* process_invoice_tx stores its context, or merges it into the one the    *)
(* wallet made when it issued the invoice itself; that keeps its first key.*)
LEMMA PayDraws ==
    ASSUME NEW w, NEW d, Good(w, d), NEW sl, sl.id \in Slates, NEW ctx,
           NewKeyed(w, d, sl.id, ctx)
    PROVE  Drew(w, d, pay_db(d, sl, ctx), sl.id)
<1> DEFINE e == Drawn(d, sl.id, ctx)
           c == PaidContext(d, sl, ctx)
           f == pay_db(d, sl, ctx)
<1>1. OneMore(d, e, sl.id)
  BY DrawCounts DEF Good, WalletOK
<1>2. f = [e EXCEPT !.ctx[sl.id] = c]
  BY DEF pay_db
<1>3. /\ DOMAIN c = ContextFields
      /\ c.initKey = IF d.ctx[sl.id] = NoContext THEN NextKey(w, d, sl.id)
                     ELSE d.ctx[sl.id].initKey
  BY DEF PaidContext, NewKeyed, ContextFields
<1> HIDE DEF c, e, f
<1>4. Drew(w, d, f, sl.id)
  BY <1>1, <1>2, <1>3, ContextPut
<1>. QED  BY <1>4 DEF f

(* Late locking selects inputs and output for the context that is there.   *)
LEMMA LateIsQuiet ==
    ASSUME NEW w, NEW d, Good(w, d), NEW a, NEW sl, d.ctx[sl.id] # NoContext, NEW c
    PROVE  LET e == LateLocked(w, d, a, sl, c)
           IN  Quiet(d, e) /\ (sl.id \in Slates => e.ctx[sl.id] # NoContext)
<1> DEFINE s == sl.id
           ctx == LateContext(w, d, a, sl, c)
           e == [d EXCEPT !.ctx[s] = ctx, !.next = @ + Cardinality(ctx.outs)]
           f == LateLocked(w, d, a, sl, c)
<1>1. PICK i, o : ctx = [d.ctx[s] EXCEPT !.late = FALSE, !.ins = i, !.outs = o]
  BY DEF LateContext
<1> HIDE DEF ctx
<1>2. s \in Slates => /\ DOMAIN ctx = ContextFields /\ ctx.initKey = d.ctx[s].initKey
                      /\ ctx # NoContext
  BY <1>1 DEF Good, ContextOK, ContextFields, NoContext
<1>3. /\ {"ctx", "draws"} \subseteq DOMAIN e
      /\ e.ctx = [d.ctx EXCEPT ![s] = ctx] /\ e.draws = d.draws
  BY DEF Good, WalletOK
<1>4. f = tx_lock_outputs(w, e, sl)
  BY DEF LateLocked, ctx
<1> HIDE DEF e, f, s
<1>5. Kept(e, f)
  BY <1>3, <1>4, LockKeeps
<1>6. WalletOK(f) /\ f.draws = d.draws
  BY <1>3, <1>5 DEF Kept, WalletOK, Good
<1>7. \A t \in Slates : f.ctx[t] = IF t = s THEN ctx ELSE d.ctx[t]
  BY <1>3, <1>5 DEF Kept, Good, WalletOK
<1>. QED  BY <1>2, <1>6, <1>7 DEF Quiet, ContextKept, Good, ContextOK, f, s

(* A successful finalize_tx stores the transaction and deletes the context.*)
LEMMA FinalizeIsQuiet ==
    ASSUME NEW w, NEW d, Good(w, d), NEW a, NEW sl, NEW ctx, NEW inv
    PROVE  LET e == finalize_db(w, d, a, sl, ctx, inv)
           IN  Quiet(d, e) /\ (sl.id \in Slates => e.ctx[sl.id] = NoContext)
<1> DEFINE done == Finalized(Completed(d, sl, ctx, inv))
           d1 == update_stored_tx(w, d, a, done, inv)
           d2 == [d1 EXCEPT !.ctx[sl.id] = NoContext]
           f == finalize_db(w, d, a, sl, ctx, inv)
<1>1. Kept(d, d1)
  BY StoreKeeps DEF Good, WalletOK
<1>2. f = update_tx_slate_state(d2, a, finalize_slate(d, sl, ctx, inv))
  BY DEF finalize_db
<1> HIDE DEF d1
<1>3. /\ {"ctx", "draws"} \subseteq DOMAIN d2 /\ d2.draws = d.draws
      /\ d2.ctx = [d.ctx EXCEPT ![sl.id] = NoContext]
  BY <1>1 DEF Kept
<1> HIDE DEF d2, f
<1>4. Kept(d2, f)
  BY <1>2, <1>3, UpdateKeeps
<1>5. WalletOK(f) /\ f.draws = d.draws
  BY <1>3, <1>4 DEF Kept, WalletOK, Good
<1>6. \A t \in Slates : f.ctx[t] = IF t = sl.id THEN NoContext ELSE d.ctx[t]
  BY <1>3, <1>4 DEF Kept, Good, WalletOK
<1>. QED  BY <1>5, <1>6 DEF Quiet, ContextKept, Good, ContextOK, f

(* A quiet step leaves a good database good.                               *)
LEMMA QuietIsGood ==
    ASSUME NEW w, NEW d, Good(w, d), NEW e, Quiet(d, e)
    PROVE  Good(w, e)
  BY DEF Quiet, Good, ContextKept, ContextOK

(* finalize_tx never draws a key, whether it succeeds or fails; when it    *)
(* succeeds on a good slate, the context was there and is deleted.         *)
LEMMA FinalizeTx ==
    ASSUME NEW w, NEW d, Good(w, d), NEW a, NEW sl, NEW r \in finalize_tx(w, d, a, sl)
    PROVE  /\ Quiet(d, r.d)
           /\ \A D, S : GoodSlate(D, S, sl) /\ r.ok =>
                 /\ d.ctx[sl.id] # NoContext /\ r.d.ctx[sl.id] = NoContext
                 /\ Finishes(r.sl, sl, d.ctx[sl.id].initKey)
<1> DEFINE s == sl.id
           inv == sl.state = "I2"
           bad == \/ d.ctx[s] = NoContext \/ ~check_ttl(sl) \/ sl.state \notin {"S2", "I2"}
                  \/ Started(w, d, a, sl) = {}
<1>1. CASE bad
  <2>1. r = Final(FALSE, d, sl)
    BY <1>1 DEF finalize_tx
  <2>2. r.d = d /\ r.ok = FALSE
    BY <2>1 DEF Final
  <2>. QED  BY <2>2, KeptIsQuiet DEF Kept, Good, WalletOK
<1>2. CASE ~bad
  <2>1. d.ctx[s] # NoContext /\ sl.state \in {"S2", "I2"}
    BY <1>2
  <2>2. PICK e \in Started(w, d, a, sl) :
           r = LET ctx == e.ctx[s]
               IN  IF CanComplete(w, e, a, sl, ctx, inv)
                   THEN Final(TRUE, finalize_db(w, e, a, sl, ctx, inv),
                              finalize_slate(e, sl, ctx, inv))
                   ELSE Final(FALSE, e, sl)
    BY <1>2 DEF finalize_tx
  <2> DEFINE ctx == e.ctx[s]
  <2>3. Quiet(d, e) /\ (s \in Slates => ctx # NoContext)
    <3>1. CASE e = d
      BY <2>1, <3>1, KeptIsQuiet DEF Kept, Good, WalletOK
    <3>2. CASE e # d
      <4>1. PICK c : e = LateLocked(w, d, a, sl, c)
        BY <3>2 DEF Started
      <4>. QED  BY <2>1, <4>1, LateIsQuiet
    <3>. QED  BY <3>1, <3>2
  <2>4. Good(w, e)
    BY <2>3, QuietIsGood
  <2> HIDE DEF inv
  <2>5. CASE CanComplete(w, e, a, sl, ctx, inv)
    <3> DEFINE f == finalize_db(w, e, a, sl, ctx, inv)
    <3>1. r.d = f /\ r.ok = TRUE /\ r.sl = finalize_slate(e, sl, ctx, inv)
      BY <2>2, <2>5 DEF Final
    <3>2. Quiet(e, f) /\ (s \in Slates => f.ctx[s] = NoContext)
      BY <2>4, FinalizeIsQuiet
    <3>3. Quiet(d, r.d)
      BY <2>3, <3>1, <3>2, QuietTwice
    <3>4. ASSUME NEW D, NEW S, GoodSlate(D, S, sl), r.ok
          PROVE  /\ d.ctx[sl.id] # NoContext /\ r.d.ctx[sl.id] = NoContext
                 /\ Finishes(r.sl, sl, d.ctx[sl.id].initKey)
      <4>1. s \in Slates
        BY <3>4 DEF GoodSlate
      <4>2. ctx # NoContext
        BY <2>3, <4>1
      <4>3. DOMAIN ctx = ContextFields /\ ctx.initKey = d.ctx[s].initKey
        BY <2>3, <4>1, <4>2 DEF Quiet, ContextKept
      <4>4. inv \in BOOLEAN
        BY DEF inv
      <4>5. Finishes(finalize_slate(e, sl, ctx, inv), sl, ctx.initKey)
        BY <2>1, <2>5, <3>4, <4>3, <4>4, FinishedIs
      <4>. QED  BY <2>1, <3>1, <3>2, <4>1, <4>3, <4>5
    <3>. QED  BY <3>3, <3>4
  <2>6. CASE ~CanComplete(w, e, a, sl, ctx, inv)
    <3>1. r.d = e /\ r.ok = FALSE
      BY <2>2, <2>6 DEF Final
    <3>. QED  BY <2>3, <3>1
  <2>. QED  BY <2>5, <2>6
<1>. QED  BY <1>1, <1>2

-----------------------------------------------------------------------------
(* Three kinds of step keep the invariant: one that draws no key and signs *)
(* nothing, one that draws a key, and one that completes a transaction.    *)

Seen(d, S) == \A x \in S : DrawnKey(d, x[1])

(* What can reach a command after the step is a copy of a slate in New or  *)
(* of one that could before.                                               *)
Arrive(New) ==
    /\ Shapes(msgs', tor')
    /\ \A sl \in Flying(msgs', tor') :
          Formed(sl) /\ \E o \in New \cup Flying(msgs, tor) : Same(sl, o)

(* Good slates among the new ones are all that is missing for SlatesOK.    *)
LEMMA SlatesStay ==
    ASSUME SlatesOK, Ahead(db, db'), seen \subseteq seen', NEW New, Arrive(New),
           \A N \in New : GoodSlate(db', seen', N)
    PROVE  SlatesOK'
<1>1. \A o \in Flying(msgs, tor) : GoodSlate(db', seen', o)
  BY GoodStays DEF SlatesOK
<1>2. \A sl \in Flying(msgs', tor') : GoodSlate(db', seen', sl)
  BY <1>1, CopyIsGood DEF Arrive
<1>. QED  BY <1>2 DEF SlatesOK, Arrive

(* A step without a new key and a new signature: what could not be signed  *)
(* before cannot be signed after it.                                       *)
LEMMA QuietStep ==
    ASSUME Inv, DOMAIN db' = Wallets, \A w \in Wallets : Quiet(db[w], db'[w]),
           Arrive({}), seen' = seen
    PROVE  Inv'
<1>1. Ahead(db, db')
  BY DEF Inv, DbOK, WalletOK, Ahead, Quiet
<1>2. DbOK'
  BY QuietIsGood DEF Inv, DbOK, Good
<1>3. SlatesOK'
  BY <1>1, SlatesStay DEF Inv
<1>4. NoNonceReuse' /\ SeenOK'
  BY <1>1, GoodStays DEF Inv, NoNonceReuse, SeenOK
<1>5. BarredOK'
  <2> SUFFICES ASSUME NEW w \in Wallets, NEW s \in Slates, db'[w].ctx[s] # NoContext,
                      ~Unused(seen, db'[w].ctx[s].initKey), NEW sl \in Flying(msgs', tor')
               PROVE  Bars(sl, db'[w].ctx[s].initKey)
    BY DEF BarredOK, Barred
  <2>1. db[w].ctx[s] # NoContext /\ db'[w].ctx[s].initKey = db[w].ctx[s].initKey
    BY DEF Quiet, ContextKept
  <2>2. \A o \in Flying(msgs, tor) : Bars(o, db[w].ctx[s].initKey)
    BY <2>1 DEF Inv, BarredOK, Barred
  <2>. QED  BY <2>1, <2>2, CopyIsGood DEF Arrive
<1>. QED  BY <1>2, <1>3, <1>4, <1>5 DEF Inv

(* A step that draws a key: nobody has seen the key, and a new slate can   *)
(* only be an offer, or the answer to an offer that bars the other keys.   *)
LEMMA DrawStep ==
    ASSUME Inv, NEW w \in Wallets, NEW s \in Slates, DOMAIN db' = Wallets,
           Drew(w, db[w], db'[w], s), \A v \in Wallets \ {w} : Quiet(db[v], db'[v]),
           NEW New, \A x, y \in New : x = y, Arrive(New),
           \A N \in New : Fresh(N, NextKey(w, db[w], s), Flying(msgs, tor)),
           seen \subseteq seen', \A N \in New : SigsIn(N) \subseteq seen',
           \A x \in seen' \ seen : \E N \in New : x \in SigsIn(N)
    PROVE  Inv'
<1> DEFINE k == NextKey(w, db[w], s)
           F == Flying(msgs, tor)
<1>1. k = <<w, s, db[w].draws[s] + 1>> /\ db[w].draws[s] \in Nat
  BY DEF NextKey, Inv, DbOK, WalletOK
<1> HIDE DEF k
<1>2. db'[w].draws[s] = db[w].draws[s] + 1
  BY DEF Drew, Inv, DbOK, WalletOK
<1>3. ~DrawnKey(db, k)
  BY <1>1 DEF DrawnKey
<1>4. DrawnKey(db', k)
  BY <1>1, <1>2 DEF DrawnKey
<1>5. Ahead(db, db')
  <2> SUFFICES ASSUME NEW v \in Wallets, NEW t \in Slates
               PROVE  /\ db[v].draws[t] \in Nat /\ db'[v].draws[t] \in Nat
                      /\ db[v].draws[t] <= db'[v].draws[t]
    BY DEF Ahead
  <2>1. db[v].draws \in [Slates -> Nat]
    BY DEF Inv, DbOK, WalletOK
  <2>2. CASE v = w
    BY <2>1, <2>2 DEF Drew
  <2>3. CASE v # w
    BY <2>1, <2>3 DEF Quiet
  <2>. QED  BY <2>2, <2>3
<1>6. \A v \in Wallets, t \in Slates : db'[v].ctx[t] # NoContext =>
         \/ /\ db[v].ctx[t] # NoContext /\ DOMAIN db'[v].ctx[t] = ContextFields
            /\ db'[v].ctx[t].initKey = db[v].ctx[t].initKey
         \/ /\ v = w /\ t = s /\ DOMAIN db'[v].ctx[t] = ContextFields
            /\ db'[v].ctx[t].initKey = k
  BY DEF Quiet, Drew, ContextKept, k
<1>7. \A v \in Wallets, t \in Slates : db[v].ctx[t] # NoContext =>
         /\ DrawnKey(db, db[v].ctx[t].initKey)
         /\ \E n \in 1 .. db[v].draws[t] : db[v].ctx[t].initKey = <<v, t, n>>
  <2> SUFFICES ASSUME NEW v \in Wallets, NEW t \in Slates, db[v].ctx[t] # NoContext
               PROVE  /\ DrawnKey(db, db[v].ctx[t].initKey)
                      /\ \E n \in 1 .. db[v].draws[t] : db[v].ctx[t].initKey = <<v, t, n>>
    OBVIOUS
  <2>1. PICK n \in 1 .. db[v].draws[t] : db[v].ctx[t].initKey = <<v, t, n>>
    BY DEF Inv, DbOK, ContextOK
  <2>2. db[v].draws[t] \in Nat
    BY DEF Inv, DbOK, WalletOK
  <2>3. DrawnKey(db, <<v, t, n>>)
    BY <2>2 DEF DrawnKey
  <2>. QED  BY <2>1, <2>3
<1>8. DbOK'
  <2>1. \A v \in Wallets : WalletOK(db'[v])
    BY DEF Drew, Quiet
  <2>2. ASSUME NEW v \in Wallets, NEW t \in Slates
        PROVE  ContextOK(v, db'[v], t)
    <3>1. CASE db'[v].ctx[t] = NoContext
      BY <3>1 DEF ContextOK
    <3>2. CASE /\ db[v].ctx[t] # NoContext /\ DOMAIN db'[v].ctx[t] = ContextFields
               /\ db'[v].ctx[t].initKey = db[v].ctx[t].initKey
      <4>1. PICK n \in 1 .. db[v].draws[t] : db'[v].ctx[t].initKey = <<v, t, n>>
        BY <1>7, <3>2
      <4>2. n \in 1 .. db'[v].draws[t]
        BY <1>5 DEF Ahead
      <4>. QED  BY <3>2, <4>1, <4>2 DEF ContextOK
    <3>3. CASE /\ v = w /\ t = s /\ DOMAIN db'[v].ctx[t] = ContextFields
               /\ db'[v].ctx[t].initKey = k
      BY <1>1, <1>2, <3>3 DEF ContextOK
    <3>. QED  BY <1>6, <3>1, <3>2, <3>3
  <2>. QED  BY <2>1, <2>2 DEF DbOK
<1>9. \A o \in F : GoodSlate(db, seen, o)
  BY DEF Inv, SlatesOK
<1>10. \A o \in F : /\ \A j \in Keys(o) : DrawnKey(db, j)
                    /\ \A j \in Keys(o) : o.parts[j] # NoSig =>
                          \A i \in o.parts[j].keys : DrawnKey(db, i)
  BY <1>9, GoodIsDrawn DEF Inv, SeenOK
<1> HIDE DEF F
<1>11. \A N \in New : Fresh(N, k, F)
  BY DEF k, F
<1>12. \A N \in New : \A x \in SigsIn(N) : x = <<k, N.parts[k]>>
  BY <1>11 DEF SigsIn, Fresh
<1>13. \A x \in seen : DrawnKey(db, x[1]) /\ x[1] # k
  BY <1>3 DEF Inv, SeenOK
<1>14. NoNonceReuse'
  <2> SUFFICES ASSUME NEW x \in seen', NEW y \in seen', x[1] = y[1]
               PROVE  x[2] = y[2]
    BY DEF NoNonceReuse
  <2>1. CASE x \in seen /\ y \in seen
    BY <2>1 DEF Inv, NoNonceReuse
  <2>2. CASE x \notin seen
    <3>1. PICK N \in New : x = <<k, N.parts[k]>>
      BY <1>12, <2>2
    <3>2. y \notin seen
      BY <1>13, <3>1
    <3>3. PICK M \in New : y = <<k, M.parts[k]>>
      BY <1>12, <3>2
    <3>. QED  BY <3>1, <3>3
  <2>3. CASE y \notin seen /\ x \in seen
    <3>1. PICK M \in New : y = <<k, M.parts[k]>>
      BY <1>12, <2>3
    <3>. QED  BY <1>13, <2>3, <3>1
  <2>. QED  BY <2>1, <2>2, <2>3
<1>15. SeenOK'
  <2> SUFFICES ASSUME NEW x \in seen' PROVE DrawnKey(db', x[1])
    BY DEF SeenOK
  <2>1. CASE x \in seen
    BY <1>5, <1>13, <2>1, GoodStays
  <2>2. CASE x \notin seen
    BY <1>4, <1>12, <2>2
  <2>. QED  BY <2>1, <2>2
<1>16. \A N \in New : GoodSlate(db', seen', N)
  <2> SUFFICES ASSUME NEW N \in New PROVE GoodSlate(db', seen', N)
    OBVIOUS
  <2>1. Formed(N) /\ N.id \in Slates /\ Keys(N) = {k}
    BY <1>11 DEF Fresh
  <2>2. CASE N.state \in {"S1", "I1"} /\ DOMAIN N.offset = {} /\ N.parts[k] = NoSig
    <3>1. Offered(db', N)
      BY <1>4, <2>1, <2>2 DEF Offered
    <3>. QED  BY <2>1, <2>2, <3>1 DEF GoodSlate, SlateState
  <2>3. CASE /\ N.state \in {"S2", "I2"}
             /\ Term(k) \in DOMAIN N.offset /\ N.offset[Term(k)] \in Nat \ {0}
             /\ N.parts[k] # NoSig
             /\ \E o \in F : o.state \in {"S1", "I1"} /\ N.parts[k].keys = Keys(o) \cup {k}
    <3>1. PICK o \in F : o.state \in {"S1", "I1"} /\ N.parts[k].keys = Keys(o) \cup {k}
      BY <2>3
    <3>2. \A j \in Keys(o) : DrawnKey(db, j) /\ DrawnKey(db', j) /\ j # k
      BY <1>3, <1>5, <1>10, GoodStays
    <3>3. Keys(o) # {}
      BY <1>9, <3>1 DEF GoodSlate, Offered
    <3>4. <<k, N.parts[k]>> \in seen'
      BY <2>1, <2>3 DEF SigsIn
    <3>5. Signed(db', seen', N, k)
      BY <1>4, <2>3, <3>1, <3>2, <3>4 DEF Signed
    <3>6. Answered(db', seen', N)
      BY <2>1, <2>3, <3>1, <3>2, <3>3, <3>5 DEF Answered
    <3>. QED  BY <2>1, <2>3, <3>6 DEF GoodSlate, SlateState
  <2>. QED  BY <1>11, <2>2, <2>3 DEF Fresh
<1>17. SlatesOK'
  BY <1>5, <1>16, SlatesStay DEF Inv
<1>18. BarredOK'
  <2> SUFFICES ASSUME NEW v \in Wallets, NEW t \in Slates, db'[v].ctx[t] # NoContext,
                      ~Unused(seen', db'[v].ctx[t].initKey), NEW sl \in Flying(msgs', tor')
               PROVE  Bars(sl, db'[v].ctx[t].initKey)
    BY DEF BarredOK, Barred
  <2> DEFINE i == db'[v].ctx[t].initKey
  <2>1. PICK o \in New \cup F : Same(sl, o)
    BY DEF Arrive, F
  <2>2. SUFFICES Bars(o, i)
    BY <2>1, CopyIsGood
  <2>3. CASE db[v].ctx[t] # NoContext /\ i = db[v].ctx[t].initKey
    <3>1. DrawnKey(db, i) /\ i # k
      BY <1>3, <1>7, <2>3
    <3>2. ~Unused(seen, i)
      BY <1>12, <3>1 DEF Unused
    <3>3. \A p \in F : Bars(p, i)
      BY <2>3, <3>2 DEF Inv, BarredOK, Barred, F
    <3>4. CASE o \in New
      <4>1. Keys(o) = {k}
        BY <1>11, <3>4 DEF Fresh
      <4>2. ASSUME o.state \in {"S2", "I2"}
            PROVE  i \notin o.parts[k].keys
        <5>1. PICK p \in F : p.state \in {"S1", "I1"} /\ o.parts[k].keys = Keys(p) \cup {k}
          BY <1>11, <3>4, <4>2 DEF Fresh
        <5>2. i \notin Keys(p)
          BY <3>3, <5>1 DEF Bars
        <5>. QED  BY <3>1, <5>1, <5>2
      <4>. QED  BY <3>1, <4>1, <4>2 DEF Bars
    <3>. QED  BY <3>3, <3>4
  <2>4. CASE i = k
    <3>1. CASE o \in F
      <4>1. k \notin Keys(o)
        BY <1>3, <1>10, <3>1
      <4>2. ASSUME o.state \in {"S2", "I2"}, NEW j \in Keys(o)
            PROVE  k \notin o.parts[j].keys
        <5>1. o.parts[j] # NoSig
          BY <1>9, <3>1, <4>2 DEF GoodSlate, Answered, Signed
        <5>. QED  BY <1>3, <1>10, <3>1, <5>1
      <4>. QED  BY <2>4, <4>1, <4>2 DEF Bars
    <3>2. CASE o \in New
      <4>1. PICK x \in seen' : x[1] = k
        BY <2>4 DEF Unused
      <4>2. PICK N \in New : x \in SigsIn(N)
        BY <1>13, <4>1
      <4>3. o = N
        BY <3>2
      <4>4. Keys(o) = {k} /\ o.parts[k] # NoSig
        BY <1>11, <4>2, <4>3 DEF Fresh, SigsIn
      <4>5. o.state \in {"S2", "I2"}
        BY <1>11, <3>2, <4>4 DEF Fresh
      <4>. QED  BY <2>4, <4>4, <4>5 DEF Bars
    <3>. QED  BY <3>1, <3>2
  <2>. QED  BY <1>6, <2>3, <2>4
<1>. QED  BY <1>8, <1>14, <1>15, <1>17, <1>18 DEF Inv

(* A step that completes a transaction: the slate was signed for the       *)
(* context's first key, so that key was not barred, so it had not signed.  *)
LEMMA FinishStep ==
    ASSUME Inv, NEW w \in Wallets, DOMAIN db' = Wallets,
           \A v \in Wallets : Quiet(db[v], db'[v]),
           NEW sl, Formed(sl), NEW q \in Flying(msgs, tor), Same(sl, q),
           db[w].ctx[sl.id] # NoContext, db'[w].ctx[sl.id] = NoContext,
           NEW N, Finishes(N, sl, db[w].ctx[sl.id].initKey), Arrive({N}),
           seen' = seen \cup SigsIn(N)
    PROVE  Inv'
<1> DEFINE k == db[w].ctx[sl.id].initKey
           s == sl.id
           F == Flying(msgs, tor)
<1>1. Ahead(db, db')
  BY DEF Inv, DbOK, WalletOK, Ahead, Quiet
<1>2. DbOK'
  BY QuietIsGood DEF Inv, DbOK, Good
<1>3. GoodSlate(db, seen, sl)
  BY CopyIsGood DEF Inv, SlatesOK
<1>4. s \in Slates
  BY <1>3 DEF GoodSlate
<1>5. PICK n \in 1 .. db[w].draws[s] : k = <<w, s, n>>
  BY <1>4 DEF Inv, DbOK, ContextOK
<1>6. DrawnKey(db, k)
  <2>1. db[w].draws[s] \in Nat
    BY <1>4 DEF Inv, DbOK, WalletOK
  <2> HIDE DEF k, s
  <2>. QED  BY <1>4, <1>5, <2>1 DEF DrawnKey
<1> HIDE DEF k
<1>7. Finishes(N, sl, k)
  BY DEF k
<1>8. PICK r \in Keys(sl) :
          /\ Keys(sl) = {r} /\ r # k /\ k \in sl.parts[r].keys
          /\ Keys(N) = {r, k} /\ N.parts[r] = sl.parts[r] /\ N.parts[r] # NoSig
          /\ N.parts[r].keys = {r, k} /\ N.parts[k] # NoSig /\ N.parts[k].keys = {r, k}
  BY <1>7 DEF Finishes
<1>9. <<r, N.parts[r]>> \in seen /\ DrawnKey(db, r)
  <2>1. sl.state \in {"S2", "I2"}
    BY <1>7 DEF Finishes
  <2>2. <<r, N.parts[r]>> \in seen
    BY <1>3, <1>8, <2>1 DEF GoodSlate, Answered, Signed
  <2>. QED  BY <2>2 DEF Inv, SeenOK
<1>10. Unused(seen, k)
  <2>1. ~Bars(sl, k)
    BY <1>7, <1>8 DEF Bars, Finishes
  <2>2. ~Bars(q, k)
    BY <2>1, CopyIsGood
  <2>. QED  BY <1>4, <2>2 DEF Inv, BarredOK, Barred, k
<1>11. SigsIn(N) = {<<r, N.parts[r]>>, <<k, N.parts[k]>>}
  BY <1>8 DEF SigsIn
<1>12. \A x \in seen' : x \in seen \/ x = <<k, N.parts[k]>>
  BY <1>9, <1>11
<1>13. NoNonceReuse'
  <2> SUFFICES ASSUME NEW x \in seen', NEW y \in seen', x[1] = y[1]
               PROVE  x[2] = y[2]
    BY DEF NoNonceReuse
  <2>1. CASE x \in seen /\ y \in seen
    BY <2>1 DEF Inv, NoNonceReuse
  <2>2. CASE x \notin seen \/ y \notin seen
    <3>1. x[1] = k /\ y[1] = k
      BY <1>12, <2>2
    <3>2. x = <<k, N.parts[k]>> /\ y = <<k, N.parts[k]>>
      BY <1>10, <1>12, <3>1 DEF Unused
    <3>. QED  BY <3>2
  <2>. QED  BY <2>1, <2>2
<1>14. DrawnKey(db', k) /\ DrawnKey(db', r)
  BY <1>1, <1>6, <1>9, GoodStays
<1>15. SeenOK'
  <2> SUFFICES ASSUME NEW x \in seen' PROVE DrawnKey(db', x[1])
    BY DEF SeenOK
  <2>1. CASE x \in seen
    BY <1>1, <2>1, GoodStays DEF Inv, SeenOK
  <2>2. CASE x = <<k, N.parts[k]>>
    BY <1>14, <2>2
  <2>. QED  BY <1>12, <2>1, <2>2
<1>16. GoodSlate(db', seen', N)
  <2>1. Formed(N) /\ N.id \in Slates /\ N.state \in {"S3", "I3"}
    BY <1>4, <1>7 DEF Finishes
  <2>2. \A j \in Keys(N) : Signed(db', seen', N, j)
    BY <1>8, <1>11, <1>14 DEF Signed
  <2>3. Complete(db', seen', N)
    BY <1>8, <2>2 DEF Complete
  <2>. QED  BY <2>1, <2>3 DEF GoodSlate, SlateState
<1>17. SlatesOK'
  BY <1>1, <1>16, SlatesStay DEF Inv
<1>18. BarredOK'
  <2> SUFFICES ASSUME NEW v \in Wallets, NEW t \in Slates, db'[v].ctx[t] # NoContext,
                      ~Unused(seen', db'[v].ctx[t].initKey), NEW y \in Flying(msgs', tor')
               PROVE  Bars(y, db'[v].ctx[t].initKey)
    BY DEF BarredOK, Barred
  <2> DEFINE i == db'[v].ctx[t].initKey
  <2>1. db[v].ctx[t] # NoContext /\ i = db[v].ctx[t].initKey
    BY DEF Quiet, ContextKept
  <2>2. PICK m \in 1 .. db[v].draws[t] : i = <<v, t, m>>
    BY <2>1 DEF Inv, DbOK, ContextOK
  <2>3. v # w \/ t # s
    OBVIOUS
  <2>4. i # k
    BY <1>5, <2>2, <2>3
  <2>5. ~Unused(seen, i)
    BY <1>12, <2>4 DEF Unused
  <2>6. \A o \in F : Bars(o, i)
    BY <2>1, <2>5 DEF Inv, BarredOK, Barred
  <2>7. Bars(N, i)
    BY <1>7 DEF Finishes, Bars
  <2>. QED  BY <2>6, <2>7, CopyIsGood DEF Arrive
<1>. QED  BY <1>2, <1>13, <1>15, <1>17, <1>18 DEF Inv

-----------------------------------------------------------------------------
(* What each way of passing a slate on makes available.                    *)

MsgsFrom(New) ==
    \A m \in msgs' : m \in msgs
        \/ /\ Shaped(m)
           /\ \A a \in Address : /\ Formed(get_slate(m, a))
                                 /\ \E o \in New \cup Flying(msgs, tor) : Same(get_slate(m, a), o)
TorFrom(New) ==
    /\ DOMAIN tor' = Wallets
    /\ \A v \in Wallets :
          \/ tor'[v] = tor[v] \/ tor'[v] = NoCmd
          \/ /\ {"sl", "answer"} \subseteq DOMAIN tor'[v]
             /\ tor'[v].sl \in New \/ (tor[v] # NoCmd /\ tor'[v].sl = tor[v].sl)
             /\ tor'[v].answer # <<>> =>
                   /\ Formed(tor'[v].answer[1])
                   /\ \E o \in New \cup Flying(msgs, tor) : Same(tor'[v].answer[1], o)

(* What the next command can be given comes from messages and from commands*)
(* that wait, and both from slates that were in flight or are new.         *)
LEMMA Arrives ==
    ASSUME SlatesOK, NEW New, \A N \in New : Formed(N), MsgsFrom(New), TorFrom(New)
    PROVE  Arrive(New)
<1>1. Shapes(msgs', tor')
  <2>1. \A m \in msgs' : Shaped(m)
    BY DEF MsgsFrom, SlatesOK, Shapes
  <2>2. \A w \in Wallets : tor'[w] # NoCmd => {"sl", "answer"} \subseteq DOMAIN tor'[w]
    BY DEF TorFrom, SlatesOK, Shapes
  <2>. QED  BY <2>1, <2>2 DEF Shapes, TorFrom
<1>2. \A o \in Flying(msgs, tor) : Formed(o)
  BY DEF SlatesOK, GoodSlate
<1>3. ASSUME NEW sl \in Flying(msgs', tor')
      PROVE  Formed(sl) /\ \E o \in New \cup Flying(msgs, tor) : Same(sl, o)
  <2>1. CASE sl \in New \cup Flying(msgs, tor)
    BY <1>2, <2>1 DEF Same
  <2>2. CASE \E m \in msgs', a \in Address : sl = get_slate(m, a)
    <3>1. PICK m \in msgs', a \in Address : sl = get_slate(m, a)
      BY <2>2
    <3>2. CASE m \in msgs
      BY <2>1, <3>1, <3>2 DEF Flying
    <3>3. CASE m \notin msgs
      BY <3>1, <3>3 DEF MsgsFrom
    <3>. QED  BY <3>2, <3>3
  <2>3. CASE \E v \in Wallets : tor'[v] # NoCmd /\ sl = tor'[v].sl
    <3>1. PICK v \in Wallets : tor'[v] # NoCmd /\ sl = tor'[v].sl
      BY <2>3
    <3>2. sl \in New \/ (tor[v] # NoCmd /\ sl = tor[v].sl)
      BY <3>1 DEF TorFrom
    <3>3. sl \in New \cup Flying(msgs, tor)
      BY <3>2 DEF Flying
    <3>. QED  BY <2>1, <3>3
  <2>4. CASE \E v \in Wallets : /\ tor'[v] # NoCmd /\ tor'[v].answer # <<>>
                                /\ sl = tor'[v].answer[1]
    <3>1. PICK v \in Wallets : /\ tor'[v] # NoCmd /\ tor'[v].answer # <<>>
                               /\ sl = tor'[v].answer[1]
      BY <2>4
    <3>2. CASE tor'[v] = tor[v]
      <4>1. sl \in Flying(msgs, tor)
        BY <3>1, <3>2 DEF Flying
      <4>. QED  BY <2>1, <4>1
    <3>. QED  BY <3>1, <3>2 DEF TorFrom
  <2>. QED  BY <2>2, <2>3, <2>4 DEF Flying
<1>. QED  BY <1>1, <1>3 DEF Arrive

(* A slate is written as a message, or nothing is.                         *)
LEMMA MessageFrom ==
    ASSUME NEW w, NEW a, NEW N, N.state \in SlateState, NEW dest, NEW New,
           N \in New \cup Flying(msgs, tor), Publish(Message(w, a, N, dest), N)
    PROVE  MsgsFrom(New)
<1> DEFINE M == Message(w, a, N, dest)
<1>1. \A b : Same(get_slate(M, b), N) /\ Formed(get_slate(M, b)) /\ Shaped(M)
  BY MessageKeeps DEF Message
<1> HIDE DEF M
<1>2. msgs' = msgs \cup {M}
  BY DEF Publish, M
<1>. QED  BY <1>1, <1>2 DEF MsgsFrom

(* No message is written.                                                  *)
LEMMA NoMessageFrom ==
    ASSUME UNCHANGED msgs, NEW New
    PROVE  MsgsFrom(New)
  BY DEF MsgsFrom

(* A command starts to wait, gets its answer, ends, or none does.          *)
LEMMA TorFromStart ==
    ASSUME SlatesOK, NEW w \in Wallets, NEW cmd, NEW a, NEW N, NEW dest,
           tor' = [tor EXCEPT ![w] = TorCmd(cmd, a, N, dest)]
    PROVE  TorFrom({N})
  BY DEF SlatesOK, Shapes, TorFrom, TorCmd

(* A waiting command gets its answer and keeps the slate it sent.          *)
LEMMA TorFromAnswer ==
    ASSUME SlatesOK, NEW v \in Wallets, tor[v] # NoCmd, NEW sl, Answer(v, sl)
    PROVE  TorFrom({sl})
<1>1. /\ DOMAIN tor' = Wallets /\ \A u \in Wallets \ {v} : tor'[u] = tor[u]
      /\ tor'[v] = [tor[v] EXCEPT !.answer = <<over_tor(sl)>>]
  BY DEF SlatesOK, Shapes, Answer
<1>2. {"sl", "answer"} \subseteq DOMAIN tor[v]
  BY DEF SlatesOK, Shapes
<1>3. /\ {"sl", "answer"} \subseteq DOMAIN tor'[v] /\ tor'[v].sl = tor[v].sl
      /\ tor'[v].answer[1] = over_tor(sl)
  BY <1>1, <1>2
<1>. QED  BY <1>1, <1>3, TorKeeps DEF TorFrom

(* A command ends.                                                         *)
LEMMA TorFromEnd ==
    ASSUME SlatesOK, NEW w \in Wallets, tor' = [tor EXCEPT ![w] = NoCmd], NEW New
    PROVE  TorFrom(New)
  BY DEF SlatesOK, Shapes, TorFrom

(* No command starts, is answered or ends.                                 *)
LEMMA TorFromNone ==
    ASSUME SlatesOK, UNCHANGED tor, NEW New
    PROVE  TorFrom(New)
  BY DEF SlatesOK, Shapes, TorFrom

(* One wallet's database changes, or none.                                 *)
LEMMA OneChanges ==
    ASSUME Inv, NEW w \in Wallets, NEW d, db' = [db EXCEPT ![w] = d]
    PROVE  /\ DOMAIN db' = Wallets /\ db'[w] = d /\ Good(w, db[w])
           /\ \A v \in Wallets \ {w} : Quiet(db[v], db'[v])
<1>1. DOMAIN db' = Wallets /\ db'[w] = d /\ \A v \in Wallets \ {w} : db'[v] = db[v]
  BY DEF Inv, DbOK
<1>2. \A v \in Wallets : Good(v, db[v]) /\ Kept(db[v], db[v])
  BY DEF Inv, DbOK, Good, Kept, WalletOK
<1>. QED  BY <1>1, <1>2, KeptIsQuiet

(* No database changes.                                                    *)
LEMMA NoneChanges ==
    ASSUME Inv, UNCHANGED db
    PROVE  DOMAIN db' = Wallets /\ \A v \in Wallets : Quiet(db[v], db'[v])
<1>1. \A v \in Wallets : Good(v, db[v]) /\ Kept(db[v], db[v])
  BY DEF Inv, DbOK, Good, Kept, WalletOK
<1>. QED  BY <1>1, KeptIsQuiet DEF Inv, DbOK

(* A key is drawn and then coins are locked, as send does.                 *)
LEMMA DrewAndKept ==
    ASSUME NEW w, NEW d, NEW e, NEW f, NEW s, Drew(w, d, e, s), Kept(e, f)
    PROVE  Drew(w, d, f, s)
  BY DEF Drew, Kept, WalletOK, ContextKept

(* fill_round_2 fails on a slate that is signed for other keys only, so    *)
(* what a new key can be added to is an offer.                             *)
LEMMA CosignNeedsOffer ==
    ASSUME NEW d, NEW S, NEW sl, GoodSlate(d, S, sl), Seen(d, S), NEW k, ~DrawnKey(d, k),
           NEW x, DOMAIN x = SlateFields, x.parts = sl.parts, CanCosign(x, k)
    PROVE  sl.state \in {"S1", "I1"} /\ DOMAIN sl.offset = {} /\ k \notin Keys(sl)
<1>1. \A j \in Keys(sl) : DrawnKey(d, j)
  BY GoodIsDrawn DEF Seen
<1>2. k \notin Keys(sl)
  BY <1>1
<1>3. \A j \in Keys(sl) : sl.parts[j] = NoSig
  <2> SUFFICES ASSUME NEW j \in Keys(sl), sl.parts[j] # NoSig PROVE FALSE
    OBVIOUS
  <2> DEFINE y == add_participant_info(x, k)
  <2>1. Keys(y) = Keys(sl) \cup {k} /\ y.parts[j] = sl.parts[j]
    BY DEF add_participant_info, SlateFields, Keys
  <2>2. verify_part_sigs(y)
    BY DEF CanCosign, CanSign
  <2> HIDE DEF y
  <2>3. k \in sl.parts[j].keys
    BY <2>1, <2>2 DEF verify_part_sigs
  <2>. QED  BY <2>3, GoodIsDrawn DEF Seen
<1>4. sl.state \in {"S1", "I1"}
  BY <1>3 DEF GoodSlate, SlateState, Answered, Complete, Signed
<1>. QED  BY <1>2, <1>4 DEF GoodSlate, Offered

-----------------------------------------------------------------------------
(* The actions.                                                            *)

(* The key that a wallet draws next was not drawn before.                  *)
LEMMA NextIsUndrawn ==
    ASSUME Inv, NEW w \in Wallets, NEW s \in Slates
    PROVE  ~DrawnKey(db, NextKey(w, db[w], s))
<1>1. db[w].draws[s] \in Nat
  BY DEF Inv, DbOK, WalletOK
<1>. QED  BY <1>1 DEF NextKey, DrawnKey

(* A slate made with a new key can be sent, and an offer is not signed.    *)
LEMMA FreshIsFormed ==
    ASSUME NEW N, NEW k, NEW F, Fresh(N, k, F)
    PROVE  Formed(N) /\ N.state \in SlateState /\ (N.state \in {"S1", "I1"} => SigsIn(N) = {})
  BY DEF Fresh, SlateState, SigsIn

(* A copy of what is in flight is a good slate for whoever is given it.    *)
LEMMA IncomingIsGood ==
    ASSUME Inv, NEW sl, Formed(sl), NEW q \in Flying(msgs, tor), Same(sl, q)
    PROVE  GoodSlate(db, seen, sl) /\ sl.id \in Slates
<1>1. GoodSlate(db, seen, sl)
  BY CopyIsGood DEF Inv, SlatesOK
<1>. QED  BY <1>1 DEF GoodSlate

(* A step that draws a key and makes one slate with it, or none.           *)
LEMMA OneDrawn ==
    ASSUME Inv, NEW w \in Wallets, NEW s \in Slates,
           NEW d, db' = [db EXCEPT ![w] = d], Drew(w, db[w], d, s),
           NEW N, Fresh(N, NextKey(w, db[w], s), Flying(msgs, tor)), Arrive({N}),
           seen' = seen \cup SigsIn(N)
    PROVE  Inv'
  BY OneChanges, DrawStep

(* A step that draws a key and makes no slate, as when receive_tx fails    *)
(* once it has saved the output.                                           *)
LEMMA NoneDrawn ==
    ASSUME Inv, NEW w \in Wallets, NEW s \in Slates,
           NEW d, db' = [db EXCEPT ![w] = d], Drew(w, db[w], d, s), Arrive({}), seen' = seen
    PROVE  Inv'
  BY OneChanges, DrawStep

(* A quiet step of one wallet that makes no slate.                         *)
LEMMA OneQuiet ==
    ASSUME Inv, NEW w \in Wallets, NEW d, db' = [db EXCEPT ![w] = d], Quiet(db[w], d),
           Arrive({}), seen' = seen
    PROVE  Inv'
  BY OneChanges, QuietStep

(* init_send_tx gives an offer and a database that has drawn its key.      *)
LEMMA InitSendIs ==
    ASSUME Inv, NEW w \in Wallets, NEW a, NEW s \in Slates, NEW amount, NEW ttl,
           NEW late, NEW proof, NEW c,
           NEW r, r = InitSend(w, a, s, amount, ttl, late, proof, c)
    PROVE  /\ Drew(w, db[w], r.d, s)
           /\ Fresh(r.sl, NextKey(w, db[w], s), Flying(msgs, tor)) /\ SigsIn(r.sl) = {}
<1> DEFINE sl == InitSlate(s, amount, ttl)
           ctx == InitContext(w, db[w], a, sl, c, late, proof)
           N == init_send_slate(w, a, sl, ctx, proof)
<1>1. sl.id = s
  BY DEF InitSlate, blank
<1>2. Good(w, db[w])
  BY DEF Inv, DbOK, Good
<1>3. r.d = init_send_db(db[w], sl, ctx) /\ r.sl = N
  BY DEF InitSend
<1>4. Fresh(N, ctx.key, Flying(msgs, tor))
  BY SendOffers
<1>5. N.state = "S1"
  BY DEF init_send_slate, compact, add_participant_info, InitSlate, blank
<1> HIDE DEF N
<1>6. NewKeyed(w, db[w], sl.id, ctx)
  BY BuiltContexts
<1> HIDE DEF ctx, sl
<1>7. Drew(w, db[w], r.d, s)
  BY <1>1, <1>2, <1>3, <1>6, SendDraws
<1>. QED  BY <1>1, <1>3, <1>4, <1>5, <1>6, <1>7, FreshIsFormed DEF NewKeyed

(* A command that writes its slate as a message, locked or not.            *)
LEMMA DrawnWritten ==
    ASSUME Inv, NEW w \in Wallets, NEW a, NEW s \in Slates, NEW dest, NEW d, NEW N,
           Drew(w, db[w], d, s), db' = [db EXCEPT ![w] = d],
           Fresh(N, NextKey(w, db[w], s), Flying(msgs, tor)),
           Publish(Message(w, a, N, dest), N), UNCHANGED tor
    PROVE  Inv'
<1>1. Formed(N) /\ N.state \in SlateState
  BY FreshIsFormed
<1>2. Arrive({N})
  BY <1>1, MessageFrom, TorFromNone, Arrives DEF Inv
<1>3. seen' = seen \cup SigsIn(N)
  BY DEF Publish
<1>. QED  BY <1>2, <1>3, OneDrawn

(* The send command: init_send_tx and tx_lock_outputs.                     *)
LEMMA SendStep ==
    ASSUME Inv, NEW w \in Wallets, NEW a, NEW s \in Slates, NEW amount, NEW dest,
           NEW ttl, NEW late, NEW proof, send(w, a, s, amount, ttl, dest, late, proof)
    PROVE  Inv'
<1>1. PICK c : LET r == InitSend(w, a, s, amount, ttl, late, proof, c)
               IN  /\ db' = [db EXCEPT ![w] = tx_lock_outputs(w, r.d, r.sl)]
                   /\ Publish(Message(w, a, r.sl, dest), r.sl)
  BY DEF send
<1> DEFINE r == InitSend(w, a, s, amount, ttl, late, proof, c)
<1>2. UNCHANGED tor
  BY DEF send
<1>3. /\ Drew(w, db[w], r.d, s)
      /\ Fresh(r.sl, NextKey(w, db[w], s), Flying(msgs, tor))
  BY InitSendIs
<1>4. /\ db' = [db EXCEPT ![w] = tx_lock_outputs(w, r.d, r.sl)]
      /\ Publish(Message(w, a, r.sl, dest), r.sl)
  BY <1>1
<1> HIDE DEF r
<1>5. Drew(w, db[w], tx_lock_outputs(w, r.d, r.sl), s)
  BY <1>3, LockKeeps, DrewAndKept DEF Drew, WalletOK
<1>. QED  BY <1>2, <1>3, <1>4, <1>5, DrawnWritten

(* init_send_tx by the owner API.                                          *)
LEMMA ApiInitStep ==
    ASSUME Inv, NEW w \in Wallets, NEW a, NEW s \in Slates, NEW amount, NEW dest,
           NEW ttl, NEW late, NEW proof,
           api_init_send_tx(w, a, s, amount, ttl, dest, late, proof)
    PROVE  Inv'
<1>1. PICK c : LET r == InitSend(w, a, s, amount, ttl, late, proof, c)
               IN  /\ db' = [db EXCEPT ![w] = r.d]
                   /\ Publish(Message(w, a, r.sl, dest), r.sl)
  BY DEF api_init_send_tx
<1> DEFINE r == InitSend(w, a, s, amount, ttl, late, proof, c)
<1>2. UNCHANGED tor
  BY DEF api_init_send_tx
<1>3. /\ Drew(w, db[w], r.d, s)
      /\ Fresh(r.sl, NextKey(w, db[w], s), Flying(msgs, tor))
  BY InitSendIs
<1>4. db' = [db EXCEPT ![w] = r.d] /\ Publish(Message(w, a, r.sl, dest), r.sl)
  BY <1>1
<1> HIDE DEF r
<1>. QED  BY <1>2, <1>3, <1>4, DrawnWritten

(* The send command over Tor: the offer is shown to the recipient only.    *)
LEMMA SendTorStep ==
    ASSUME Inv, NEW w \in Wallets, NEW a, NEW s \in Slates, NEW amount, NEW dest,
           NEW ttl, NEW late, NEW proof, send_tor(w, a, s, amount, ttl, dest, late, proof)
    PROVE  Inv'
<1>1. PICK c : LET r == InitSend(w, a, s, amount, ttl, late, proof, c)
               IN  /\ db' = [db EXCEPT ![w] = r.d]
                   /\ tor' = [tor EXCEPT ![w] = TorCmd("send", a, r.sl, dest)]
  BY DEF send_tor
<1> DEFINE r == InitSend(w, a, s, amount, ttl, late, proof, c)
<1>2. UNCHANGED <<msgs, seen>>
  BY DEF send_tor
<1>3. /\ Drew(w, db[w], r.d, s)
      /\ Fresh(r.sl, NextKey(w, db[w], s), Flying(msgs, tor)) /\ SigsIn(r.sl) = {}
  BY InitSendIs
<1>4. /\ db' = [db EXCEPT ![w] = r.d]
      /\ tor' = [tor EXCEPT ![w] = TorCmd("send", a, r.sl, dest)]
  BY <1>1
<1> HIDE DEF r
<1>5. Formed(r.sl)
  BY <1>3, FreshIsFormed
<1>6. Arrive({r.sl})
  BY <1>2, <1>4, <1>5, NoMessageFrom, TorFromStart, Arrives DEF Inv
<1>. QED  BY <1>2, <1>3, <1>4, <1>6, OneDrawn

(* The invoice command: issue_invoice_tx.                                  *)
LEMMA InvoiceStep ==
    ASSUME Inv, NEW w \in Wallets, NEW a, NEW s \in Slates, NEW amount, NEW dest,
           issue_invoice_tx(w, a, s, amount, dest)
    PROVE  Inv'
<1> DEFINE sl == InvoiceSlate(s, amount)
           ctx == build_recipient_output(w, db[w], a, sl)
           N == issue_slate(sl, ctx)
<1>1. /\ db' = [db EXCEPT ![w] = issue_db(db[w], a, sl, ctx)]
      /\ Publish(Message(w, a, N, dest), N) /\ UNCHANGED tor
  BY DEF issue_invoice_tx, Inv, DbOK
<1>2. sl.id = s
  BY DEF InvoiceSlate, blank
<1>3. Good(w, db[w])
  BY DEF Inv, DbOK, Good
<1>4. Fresh(N, ctx.key, Flying(msgs, tor))
  BY InvoiceOffers
<1> HIDE DEF N
<1>5. NewKeyed(w, db[w], sl.id, ctx)
  BY BuiltContexts
<1> HIDE DEF ctx, sl
<1>6. Drew(w, db[w], issue_db(db[w], a, sl, ctx), s)
  BY <1>2, <1>3, <1>5, IssueDraws
<1>. QED  BY <1>1, <1>2, <1>4, <1>5, <1>6, DrawnWritten DEF NewKeyed

(* receive_tx, as a command or by the foreign API: it cosigns an offer.    *)
LEMMA ReceiveIs ==
    ASSUME Inv, NEW w \in Wallets, NEW a, NEW sl, Formed(sl),
           NEW q \in Flying(msgs, tor), Same(sl, q), ReceiveOk(w, a, sl)
    PROVE  /\ Drew(w, db[w], receive_db(w, db[w], a, sl, ReceiveContext(w, a, sl)), sl.id)
           /\ db' = [db EXCEPT ![w] = receive_db(w, db[w], a, sl, ReceiveContext(w, a, sl))]
           /\ Fresh(Reply(w, a, sl), NextKey(w, db[w], sl.id), Flying(msgs, tor))
<1> DEFINE ctx == ReceiveContext(w, a, sl)
           k == NextKey(w, db[w], sl.id)
           N == Reply(w, a, sl)
<1>1. CanCosign(sl, ctx.key) /\ db' = [db EXCEPT ![w] = receive_db(w, db[w], a, sl, ctx)]
  BY DEF ReceiveOk, Inv, DbOK
<1>2. GoodSlate(db, seen, sl) /\ sl.id \in Slates
  BY IncomingIsGood
<1>3. ctx.key = k /\ ctx.initKey = k
  BY BuiltContexts DEF ReceiveContext, NewKeyed
<1>4. N = receive_slate(w, a, sl, ctx)
  BY DEF Reply
<1> HIDE DEF ctx, N
<1>5. sl.state \in {"S1", "I1"} /\ DOMAIN sl.offset = {} /\ k \notin Keys(sl)
  <2>1. ~DrawnKey(db, k)
    BY <1>2, NextIsUndrawn
  <2> HIDE DEF k
  <2>. QED  BY <1>1, <1>2, <1>3, <2>1, CosignNeedsOffer DEF Inv, SeenOK, Seen, Formed
<1>6. Fresh(N, k, Flying(msgs, tor))
  <2> HIDE DEF k
  <2>. QED  BY <1>2, <1>3, <1>4, <1>5, ReplyIsFresh
<1>7. Drew(w, db[w], receive_db(w, db[w], a, sl, ctx), sl.id)
  BY <1>2, ReceiveDraws DEF Inv, DbOK, Good
<1>. QED  BY <1>1, <1>6, <1>7 DEF ctx, N

(* What a command reads from a message is in flight.                       *)
LEMMA MessageIsFlying ==
    ASSUME Inv, NEW m \in msgs, NEW w \in Wallets, NEW a \in Accts
    PROVE  /\ get_slate(m, Address0(w, a)) \in Flying(msgs, tor)
           /\ Formed(get_slate(m, Address0(w, a)))
           /\ Same(get_slate(m, Address0(w, a)), get_slate(m, Address0(w, a)))
<1>1. get_slate(m, Address0(w, a)) \in Flying(msgs, tor)
  BY DEF Flying, Address, Address0
<1>. QED  BY <1>1 DEF Inv, SlatesOK, GoodSlate, Same

(* The receive command: the reply goes out as a message or over Tor, or    *)
(* receive_tx fails with the output saved.                                 *)
LEMMA ReceiveStep ==
    ASSUME Inv, NEW w \in Wallets, NEW a \in Accts, NEW m \in msgs, receive(w, a, m)
    PROVE  Inv'
<1> DEFINE sl == get_slate(m, Address0(w, a))
           dest == get_sender(m, Address0(w, a))
           N == Reply(w, a, sl)
<1>1. sl \in Flying(msgs, tor) /\ Formed(sl) /\ Same(sl, sl)
  BY MessageIsFlying
<1>2. \/ ReceiveOk(w, a, sl) /\ Publish(Message(w, a, N, dest), N) /\ UNCHANGED tor
      \/ /\ ReceiveOk(w, a, sl) /\ tor' = [tor EXCEPT ![w] = TorCmd("reply", a, N, dest)]
         /\ seen' = seen \cup SigsIn(N) /\ UNCHANGED msgs
      \/ ReceiveFails(w, a, sl) /\ UNCHANGED <<msgs, tor, seen>>
  BY DEF receive
<1> HIDE DEF sl, dest
<1>3. sl.id \in Slates
  BY <1>1, IncomingIsGood
<1>4. CASE ReceiveOk(w, a, sl)
  <2> DEFINE d == receive_db(w, db[w], a, sl, ReceiveContext(w, a, sl))
  <2>1. /\ Drew(w, db[w], d, sl.id) /\ db' = [db EXCEPT ![w] = d]
        /\ Fresh(N, NextKey(w, db[w], sl.id), Flying(msgs, tor))
    BY <1>1, <1>4, ReceiveIs
  <2> HIDE DEF d, N
  <2>2. Formed(N) /\ N.state \in SlateState
    BY <2>1, FreshIsFormed
  <2>3. CASE Publish(Message(w, a, N, dest), N) /\ UNCHANGED tor
    BY <1>3, <2>1, <2>3, DrawnWritten
  <2>4. CASE /\ tor' = [tor EXCEPT ![w] = TorCmd("reply", a, N, dest)]
             /\ seen' = seen \cup SigsIn(N) /\ UNCHANGED msgs
    <3>1. Arrive({N})
      BY <2>2, <2>4, NoMessageFrom, TorFromStart, Arrives DEF Inv
    <3>. QED  BY <1>3, <2>1, <2>4, <3>1, OneDrawn
  <2>5. CASE ReceiveFails(w, a, sl)
    BY <1>4, <2>5 DEF ReceiveOk, ReceiveFails
  <2>. QED  BY <1>2, <2>3, <2>4, <2>5 DEF N
<1>5. CASE ReceiveFails(w, a, sl) /\ UNCHANGED <<msgs, tor, seen>>
  <2> DEFINE d == ReceivedDb(db[w], a, sl, ReceiveContext(w, a, sl))
  <2>1. db' = [db EXCEPT ![w] = d]
    BY <1>5 DEF ReceiveFails, Inv, DbOK
  <2>2. Drew(w, db[w], d, sl.id)
    BY <1>3, ReceiveCounts, OneMoreDrew DEF Inv, DbOK, Good, WalletOK
  <2> HIDE DEF d
  <2>3. Arrive({})
    BY <1>5, NoMessageFrom, TorFromNone, Arrives DEF Inv
  <2>. QED  BY <1>3, <1>5, <2>1, <2>2, <2>3, NoneDrawn
<1>. QED  BY <1>2, <1>4, <1>5

(* What a waiting command sent is a copy of what it keeps.                 *)
LEMMA SentIsFlying ==
    ASSUME NEW v \in Wallets, tor[v] # NoCmd
    PROVE  /\ tor[v].sl \in Flying(msgs, tor)
           /\ Same(over_tor(tor[v].sl), tor[v].sl) /\ Formed(over_tor(tor[v].sl))
  BY TorKeeps DEF Flying

(* An answer is for the waiting command only, which signs nothing more.    *)
LEMMA ForeignReceiveStep ==
    ASSUME Inv, NEW w \in Wallets, NEW a \in Accts, NEW v \in Wallets,
           foreign_receive_tx(w, a, v)
    PROVE  Inv'
<1> DEFINE sl == over_tor(tor[v].sl)
           N == Reply(w, a, sl)
           q == tor[v].sl
<1>1. /\ ReceiveOk(w, a, sl) /\ Answer(v, N) /\ seen' = seen \cup SigsIn(N)
      /\ tor[v] # NoCmd /\ UNCHANGED msgs
  BY DEF foreign_receive_tx, Waiting
<1>2. q \in Flying(msgs, tor) /\ Same(sl, q) /\ Formed(sl)
  BY <1>1, SentIsFlying
<1> HIDE DEF sl, q
<1>3. sl.id \in Slates
  BY <1>2, IncomingIsGood
<1> DEFINE d == receive_db(w, db[w], a, sl, ReceiveContext(w, a, sl))
<1>4. /\ Drew(w, db[w], d, sl.id) /\ db' = [db EXCEPT ![w] = d]
      /\ Fresh(N, NextKey(w, db[w], sl.id), Flying(msgs, tor))
  BY <1>1, <1>2, ReceiveIs
<1> HIDE DEF d, N
<1>5. Arrive({N})
  BY <1>1, <1>4, FreshIsFormed, NoMessageFrom, TorFromAnswer, Arrives DEF Inv
<1>. QED  BY <1>1, <1>3, <1>4, <1>5, OneDrawn

(* process_invoice_tx cosigns an offer as well.                            *)
LEMMA PayStep ==
    ASSUME Inv, NEW w \in Wallets, NEW a \in Accts, NEW m \in msgs, process_invoice(w, a, m)
    PROVE  Inv'
<1> DEFINE sl == get_slate(m, Address0(w, a))
           dest == get_sender(m, Address0(w, a))
<1>1. sl \in Flying(msgs, tor) /\ Formed(sl) /\ Same(sl, sl)
  BY MessageIsFlying
<1>2. PICK c :
        LET ctx == build_send_tx(w, db[w], a, sl, c)
            d == pay_db(db[w], sl, ctx)
            N == pay_slate(db[w], sl, ctx)
        IN  /\ CanCosign([sl EXCEPT !.fee = Fee], ctx.key)
            /\ \/ /\ db' = [db EXCEPT ![w] = tx_lock_outputs(w, d, N)]
                  /\ Publish(Message(w, a, N, dest), N) /\ UNCHANGED tor
               \/ /\ db' = [db EXCEPT ![w] = d]
                  /\ tor' = [tor EXCEPT ![w] = TorCmd("pay", a, N, dest)]
                  /\ seen' = seen \cup SigsIn(N) /\ UNCHANGED msgs
  BY DEF process_invoice
<1> HIDE DEF sl, dest
<1> DEFINE ctx == build_send_tx(w, db[w], a, sl, c)
           k == NextKey(w, db[w], sl.id)
           d == pay_db(db[w], sl, ctx)
           N == pay_slate(db[w], sl, ctx)
           x == [sl EXCEPT !.fee = Fee]
<1>3. CanCosign(x, ctx.key)
  BY <1>2
<1>4. GoodSlate(db, seen, sl) /\ sl.id \in Slates
  BY <1>1, IncomingIsGood
<1>5. NewKeyed(w, db[w], sl.id, ctx) /\ ctx.key = k /\ ctx.initKey = k /\ DOMAIN ctx = ContextFields
  <2>1. NewKeyed(w, db[w], sl.id, ctx)
    BY BuiltContexts
  <2> HIDE DEF ctx
  <2>. QED  BY <2>1 DEF NewKeyed
<1>6. \/ /\ db' = [db EXCEPT ![w] = tx_lock_outputs(w, d, N)]
         /\ Publish(Message(w, a, N, dest), N) /\ UNCHANGED tor
      \/ /\ db' = [db EXCEPT ![w] = d]
         /\ tor' = [tor EXCEPT ![w] = TorCmd("pay", a, N, dest)]
         /\ seen' = seen \cup SigsIn(N) /\ UNCHANGED msgs
  BY <1>2
<1> HIDE DEF ctx
<1>7. sl.state \in {"S1", "I1"} /\ DOMAIN sl.offset = {} /\ k \notin Keys(sl)
  <2>1. ~DrawnKey(db, k)
    BY <1>4, NextIsUndrawn
  <2>2. DOMAIN x = SlateFields /\ x.parts = sl.parts
    BY <1>1 DEF Formed, SlateFields
  <2> HIDE DEF k, x
  <2>. QED  BY <1>3, <1>4, <1>5, <2>1, <2>2, CosignNeedsOffer DEF Inv, SeenOK, Seen
<1>8. Fresh(N, k, Flying(msgs, tor))
  <2> HIDE DEF k
  <2>. QED  BY <1>1, <1>4, <1>5, <1>7, PaymentIsFresh
<1>9. Drew(w, db[w], d, sl.id)
  BY <1>4, <1>5, PayDraws DEF Inv, DbOK, Good
<1> HIDE DEF d, N
<1>10. Formed(N)
  BY <1>8, FreshIsFormed
<1>11. CASE /\ db' = [db EXCEPT ![w] = tx_lock_outputs(w, d, N)]
            /\ Publish(Message(w, a, N, dest), N) /\ UNCHANGED tor
  <2>1. Kept(d, tx_lock_outputs(w, d, N))
    BY <1>9, LockKeeps DEF Drew, WalletOK
  <2>2. Drew(w, db[w], tx_lock_outputs(w, d, N), sl.id)
    BY <1>9, <2>1, DrewAndKept
  <2>. QED  BY <1>4, <1>8, <1>11, <2>2, DrawnWritten
<1>12. CASE /\ db' = [db EXCEPT ![w] = d]
            /\ tor' = [tor EXCEPT ![w] = TorCmd("pay", a, N, dest)]
            /\ seen' = seen \cup SigsIn(N) /\ UNCHANGED msgs
  <2>1. Arrive({N})
    BY <1>10, <1>12, NoMessageFrom, TorFromStart, Arrives DEF Inv
  <2>. QED  BY <1>4, <1>8, <1>9, <1>12, <2>1, OneDrawn
<1>. QED  BY <1>6, <1>11, <1>12

(* The slate that finalize_tx gives back can be sent on.                   *)
LEMMA FinishedIsFormed ==
    ASSUME NEW N, NEW o, NEW k, Finishes(N, o, k)
    PROVE  Formed(N) /\ N.state \in SlateState
  BY DEF Finishes, SlateState

(* The finalize command: it completes a transaction or fails, late-locked  *)
(* coins staying locked.                                                   *)
LEMMA FinalizeStep ==
    ASSUME Inv, NEW w \in Wallets, NEW a \in Accts, NEW m \in msgs, NEW nopost,
           finalize(w, a, m, nopost)
    PROVE  Inv'
<1> DEFINE sl == get_slate(m, Address0(w, a))
<1>1. sl \in Flying(msgs, tor) /\ Formed(sl) /\ Same(sl, sl)
  BY MessageIsFlying
<1>2. PICK r \in finalize_tx(w, db[w], a, sl) :
        /\ db' = [db EXCEPT ![w] = r.d] /\ UNCHANGED tor
        /\ IF r.ok THEN Publish(Message(w, a, r.sl, <<>>), r.sl) ELSE UNCHANGED <<msgs, seen>>
  BY DEF finalize
<1> HIDE DEF sl
<1>3. GoodSlate(db, seen, sl) /\ sl.id \in Slates /\ Good(w, db[w])
  BY <1>1, IncomingIsGood DEF Inv, DbOK, Good
<1>4. Quiet(db[w], r.d)
  BY <1>3, FinalizeTx
<1>5. CASE r.ok
  <2>1. /\ db[w].ctx[sl.id] # NoContext /\ r.d.ctx[sl.id] = NoContext
        /\ Finishes(r.sl, sl, db[w].ctx[sl.id].initKey)
    BY <1>3, <1>5, FinalizeTx
  <2> DEFINE N == r.sl
             d == r.d
  <2>2. /\ db' = [db EXCEPT ![w] = d] /\ UNCHANGED tor
        /\ Publish(Message(w, a, N, <<>>), N) /\ seen' = seen \cup SigsIn(N)
    BY <1>2, <1>5 DEF Publish
  <2>3. /\ db[w].ctx[sl.id] # NoContext /\ d.ctx[sl.id] = NoContext
        /\ Finishes(N, sl, db[w].ctx[sl.id].initKey) /\ Quiet(db[w], d)
    BY <1>4, <2>1
  <2> HIDE DEF N, d
  <2>4. Formed(N) /\ N.state \in SlateState
    BY <2>3, FinishedIsFormed
  <2>5. Arrive({N})
    BY <2>2, <2>4, MessageFrom, TorFromNone, Arrives DEF Inv
  <2>6. /\ DOMAIN db' = Wallets /\ db'[w] = d
        /\ \A v \in Wallets : Quiet(db[v], db'[v])
    BY <2>2, <2>3, OneChanges
  <2>. QED  BY <1>1, <2>2, <2>3, <2>5, <2>6, FinishStep
<1>6. CASE ~r.ok
  <2>1. UNCHANGED <<msgs, tor, seen>> /\ db' = [db EXCEPT ![w] = r.d]
    BY <1>2, <1>6
  <2>2. Arrive({})
    BY <2>1, NoMessageFrom, TorFromNone, Arrives DEF Inv
  <2>. QED  BY <1>4, <2>1, <2>2, OneQuiet
<1>. QED  BY <1>5, <1>6

(* The foreign API's finalize_tx, which is given what a waiting reply or   *)
(* payment sent.                                                           *)
LEMMA ForeignFinalizeStep ==
    ASSUME Inv, NEW w \in Wallets, NEW a \in Accts, NEW v \in Wallets,
           foreign_finalize_tx(w, a, v)
    PROVE  Inv'
<1> DEFINE sl == over_tor(tor[v].sl)
           q == tor[v].sl
<1>1. tor[v] # NoCmd /\ UNCHANGED msgs
  BY DEF foreign_finalize_tx, Waiting
<1>2. q \in Flying(msgs, tor) /\ Same(sl, q) /\ Formed(sl)
  BY <1>1, SentIsFlying
<1>3. PICK r \in finalize_tx(w, db[w], a, sl) :
        /\ db' = [db EXCEPT ![w] = r.d]
        /\ seen' = IF r.ok THEN seen \cup SigsIn(r.sl) ELSE seen
        /\ IF r.ok THEN Answer(v, r.sl) ELSE UNCHANGED tor
  BY DEF foreign_finalize_tx
<1> HIDE DEF sl, q
<1>4. GoodSlate(db, seen, sl) /\ sl.id \in Slates /\ Good(w, db[w])
  BY <1>2, IncomingIsGood DEF Inv, DbOK, Good
<1>5. Quiet(db[w], r.d)
  BY <1>4, FinalizeTx
<1>6. CASE r.ok
  <2>1. /\ db[w].ctx[sl.id] # NoContext /\ r.d.ctx[sl.id] = NoContext
        /\ Finishes(r.sl, sl, db[w].ctx[sl.id].initKey)
    BY <1>4, <1>6, FinalizeTx
  <2> DEFINE N == r.sl
             d == r.d
  <2>2. db' = [db EXCEPT ![w] = d] /\ Answer(v, N) /\ seen' = seen \cup SigsIn(N)
    BY <1>3, <1>6
  <2>3. /\ db[w].ctx[sl.id] # NoContext /\ d.ctx[sl.id] = NoContext
        /\ Finishes(N, sl, db[w].ctx[sl.id].initKey) /\ Quiet(db[w], d)
    BY <1>5, <2>1
  <2> HIDE DEF N, d
  <2>4. Formed(N)
    BY <2>3, FinishedIsFormed
  <2>5. Arrive({N})
    BY <1>1, <2>2, <2>4, NoMessageFrom, TorFromAnswer, Arrives DEF Inv
  <2>6. /\ DOMAIN db' = Wallets /\ db'[w] = d
        /\ \A u \in Wallets : Quiet(db[u], db'[u])
    BY <2>2, <2>3, OneChanges
  <2>. QED  BY <1>2, <2>2, <2>3, <2>5, <2>6, FinishStep
<1>7. CASE ~r.ok
  <2>1. UNCHANGED <<msgs, tor, seen>> /\ db' = [db EXCEPT ![w] = r.d]
    BY <1>1, <1>3, <1>7
  <2>2. Arrive({})
    BY <2>1, NoMessageFrom, TorFromNone, Arrives DEF Inv
  <2>. QED  BY <1>5, <2>1, <2>2, OneQuiet
<1>. QED  BY <1>6, <1>7

(* The answer to a send is finalized when its coins have been locked.      *)
LEMMA SendAnsweredStep ==
    ASSUME Inv, NEW w \in Wallets, send_answered(w)
    PROVE  Inv'
<1> DEFINE sl == tor[w].answer[1]
           d1 == tx_lock_outputs(w, db[w], sl)
<1>1. PICK r \in finalize_tx(w, d1, tor[w].acct, sl) :
        /\ db' = [db EXCEPT ![w] = r.d]
        /\ seen' = IF r.ok THEN seen \cup SigsIn(r.sl) ELSE seen
  BY DEF send_answered
<1>2. UNCHANGED msgs /\ tor' = [tor EXCEPT ![w] = NoCmd]
  BY DEF send_answered
<1>3. sl \in Flying(msgs, tor)
  BY DEF send_answered, Flying
<1> HIDE DEF sl
<1>4. Formed(sl) /\ Same(sl, sl)
  BY <1>3 DEF Inv, SlatesOK, GoodSlate, Same
<1>5. GoodSlate(db, seen, sl) /\ sl.id \in Slates /\ Good(w, db[w])
  BY <1>3, <1>4, IncomingIsGood DEF Inv, DbOK, Good
<1>6. Kept(db[w], d1)
  BY <1>5, LockKeeps DEF Good, WalletOK
<1>7. Quiet(db[w], d1)
  BY <1>5, <1>6, KeptIsQuiet
<1> HIDE DEF d1
<1>8. Good(w, d1)
  BY <1>5, <1>7, QuietIsGood
<1>9. Quiet(db[w], r.d)
  BY <1>7, <1>8, FinalizeTx, QuietTwice
<1>10. CASE r.ok
  <2>1. /\ d1.ctx[sl.id] # NoContext /\ r.d.ctx[sl.id] = NoContext
        /\ Finishes(r.sl, sl, d1.ctx[sl.id].initKey)
    BY <1>5, <1>8, <1>10, FinalizeTx
  <2> DEFINE N == r.sl
             d == r.d
  <2>2. db' = [db EXCEPT ![w] = d] /\ seen' = seen \cup SigsIn(N)
    BY <1>1, <1>10
  <2>3. /\ db[w].ctx[sl.id] # NoContext /\ d.ctx[sl.id] = NoContext
        /\ Finishes(N, sl, db[w].ctx[sl.id].initKey) /\ Quiet(db[w], d)
    BY <1>6, <1>9, <2>1 DEF Kept
  <2> HIDE DEF N, d
  <2>4. Formed(N)
    BY <2>3, FinishedIsFormed
  <2>5. Arrive({N})
    BY <1>2, <2>4, NoMessageFrom, TorFromEnd, Arrives DEF Inv
  <2>6. /\ DOMAIN db' = Wallets /\ db'[w] = d
        /\ \A v \in Wallets : Quiet(db[v], db'[v])
    BY <2>2, <2>3, OneChanges
  <2>. QED  BY <1>3, <1>4, <2>2, <2>3, <2>5, <2>6, FinishStep
<1>11. CASE ~r.ok
  <2>1. Arrive({})
    BY <1>2, NoMessageFrom, TorFromEnd, Arrives DEF Inv
  <2>. QED  BY <1>1, <1>9, <1>11, <2>1, OneQuiet
<1>. QED  BY <1>10, <1>11

(* The receive and pay commands note the state of their answer.            *)
LEMMA ReplyAnsweredStep ==
    ASSUME Inv, NEW w \in Wallets, reply_answered(w)
    PROVE  Inv'
<1> DEFINE sl == tor[w].answer[1]
           d == IF Found(db[w], sl.id, AllTypes) = {} THEN db[w]
                ELSE update_tx_slate_state(db[w], tor[w].acct, sl)
<1>1. db' = [db EXCEPT ![w] = d]
  BY DEF reply_answered, Inv, DbOK
<1>2. UNCHANGED <<msgs, seen>> /\ tor' = [tor EXCEPT ![w] = NoCmd]
  BY DEF reply_answered
<1>3. Good(w, db[w])
  BY DEF Inv, DbOK, Good
<1> HIDE DEF sl
<1>4. Kept(db[w], d)
  BY <1>3, UpdateKeeps DEF Good, WalletOK, Kept
<1>5. Quiet(db[w], d)
  BY <1>3, <1>4, KeptIsQuiet
<1> HIDE DEF d
<1>6. Arrive({})
  BY <1>2, NoMessageFrom, TorFromEnd, Arrives DEF Inv
<1>. QED  BY <1>1, <1>2, <1>5, <1>6, OneQuiet

(* Without an answer, the slate that was sent is written as a message.     *)
LEMMA TorFailedStep ==
    ASSUME Inv, NEW w \in Wallets, tor_failed(w)
    PROVE  Inv'
<1> DEFINE t == tor[w]
           N == t.sl
<1>1. t # NoCmd /\ tor' = [tor EXCEPT ![w] = NoCmd]
  BY DEF tor_failed
<1>2. \/ UNCHANGED db /\ Publish(Message(w, t.acct, N, t.dest), N)
      \/ /\ db' = [db EXCEPT ![w] = tx_lock_outputs(w, db[w], N)]
         /\ Publish(Message(w, t.acct, N, t.dest), N)
      \/ UNCHANGED <<db, msgs, seen>>
  BY DEF tor_failed, Inv, DbOK
<1>3. N \in Flying(msgs, tor)
  BY <1>1, SentIsFlying
<1>4. N.state \in SlateState /\ SigsIn(N) \subseteq seen
  BY <1>3, GoodIsSeen DEF Inv, SlatesOK, GoodSlate
<1> HIDE DEF t, N
<1>5. CASE UNCHANGED db /\ Publish(Message(w, t.acct, N, t.dest), N)
  <2>1. seen' = seen
    BY <1>4, <1>5 DEF Publish
  <2>2. Arrive({})
    BY <1>1, <1>3, <1>4, <1>5, MessageFrom, TorFromEnd, Arrives DEF Inv
  <2>. QED  BY <1>5, <2>1, <2>2, NoneChanges, QuietStep
<1>6. CASE /\ db' = [db EXCEPT ![w] = tx_lock_outputs(w, db[w], N)]
           /\ Publish(Message(w, t.acct, N, t.dest), N)
  <2>1. seen' = seen
    BY <1>4, <1>6 DEF Publish
  <2>2. Arrive({})
    BY <1>1, <1>3, <1>4, <1>6, MessageFrom, TorFromEnd, Arrives DEF Inv
  <2>3. Quiet(db[w], tx_lock_outputs(w, db[w], N))
    BY LockKeeps, KeptIsQuiet DEF Inv, DbOK, Good, WalletOK
  <2>. QED  BY <1>6, <2>1, <2>2, <2>3, OneQuiet
<1>7. CASE UNCHANGED <<db, msgs, seen>>
  <2>1. Arrive({})
    BY <1>1, <1>7, NoMessageFrom, TorFromEnd, Arrives DEF Inv
  <2>. QED  BY <1>7, <2>1, NoneChanges, QuietStep
<1>. QED  BY <1>2, <1>5, <1>6, <1>7

(* Locking by the owner API, and cancelling.                               *)
LEMMA ApiLockStep ==
    ASSUME Inv, NEW w \in Wallets, NEW a, NEW s, api_tx_lock_outputs(w, a, s)
    PROVE  Inv'
<1>1. PICK sl : db' = [db EXCEPT ![w] = tx_lock_outputs(w, db[w], sl)]
  BY DEF api_tx_lock_outputs
<1>2. UNCHANGED <<msgs, tor, seen>>
  BY DEF api_tx_lock_outputs
<1>3. Quiet(db[w], tx_lock_outputs(w, db[w], sl))
  BY LockKeeps, KeptIsQuiet DEF Inv, DbOK, Good, WalletOK
<1>4. Arrive({})
  BY <1>2, NoMessageFrom, TorFromNone, Arrives DEF Inv
<1>. QED  BY <1>1, <1>2, <1>3, <1>4, OneQuiet

(* cancel_tx leaves the context.                                           *)
LEMMA CancelStep ==
    ASSUME Inv, NEW w \in Wallets, NEW p, cancel(w, p)
    PROVE  Inv'
<1>1. /\ db' = [db EXCEPT ![w] = cancel_tx_and_outputs(db[w], p)]
      /\ UNCHANGED <<msgs, tor, seen>>
  BY DEF cancel, Inv, DbOK
<1>2. Quiet(db[w], cancel_tx_and_outputs(db[w], p))
  BY CancelKeeps, KeptIsQuiet DEF Inv, DbOK, Good, WalletOK
<1>3. Arrive({})
  BY <1>1, NoMessageFrom, TorFromNone, Arrives DEF Inv
<1>. QED  BY <1>1, <1>2, <1>3, OneQuiet

(* A message that is copied wrongly still holds the signatures it held.    *)
LEMMA DamageStep ==
    ASSUME Inv, NEW m \in msgs, damage(m)
    PROVE  Inv'
<1> DEFINE x == [m EXCEPT !.data = Mangled(@)]
<1>1. m.data.mode = 0 /\ msgs' = msgs \cup {x} /\ UNCHANGED <<db, tor, seen>>
  BY DEF damage
<1>2. \A a : Same(get_slate(x, a), get_slate(m, a)) /\ Formed(get_slate(x, a)) /\ Shaped(x)
  BY <1>1, DamageKeeps DEF Inv, SlatesOK, Shapes
<1> HIDE DEF x
<1>3. MsgsFrom({})
  BY <1>1, <1>2 DEF MsgsFrom, Flying
<1>4. Arrive({})
  BY <1>1, <1>3, TorFromNone, Arrives DEF Inv
<1>. QED  BY <1>1, <1>4, NoneChanges, QuietStep

(* Posting, mining, or nothing.                                            *)
LEMMA ElsewhereStep ==
    ASSUME Inv, UNCHANGED <<db, msgs, tor, seen>>
    PROVE  Inv'
<1>1. Arrive({})
  BY NoMessageFrom, TorFromNone, Arrives DEF Inv
<1>. QED  BY <1>1, NoneChanges, QuietStep

-----------------------------------------------------------------------------
(* No wallet has a context and no slate is in flight at first.             *)
LEMMA InitInv ==
    ASSUME Init
    PROVE  Inv
<1>1. Flying(msgs, tor) = {}
  BY DEF Init, Flying
<1>2. DbOK
  BY DEF Init, DbOK, InitDb, WalletOK, ContextOK
<1>3. SlatesOK
  BY <1>1 DEF Init, SlatesOK, Shapes
<1>4. NoNonceReuse /\ SeenOK
  BY DEF Init, NoNonceReuse, SeenOK
<1>5. BarredOK
  BY <1>1 DEF Init, BarredOK, Barred
<1>. QED  BY <1>2, <1>3, <1>4, <1>5 DEF Inv

(* The commands that start an exchange.                                    *)
LEMMA StartStep ==
    ASSUME Inv, NEW w \in Wallets, NEW a \in Accts, Start(w, a)
    PROVE  Inv'
<1>1. PICK s \in Slates, amount \in Amounts, dest \in Dests :
        \/ \E ttl \in Ttls, late \in BOOLEAN, proof \in {<<>>, dest} :
              \/ send(w, a, s, amount, ttl, dest, late, proof)
              \/ api_init_send_tx(w, a, s, amount, ttl, dest, late, proof)
              \/ send_tor(w, a, s, amount, ttl, dest, late, proof)
        \/ issue_invoice_tx(w, a, s, amount, dest)
        \/ api_tx_lock_outputs(w, a, s)
  BY DEF Start
<1>. QED  BY <1>1, SendStep, ApiInitStep, SendTorStep, InvoiceStep, ApiLockStep

(* The commands that are given a slate, and the foreign API.               *)
LEMMA ContinueStep ==
    ASSUME Inv, NEW w \in Wallets, NEW a \in Accts, Continue(w, a)
    PROVE  Inv'
<1>1. ASSUME NEW m \in msgs, post(w, a, m)
      PROVE  Inv'
  BY <1>1, ElsewhereStep DEF post
<1>. QED  BY <1>1, ReceiveStep, PayStep, FinalizeStep, ForeignReceiveStep, ForeignFinalizeStep
          DEF Continue

(* Every step keeps the invariant.                                         *)
LEMMA NextInv ==
    ASSUME Inv, [Next]_vars
    PROVE  Inv'
<1>1. ASSUME NEW w \in Wallets, NEW i, repost(w, i)
      PROVE  Inv'
  BY <1>1, ElsewhereStep DEF repost
<1>2. ASSUME NEW tx, Mine(tx)
      PROVE  Inv'
  BY <1>2, ElsewhereStep DEF Mine
<1>3. CASE UNCHANGED vars
  BY <1>3, ElsewhereStep DEF vars
<1>. QED  BY <1>1, <1>2, <1>3, StartStep, ContinueStep, SendAnsweredStep, ReplyAnsweredStep,
             TorFailedStep, CancelStep, DamageStep DEF Next

(* Contexts, keys and slates in flight stay as Inv says: the wallets never *)
(* hold a context, and no message or waiting command a slate, that would   *)
(* let a key that has signed sign again.                                   *)
THEOREM Inductive == Spec => []Inv
<1>1. Init => Inv
  BY InitInv
<1>2. Inv /\ [Next]_vars => Inv'
  BY NextInv
<1>. QED  BY <1>1, <1>2, PTL DEF Spec

(* No wallet ever lets out two different signatures made with one nonce    *)
(* (Context::sec_nonce): receive_tx and process_invoice_tx draw a new one, *)
(* and finalize_tx, which deletes the context, signs with an old one only  *)
(* where it has not signed before.                                         *)
THEOREM NoncesAreUsedOnce == Spec => []NoNonceReuse
<1>1. Inv => NoNonceReuse
  BY DEF Inv
<1>. QED  BY <1>1, Inductive, PTL

=============================================================================
