------------------------------ MODULE Framing ------------------------------
(***************************************************************************)
(* The bytes of a slatepack: the binary slate (slate_versions/v4_bin.rs),  *)
(* the envelope around it and its encrypted metadata (slatepack/types.rs,  *)
(* address.rs), and the armor (slatepack/armor.rs) that carries it through *)
(* mail and chat.  SlateWire takes their round trip for granted.           *)
(*                                                                         *)
(* A byte is a number below 256.  Keys, commitments, range proofs and      *)
(* signatures have one byte each: they are of fixed width.                 *)
(***************************************************************************)
EXTENDS Integers, Sequences, SequencesExt, FiniteSets

CONSTANTS
    Senders,     \* addresses, as the bytes of their bech32 text, or <<>>
    RecipLists,  \* lists of recipients kept in the encrypted metadata
    SlateSet,    \* binary slates to carry
    MaxPad       \* bound: bytes of fields a later version may add

VARIABLES
    sp,      \* the slatepack that was made
    text,    \* its armored text, as it arrives
    how,     \* what happened on the way
    got      \* what was read

vars == <<sp, text, how, got>>

-----------------------------------------------------------------------------
(* Writer: big endian numbers.                                             *)

U16(n) == <<n \div 256, n % 256>>
U32(n) == <<0, 0>> \o U16(n)
U64(n) == <<0, 0, 0, 0>> \o U32(n)
Flag(b) == IF b THEN <<1>> ELSE <<0>>
Bits(f) == (IF f[1] THEN 1 ELSE 0) + (IF f[2] THEN 2 ELSE 0) + (IF f[3] THEN 4 ELSE 0)
           + (IF f[4] THEN 8 ELSE 0) + (IF f[5] THEN 16 ELSE 0)
Bit(n, i) == (n \div 2 ^ i) % 2 = 1
When(c, s) == IF c THEN s ELSE <<>>
Cat(ss) == FlattenSeq(ss)

(* Reader: what is left, what was read so far, and whether all was there.  *)
Reader(s) == [rest |-> s, vals |-> <<>>, ok |-> TRUE]
Fail(r) == [r EXCEPT !.ok = FALSE]
Take(r, n) ==
    IF ~r.ok \/ Len(r.rest) < n THEN Fail(r)
    ELSE [r EXCEPT !.rest = SubSeq(@, n + 1, Len(@)),
                   !.vals = Append(@, SubSeq(r.rest, 1, n))]
Skip(r, n) == IF ~r.ok \/ Len(r.rest) < n THEN Fail(r)
              ELSE [r EXCEPT !.rest = SubSeq(@, n + 1, Len(@))]
Put(r, v) == IF r.ok THEN [r EXCEPT !.vals = Append(@, v)] ELSE r
LastVal(r) == r.vals[Len(r.vals)]
(* A number above Huge asks for more than any message holds.              *)
Huge == 2 ^ 16
AtMost(n, m) == IF n < m THEN n ELSE m
Num(s) ==
    LET F[i \in 0 .. Len(s)] == IF i = 0 THEN 0 ELSE AtMost(F[i - 1] * 256 + s[i], Huge)
    IN  F[Len(s)]

(* The next step of a reader that has not failed.                          *)
Then(r, Step(_)) == IF r.ok THEN Step(r) ELSE r
Result(r, Of(_), none) == IF r.ok THEN Of(r.vals) ELSE none

TakeNum(r, n) == Then(Take(r, n), LAMBDA t : [t EXCEPT !.vals[Len(t.vals)] = Num(@)])

(* read one item n times, collecting the items in one value.               *)
Repeat(r, n, Item(_)) ==
    LET F[i \in 0 .. n] ==
            IF i = 0 THEN Put([r EXCEPT !.vals = <<>>], <<>>)
            ELSE Then(F[i - 1],
                      LAMBDA p : Then(Item([p EXCEPT !.vals = <<>>]),
                          LAMBDA q : [q EXCEPT !.vals = <<Append(p.vals[1], LastVal(q))>>]))
    IN  Then(F[n], LAMBDA t : [t EXCEPT !.vals = Append(r.vals, @[1])])

-----------------------------------------------------------------------------
(* The slate: status bytes say which optional parts follow.                *)

(* One more byte, if the flag among the values says so.                    *)
OptByte(r, flag, yes) ==
    Then(r, LAMBDA t : IF t.vals[flag] \in yes THEN Take(t, 1) ELSE Put(t, <<>>))

WriteSig(g) == Flag(g.part # <<>>) \o <<g.xs, g.nonce>> \o g.part
ReadSig(r) ==
    Then(OptByte(Take(TakeNum(r, 1), 2), 1, {1}),
         LAMBDA t : Put(t, [xs |-> t.vals[2][1], nonce |-> t.vals[2][2], part |-> t.vals[3]]))

WriteCom(c) == Flag(c.p # <<>>) \o <<c.f, c.c>> \o c.p
ReadCom(r) ==
    Then(OptByte(Take(TakeNum(r, 1), 2), 1, {1}),
         LAMBDA t : Put(t, [f |-> t.vals[2][1], c |-> t.vals[2][2], p |-> t.vals[3]]))

WriteProof(p) == <<p.saddr, p.raddr>> \o Flag(p.rsig # <<>>) \o p.rsig
ReadProof(r) ==
    Then(OptByte(TakeNum(Take(r, 2), 1), 2, 1 .. 255),
         LAMBDA t : Put(t, [saddr |-> t.vals[1][1], raddr |-> t.vals[1][2], rsig |-> t.vals[3]]))

(* SlateOptFields.  The fields are num_parts, amt, fee, feat and ttl.      *)
OptWidth == <<1, 8, 8, 1, 8>>
OptNone == <<2, 0, 0, 0, 0>>
WriteOpt(i, n) == IF OptWidth[i] = 1 THEN <<n>> ELSE U64(n)
WriteOpts(o) ==
    <<Bits([i \in 1 .. 5 |-> o[i] # OptNone[i]])>>
        \o Cat([i \in 1 .. 5 |-> When(o[i] # OptNone[i], WriteOpt(i, o[i]))])

(* The fields present, in the order given.                                 *)
ReadInOrder(r, order) ==
    Then(TakeNum(r, 1), LAMBDA s :
        LET Field(p, i) == IF p.ok /\ Bit(LastVal(s), i - 1) THEN TakeNum(p, OptWidth[i])
                           ELSE Put(p, OptNone[i])
            F[n \in 0 .. 5] == IF n = 0 THEN s ELSE Field(F[n - 1], order[n])
        IN  Then(F[5], LAMBDA t : [t EXCEPT !.vals = Append(r.vals, SubSeq(@, Len(@) - 4, Len(@)))]))

(* Mutant: the fee is read before the amount.                              *)
ReadOpts_swapped(r) == ReadInOrder(r, <<1, 3, 2, 4, 5>>)

ReadOpts(r) == ReadInOrder(r, <<1, 2, 3, 4, 5>>)

(* SigsWrap, ComsWrap and SlateOptStructs; <<>> stands for None and <<x>>  *)
(* for Some(x).                                                            *)
WriteSigs(gs) == <<Len(gs)>> \o Cat([i \in DOMAIN gs |-> WriteSig(gs[i])])
ReadSigs(r) ==
    Then(TakeNum(r, 1), LAMBDA n : Repeat([n EXCEPT !.vals = r.vals], LastVal(n), ReadSig))

WriteComs(cs) == U16(Len(cs)) \o Cat([i \in DOMAIN cs |-> WriteCom(cs[i])])
ReadComs(r) ==
    Then(TakeNum(r, 2), LAMBDA n : Repeat([n EXCEPT !.vals = r.vals], LastVal(n), ReadCom))

WriteStructs(coms, proof) ==
    <<Bits(<<coms # <<>>, proof # <<>>, FALSE, FALSE, FALSE>>)>>
        \o Cat([i \in DOMAIN coms |-> WriteComs(coms[i])])
        \o Cat([i \in DOMAIN proof |-> WriteProof(proof[i])])
Optional(r, there, Item(_)) ==
    IF r.ok /\ there
    THEN Then(Item([r EXCEPT !.vals = <<>>]),
              LAMBDA t : [t EXCEPT !.vals = Append(r.vals, <<LastVal(t)>>)])
    ELSE Put(r, <<>>)
ReadStructs(r) ==
    Then(TakeNum(r, 1), LAMBDA s :
        Optional(Optional([s EXCEPT !.vals = r.vals], Bit(LastVal(s), 0), ReadComs),
                 Bit(LastVal(s), 1), ReadProof))

(* SlateStateV4: one byte; one that is not known reads as Unknown.         *)
States == <<"Unknown", "S1", "S2", "S3", "I1", "I2", "I3">>
WriteState(st) == (CHOOSE i \in DOMAIN States : States[i] = st) - 1
ReadState(b) == IF b + 1 \in DOMAIN States THEN States[b + 1] ELSE "Unknown"

(* SlateV4Bin.  A height-locked kernel (feat 2) has its height at the end. *)
write_slate(v) ==
    U16(v.version) \o <<v.id, WriteState(v.sta), v.off>> \o WriteOpts(v.opts) \o WriteSigs(v.sigs)
        \o WriteStructs(v.coms, v.proof) \o When(v.opts[4] = 2, U64(v.lock))

NoSlate == [version |-> 0]
ReadLock(r) == Then(r, LAMBDA t : IF t.vals[3][4] = 2 THEN TakeNum(t, 8) ELSE Put(t, 0))
read_slate(bytes) ==
    Result(ReadLock(ReadStructs(ReadSigs(ReadOpts(Take(TakeNum(Reader(bytes), 2), 3))))),
           LAMBDA v : [version |-> v[1], id |-> v[2][1], sta |-> ReadState(v[2][2]),
                       off |-> v[2][3], opts |-> v[3], sigs |-> v[4], coms |-> v[5],
                       proof |-> v[6], lock |-> v[7]],
           NoSlate)

-----------------------------------------------------------------------------
(* Addresses carry their own length; so do the optional fields of the      *)
(* envelope and the encrypted metadata, so that a reader can skip what a   *)
(* later version adds.                                                     *)

encoded_len(addr) == 1 + Len(addr)
WriteAddr(addr) == <<Len(addr)>> \o addr
ReadAddr(r) ==
    Then(TakeNum(r, 1), LAMBDA n : Take([n EXCEPT !.vals = r.vals], LastVal(n)))
OptAddr(r, there) == IF there THEN ReadAddr(r) ELSE Put(r, <<>>)

opt_fields_len(p) == IF p.sender = <<>> THEN 0 ELSE encoded_len(p.sender)

(* pad: optional fields this version does not know.                        *)
write_envelope(p, pad) ==
    <<1, 0, p.mode>> \o U16(IF p.sender = <<>> THEN 0 ELSE 1)
        \o U32(opt_fields_len(p) + Len(pad)) \o When(p.sender # <<>>, WriteAddr(p.sender))
        \o pad \o U64(Len(p.payload)) \o p.payload

(* Bytes still to skip; the subtraction is unchecked, and one that wraps   *)
(* asks for more than any message holds.                                   *)
Left(total, used) == IF used <= total THEN total - used ELSE Huge
AddrLen(a) == IF a = <<>> THEN 0 ELSE encoded_len(a)

NoPack == [mode |-> 9]
read_header(bytes) ==
    Then(TakeNum(TakeNum(TakeNum(Take(Reader(bytes), 2), 1), 2), 4),
         LAMBDA h : IF h.vals[2] > 1 THEN Fail(h) ELSE OptAddr(h, Bit(h.vals[3], 0)))
read_envelope(bytes) ==
    LET b == Then(read_header(bytes), LAMBDA a : Skip(a, Left(a.vals[4], AddrLen(a.vals[5]))))
    IN  Result(Then(TakeNum(b, 8), LAMBDA n : Take(n, LastVal(n))),
               LAMBDA v : [mode |-> v[2], sender |-> v[5], recipients |-> <<>>,
                           payload |-> v[Len(v)]],
               NoPack)

(* SlatepackEncMetadata.                                                   *)
SumLen(as) == Len(Cat([i \in DOMAIN as |-> WriteAddr(as[i])]))
meta_len(m) == 2 + AddrLen(m.sender) + IF m.recipients = <<>> THEN 0 ELSE 2 + SumLen(m.recipients)

write_meta(m, pad) ==
    U32(meta_len(m) + Len(pad))
        \o U16((IF m.sender = <<>> THEN 0 ELSE 1) + IF m.recipients = <<>> THEN 0 ELSE 2)
        \o When(m.sender # <<>>, WriteAddr(m.sender))
        \o When(m.recipients # <<>>, U16(Len(m.recipients)) \o
                 Cat([i \in DOMAIN m.recipients |-> WriteAddr(m.recipients[i])]))
        \o pad

read_meta(bytes) ==
    LET a == Then(TakeNum(TakeNum(Reader(bytes), 4), 2), LAMBDA h : OptAddr(h, Bit(h.vals[2], 0)))
        l == Then(Then(a, LAMBDA r : IF Bit(r.vals[2], 1) THEN TakeNum(r, 2) ELSE Put(r, 0)),
                  LAMBDA n : Repeat(n, n.vals[4], ReadAddr))
        used(v) == 2 + AddrLen(v[3]) + SumLen(v[5]) + (IF Bit(v[2], 1) THEN 2 ELSE 0)
    IN  Result(Then(l, LAMBDA r : Skip(r, Left(r.vals[1], used(r.vals)))),
               LAMBDA v : [sender |-> v[3], recipients |-> v[5]],
               NoPack)

(* age: what is sealed with a key is opened with it and with no other.     *)
Seal(bytes, key) == [i \in DOMAIN bytes |-> bytes[i] + 256 * key]
Opens(bytes, key) == \A i \in DOMAIN bytes : bytes[i] \in 256 * key .. 256 * key + 255
Open(bytes, key) == [i \in DOMAIN bytes |-> bytes[i] - 256 * key]

(* try_encrypt_payload puts the metadata in front of the payload.          *)
try_encrypt_payload(p, key, pad) ==
    IF key = 0 THEN p
    ELSE [p EXCEPT !.mode = 1, !.sender = <<>>, !.payload = Seal(write_meta(p, pad) \o @, key)]

Unsealed(m, payload) ==
    IF m = NoPack THEN NoPack
    ELSE [mode |-> 0, sender |-> m.sender, recipients |-> m.recipients, payload |-> payload]
SplitAt(b, start) ==
    IF start > Len(b) THEN NoPack
    ELSE Unsealed(read_meta(SubSeq(b, 1, start)), SubSeq(b, start + 1, Len(b)))

try_decrypt_payload(p, key) ==
    IF p = NoPack THEN NoPack
    ELSE IF p.mode = 0 \/ key = 0 THEN p
    ELSE IF ~Opens(p.payload, key) \/ Len(p.payload) < 4 THEN NoPack
    ELSE SplitAt(Open(p.payload, key), 4 + Num(SubSeq(Open(p.payload, key), 1, 4)))

-----------------------------------------------------------------------------
(* Armor: header, dot, words, dot, footer, dot.  The header has the length *)
(* of a word.                                                              *)

Dot == 1000
White == {1001, 1002}
Begin == 1003
End == 1004
HEADER == <<Begin, Dot>>
FOOTER == <<Dot, 1001, End, Dot>>
WORD_LENGTH == 2
WORDS_PER_LINE == 3

generate_check(b) ==
    LET sum[i \in 0 .. Len(b)] == IF i = 0 THEN 0 ELSE sum[i - 1] + b[i]
        mix[i \in 0 .. Len(b)] == IF i = 0 THEN 0 ELSE mix[i - 1] + i * b[i]
    IN  <<Len(b), sum[Len(b)], mix[Len(b)], 0>>

format_slatepack(t) ==
    Cat([i \in DOMAIN t |->
        IF i > 1 /\ (i - 1) % WORD_LENGTH = 0
        THEN IF (i - 1) % (WORD_LENGTH * WORDS_PER_LINE) = 0 THEN <<1002, t[i]>> ELSE <<1001, t[i]>>
        ELSE <<t[i]>>])

encode(bytes) == format_slatepack(HEADER \o generate_check(bytes) \o bytes) \o FOOTER

(* The parts between dots.                                                 *)
UpToDot(t) ==
    LET dots == {i \in DOMAIN t : t[i] = Dot}
    IN  IF dots = {} THEN t ELSE SubSeq(t, 1, (CHOOSE i \in dots : \A j \in dots : i <= j) - 1)
AfterDot(t) == SubSeq(t, Len(UpToDot(t)) + 2, Len(t))
Clean(t) == SelectSeq(t, LAMBDA c : c \notin White)
check_header(t) == Clean(t) = <<Begin>>
check_footer(t) == Clean(t) = <<End>>

NoBytes == <<-1>>

(* Mutant: the check code is split off and not compared.                   *)
decode_unchecked(t) ==
    LET body == Clean(UpToDot(AfterDot(t)))
    IN  IF /\ check_header(UpToDot(t)) /\ check_footer(UpToDot(AfterDot(AfterDot(t))))
           /\ Len(body) >= 4
        THEN SubSeq(body, 5, Len(body)) ELSE NoBytes

decode(t) ==
    LET body == Clean(UpToDot(AfterDot(t)))
        code == SubSeq(body, 1, 4)
        rest == SubSeq(body, 5, Len(body))
    IN  IF /\ check_header(UpToDot(t)) /\ check_footer(UpToDot(AfterDot(AfterDot(t))))
           /\ Len(body) >= 4 /\ generate_check(rest) = code
        THEN rest ELSE NoBytes

(* Text that begins with the header, exactly, is armored; the rest is read *)
(* as binary.                                                              *)
Unarmored(t) ==
    IF Len(t) < Len(HEADER) THEN NoBytes
    ELSE IF SubSeq(t, 1, Len(HEADER)) = HEADER THEN decode(t) ELSE t
Packed(b) == IF b = NoBytes THEN NoPack ELSE read_envelope(b)
deser_slatepack(t, key) == try_decrypt_payload(Packed(Unarmored(t)), key)

-----------------------------------------------------------------------------
(* One message: made, carried, read.                                       *)

Made(sender, recipients, slate, key) ==
    [plain |-> [mode |-> 0, sender |-> sender, recipients |-> recipients,
                payload |-> write_slate(slate)], slate |-> slate, key |-> key]
ToSend(m, pad) == try_encrypt_payload(m.plain, m.key, pad)

Init ==
    /\ \E a \in Senders, l \in RecipLists, v \in SlateSet, key \in {0, 1} :
          sp = Made(a, l, v, key)
    /\ text = <<>> /\ how = "made" /\ got = NoPack

(* create_slatepack, then armor_slatepack or the binary file.  A later     *)
(* version adds n bytes of fields to the envelope and m to the metadata.   *)
make(n, m, armored) ==
    LET bytes == write_envelope(ToSend(sp, [i \in 1 .. m |-> 7]), [i \in 1 .. n |-> 7])
    IN  /\ how = "made" /\ how' = (IF armored THEN "armored" ELSE "binary")
        /\ text' = IF armored THEN encode(bytes) ELSE bytes
        /\ UNCHANGED <<sp, got>>

(* On the way white space comes and goes, in the text or in front of it,   *)
(* or the message is damaged; only the armor has a check code.             *)
reflow(w) ==
    /\ how = "armored" /\ how' = "reflowed" /\ w \in White
    /\ text' = Cat([i \in DOMAIN text |->
                      IF text[i] \in White THEN <<>>
                      ELSE IF i % 5 = 0 THEN <<w, text[i]>> ELSE <<text[i]>>])
    /\ UNCHANGED <<sp, got>>

indent(w) ==
    /\ how = "armored" /\ how' = "damaged" /\ w \in White
    /\ text' = <<w>> \o text
    /\ UNCHANGED <<sp, got>>

cut(n) ==
    /\ how \in {"armored", "binary"} /\ how' = "damaged" /\ n \in 0 .. Len(text) - 2
    /\ text' = SubSeq(text, 1, n)
    /\ UNCHANGED <<sp, got>>

alter(i) ==
    /\ how = "armored" /\ how' = "damaged" /\ i \in DOMAIN text /\ text[i] < 1000
    /\ text' = [text EXCEPT ![i] = IF @ = 0 THEN 1 ELSE @ - 1]
    /\ UNCHANGED <<sp, got>>

read(key) ==
    /\ how \in {"armored", "binary", "reflowed", "damaged"} /\ key \in {sp.key, 2}
    /\ how' = IF how # "damaged" /\ (key = sp.key \/ sp.key = 0) THEN "read" ELSE "refused"
    /\ got' = deser_slatepack(text, key)
    /\ UNCHANGED <<sp, text>>

Next ==
    \/ \E n, m \in 0 .. MaxPad, armored \in BOOLEAN : make(n, m, armored)
    \/ \E w \in White : reflow(w) \/ indent(w)
    \/ \E n \in 0 .. Len(text) : cut(n)
    \/ \E i \in DOMAIN text : alter(i)
    \/ \E key \in 0 .. 2 : read(key)

Spec == Init /\ [][Next]_vars

-----------------------------------------------------------------------------
(* A slatepack read with the right key is the one that was made, its slate *)
(* included, whatever a later version added to it and however the text was *)
(* broken into lines.                                                      *)
RoundTrip ==
    how = "read" =>
        /\ got.mode = 0 /\ got.sender = sp.plain.sender
        /\ got.recipients = IF sp.key = 0 THEN <<>> ELSE sp.plain.recipients
        /\ read_slate(got.payload) = sp.slate

(* Nothing is read as something else: damaged text, and a message for      *)
(* someone else, is refused as a whole, and the slate's own codec refuses  *)
(* every truncation of what it wrote.                                      *)
Refused ==
    /\ how = "refused" => got = NoPack
    /\ how = "made" =>
          \A n \in 0 .. Len(sp.plain.payload) - 1 :
              read_slate(SubSeq(sp.plain.payload, 1, n)) = NoSlate

=============================================================================
