---------------------------- MODULE LedgerProofs ----------------------------
(***************************************************************************)
(* Exchange implements Ledger: what the wallets' slates move on the chain  *)
(* is what was agreed.                                                     *)
(*                                                                         *)
(* The argument.  A ghost remembers what was agreed, for which slate each  *)
(* child key made an output, and the signed transaction of a slate once    *)
(* there is one.  The invariant says what every slate in flight, every     *)
(* context and every stored transaction has to do with the ghost: an offer *)
(* carries the agreed amount and the first key; an answer adds, in its     *)
(* offset, exactly the other side's coins; a context that still holds the  *)
(* first key belongs to a slate that is not settled.  A transaction is     *)
(* valid only if its offset matches its inputs and outputs, so finalize_tx *)
(* can complete nothing but the two shares added up, and the two add up to *)
(* the amount agreed.  New outputs come from child keys that were not used *)
(* before, so a transaction that is mined is the only one of its slate.    *)
(*                                                                         *)
(* Sums of values are defined by recursion over sets; MinimalSet replaces  *)
(* induction over them.                                                    *)
(***************************************************************************)
EXTENDS ExchangeProofs, FiniteSetTheorems, SequenceTheorems

-----------------------------------------------------------------------------
(* The ghost and the invariant, and sums of coins.                         *)

(* What the proof remembers of a behaviour: what was agreed, the slate each*)
(* child key of a wallet made an output for, and the transaction that      *)
(* settles a slate, once it is signed.                                     *)
Content(tx) == [ins |-> tx.ins, outs |-> tx.outs, excess |-> tx.excess]

(* The key of a slate's first participant; the amount; whether it is a     *)
(* send.                                                                   *)
First(g, s) == <<g.offer[s][1], s, 1>>
Agreed(g, s) == g.offer[s][3]
IsSend(g, s) == g.offer[s][2] = "send"

(* The coins of one wallet, and of any.                                    *)
Purse(w) == [own : {w}, child : Nat, value : Nat]
AnyCoin == [own : Wallets, child : Nat, value : Nat]
(* Outputs made for a slate; a finite set of coins of one wallet.          *)
From(g, s, C) == \A c \in C : g.home[c.own][c.child] = s
Coins(w, C) == IsFiniteSet(C) /\ C \subseteq Purse(w)

(* The slates that can reach a command.                                    *)
OfferOK(g, sl) ==
    /\ Keys(sl) = {First(g, sl.id)} /\ sl.parts[First(g, sl.id)] = NoSig
    /\ sl.amount = Agreed(g, sl.id)

(* What the answering wallet put in: inputs I and outputs U. A reply adds  *)
(* one output of the amount; a payment adds one input that covers amount,  *)
(* fee and change, or nothing yet when a wallet pays itself.               *)
Share(g, sl, r, I, U) ==
    /\ Coins(r[1], I) /\ Coins(r[1], U) /\ From(g, sl.id, U)
    /\ sl.offset = Terms({r}, I, U)
    /\ sl.state = "S2" => I = {} /\ \E o : U = {o} /\ o.value = Agreed(g, sl.id)
    /\ sl.state = "I2" =>
          \/ I = {} /\ U = {}
          \/ \E c : I = {c} /\ c.value = Agreed(g, sl.id) + Fee + Total(U)

(* An answer: one participant, who signed with the slate's first key.      *)
AnswerOK(g, sl) ==
    \E r \in Wallets \X {sl.id} \X Nat :
        /\ Keys(sl) = {r} /\ r # First(g, sl.id)
        /\ sl.parts[r].keys = {r, First(g, sl.id)}
        /\ \E I, U \in SUBSET Purse(r[1]) : Share(g, sl, r, I, U)
        /\ sl.state = "I2" => /\ sl.fee = Fee
                              /\ sl.tx # NoTx => \E c \in sl.tx.ins : c.own = r[1]

(* A finished slate carries the transaction that settles it.               *)
DoneOK(g, sl) ==
    /\ g.done[sl.id] # NoTx /\ sl.tx # NoTx /\ Content(sl.tx) = g.done[sl.id]
    /\ Keys(sl) = g.done[sl.id].excess

(* A transaction that is not there or not signed yet.                      *)
Unsigned(tx) == tx = NoTx \/ ~tx.signed

(* Every slate that can reach a command is one of the three.               *)
SlateOK(g, sl) ==
    /\ sl.id \in Slates /\ sl.state \in SlateState /\ g.offer[sl.id] # <<>> /\ sl.amount \in Nat
    /\ sl.tx # NoTx => sl.tx.ins \cup sl.tx.outs \subseteq AnyCoin
    /\ sl.state \in {"S1", "I1"} => OfferOK(g, sl)
    /\ sl.state \in {"S2", "I2"} => AnswerOK(g, sl)
    /\ sl.state \in {"S3", "I3"} => DoneOK(g, sl)
    /\ sl.state \notin {"S3", "I3"} => Unsigned(sl.tx)

(* A wallet's books.                                                       *)
DbFields == {"next", "coins", "log", "nextTx", "ctx", "draws", "files"}
(* A stored transaction (update_stored_tx): unsigned, or the one that      *)
(* settles its slate.                                                      *)
Filed(g, s, tx) == Unsigned(tx) \/ (g.done[s] # NoTx /\ Content(tx) = g.done[s])
(* The books of a wallet have the shape of the database: coins of its own, *)
(* log entries that name a slate, and the stored transactions.             *)
Book(g, w, d) ==
    /\ DOMAIN d = DbFields /\ DOMAIN d.coins \subseteq Purse(w)
    /\ DOMAIN d.log = Pos /\ DOMAIN d.files = Slates
    /\ DOMAIN d.nextTx = Accts /\ \A a \in Accts : d.nextTx[a] \in Nat \ {0}
    /\ \A p \in Pos : d.log[p] # NoEntry =>
          {"slate", "type"} \subseteq DOMAIN d.log[p] /\ d.log[p].slate \in Slates
    /\ \A s \in Slates : Filed(g, s, d.files[s])

(* Its keys and contexts.                                                  *)
Received(d, s) == Found(d, s, {"TxReceived"}) # {}

(* A context that pays the amount with one coin, or has not chosen one.    *)
Plain(g, s, ctx) ==
    \/ ctx.ins = {} /\ ctx.outs = {}
    \/ \E c : ctx.ins = {c} /\ c.value = Agreed(g, s) + Fee + Total(ctx.outs)
(* A late-locked context belongs to a send of the wallet and holds no      *)
(* coin.                                                                   *)
Late(g, s, ctx) ==
    /\ g.offer[s] # <<>> /\ IsSend(g, s) /\ ctx.initKey = First(g, s)
    /\ ctx.amount = Agreed(g, s) /\ ctx.ins = {} /\ ctx.outs = {}
(* A sender's context pays the amount; when the wallet drew twice for the  *)
(* slate it may also hold what it pays itself, and then it has not         *)
(* received.                                                               *)
SenderOK(g, d, s, ctx) ==
    /\ ctx.fee = Fee
    /\ Plain(g, s, ctx) \/ (d.draws[s] > 1 /\ ~Received(d, s))
(* The context of an invoice takes one output of the amount, or pays the   *)
(* wallet itself.                                                          *)
PayeeOK(g, d, s, ctx) ==
    /\ ctx.fee = 0
    /\ \/ ctx.ins = {} /\ \E o : ctx.outs = {o} /\ o.value = Agreed(g, s)
       \/ d.draws[s] > 1 /\ Total(ctx.ins) = Total(ctx.outs) + Fee
(* A live context: coins of the wallet, new outputs for this slate; the    *)
(* context of the slate's first key exists only until the slate is         *)
(* settled.                                                                *)
CtxOK(g, w, d, s) ==
    LET ctx == d.ctx[s]
    IN  /\ g.offer[s] # <<>>
        /\ Coins(w, ctx.ins) /\ Coins(w, ctx.outs) /\ From(g, s, ctx.outs)
        /\ ctx.late => Late(g, s, ctx)
        /\ ctx.initKey = First(g, s) =>
              /\ g.done[s] = NoTx
              /\ IF IsSend(g, s) THEN SenderOK(g, d, s, ctx) ELSE PayeeOK(g, d, s, ctx)
(* What the books say of a slate, by who started it.                       *)
HeadOK(g, w, d, s) ==
    /\ d.ctx[s] # NoContext => CtxOK(g, w, d, s)
    /\ g.offer[s] = <<>> => d.draws[s] = 0 /\ ~Received(d, s)
    /\ g.offer[s] # <<>> /\ g.offer[s][1] = w =>
          /\ d.draws[s] > 0
          /\ Received(d, s) /\ IsSend(g, s) => d.draws[s] > 1
(* The next child key has made nothing yet, and the first coins were made  *)
(* for no slate.                                                           *)
KeysOK(g, w, d) ==
    /\ d.next \in Nat \ {0}
    /\ \A n \in Nat : n >= d.next => g.home[w][n] = <<>>
    /\ \A c \in Funds[w] : c.child < d.next /\ g.home[w][c.child] = <<>>
(* The invariant of one wallet.                                            *)
PayDb(g, w, d) ==
    Book(g, w, d) /\ KeysOK(g, w, d) /\ \A s \in Slates : HeadOK(g, w, d, s)

(* The coins of one wallet among some.                                     *)
Part(C, w) == {c \in C : c.own = w}
(* The transaction settles the slate: two participants, all inputs from    *)
(* the payer, new outputs, and every wallet gains what was agreed.         *)
Settles(g, s, tx, payer, payee, r) ==
    /\ tx.excess = {First(g, s), r} /\ r[2] = s
    /\ {payer, payee} = {g.offer[s][1], r[1]}
    /\ g.offer[s][1] = IF IsSend(g, s) THEN payer ELSE payee
    /\ Coins(payer, tx.ins) /\ tx.ins # {}
    /\ IsFiniteSet(tx.outs) /\ tx.outs \subseteq AnyCoin
    /\ From(g, s, tx.outs)
    /\ \A w \in Wallets :
          Total(Part(tx.outs, w)) =
              Total(Part(tx.ins, w)) + (IF w = payee THEN Agreed(g, s) ELSE 0)
                                     - (IF w = payer THEN Agreed(g, s) + Fee ELSE 0)
(* The transaction the ghost keeps for a slate settles it.                 *)
Settled(g, s) ==
    g.offer[s] # <<>> /\
    \E payer, payee \in Wallets, r \in Wallets \X {s} \X Nat : Settles(g, s, g.done[s], payer, payee, r)

(* A transaction with the content of one that settles a slate.             *)
Known(g, tx) == \E s \in Slates : g.done[s] # NoTx /\ Content(tx) = g.done[s]

(* Every coin that was ever in the chain.                                  *)
Made == (UNION {Funds[w] : w \in Wallets}) \cup (UNION {tx.outs : tx \in OnChain})
(* The chain spends only what was made, and a wallet has finitely many     *)
(* coins in it.                                                            *)
ChainOK ==
    /\ \E S : chain \in Seq(S)
    /\ Spent \subseteq Made
    /\ \A w \in Wallets : IsFiniteSet(Part(Made, w)) /\ Part(Made, w) \subseteq Purse(w)

(* The ghost agrees with the offers, and what it keeps as settled is.      *)
Ghost(g) ==
    /\ DOMAIN agreed = Slates /\ \A s \in Slates : g.offer[s] = agreed[s]
    /\ \A s \in Slates : agreed[s] = <<>> \/ agreed[s] \in Wallets \X {"send", "invoice"} \X Amounts
    /\ \A s \in Slates : g.done[s] # NoTx => Settled(g, s)
(* Messages that decode, and commands that wait, hold good slates.         *)
MsgsOK(g, M) ==
    \A m \in M : DOMAIN m = {"check", "data"} /\ (CanDecode(m) => SlateOK(g, get_slate(m, Nobody)))
TorOK(g, T) ==
    \A w \in Wallets : T[w] # NoCmd =>
        SlateOK(g, T[w].sl) /\ (T[w].answer # <<>> => SlateOK(g, T[w].answer[1]))
(* The inductive invariant, for a ghost.                                   *)
PayInv(g) ==
    /\ Ghost(g)
    /\ \A w \in Wallets : PayDb(g, w, db[w])
    /\ MsgsOK(g, msgs) /\ TorOK(g, tor)
    /\ ChainOK /\ \A tx \in pool \cup OnChain : Known(g, tx)

(* A family of finite sets that is not empty has a minimal member: what    *)
(* stands in for induction over the size of a set.                         *)
LEMMA MinimalSet ==
    ASSUME NEW S, NEW Bad, Bad \subseteq FiniteSubsetsOf(S), Bad # {}
    PROVE  \E X \in Bad : \A Y \in Bad : Y \subseteq X => Y = X
<1> DEFINE R == StrictSubsetOrdering(S)
<1>1. IsWellFoundedOn(R, FiniteSubsetsOf(S))
  BY FS_StrictSubsetOrderingWellFounded
<1>2. \A X, Y \in Bad : Y \subseteq X /\ Y # X => <<Y, X>> \in R
  BY DEF StrictSubsetOrdering, FiniteSubsetsOf
<1> HIDE DEF R
<1>3. \E X \in Bad : \A Y \in Bad : ~ (<<Y, X>> \in R)
  BY <1>1, WFMin
<1>. QED  BY <1>2, <1>3

(* A function that sums the values of every subset of C, as Total chooses  *)
(* one.                                                                    *)
Sums(f, C) ==
    f = [S \in SUBSET C |->
            IF S = {} THEN 0
            ELSE LET c == CHOOSE x \in S : TRUE IN c.value + f[S \ {c}]]

(* Two such functions agree where both are defined.                        *)
LEMMA SumsAgree ==
    ASSUME NEW A, NEW B, NEW f, NEW g, Sums(f, A), Sums(g, B),
           NEW X, X \subseteq A, X \subseteq B, IsFiniteSet(X)
    PROVE  f[X] = g[X]
<1> DEFINE Bad == {Y \in FiniteSubsetsOf(X) : f[Y] # g[Y]}
<1>0. \A Y \in FiniteSubsetsOf(X) : Y \subseteq X /\ IsFiniteSet(Y)
  BY DEF FiniteSubsetsOf
<1>1. SUFFICES ASSUME Bad # {} PROVE FALSE
  BY DEF FiniteSubsetsOf
<1>2. PICK Y \in Bad : \A Z \in Bad : Z \subseteq Y => Z = Y
  <2>1. Bad \subseteq FiniteSubsetsOf(X)
    OBVIOUS
  <2> HIDE DEF Bad
  <2>. QED  BY <1>1, <2>1, MinimalSet
<1>3. Y \subseteq X /\ IsFiniteSet(Y) /\ f[Y] # g[Y]
  BY <1>0
<1>4. \A h, C : Sums(h, C) /\ Y \subseteq C =>
         h[Y] = IF Y = {} THEN 0 ELSE LET c == CHOOSE x \in Y : TRUE IN c.value + h[Y \ {c}]
  BY DEF Sums
<1>5. Y # {}
  BY <1>3, <1>4
<1> DEFINE c == CHOOSE x \in Y : TRUE
<1>6. c \in Y
  BY <1>5
<1>7. Y \ {c} \in FiniteSubsetsOf(X)
  <2>1. IsFiniteSet(Y \ {c})
    BY <1>3, FS_RemoveElement
  <2>. QED  BY <1>3, <2>1 DEF FiniteSubsetsOf
<1>8. f[Y \ {c}] = g[Y \ {c}]
  BY <1>2, <1>6, <1>7
<1>9. f[Y] = c.value + f[Y \ {c}] /\ g[Y] = c.value + g[Y \ {c}]
  BY <1>3, <1>4, <1>5
<1>. QED  BY <1>3, <1>8, <1>9

(* Every finite set of coins has one.                                      *)
LEMMA SumsExist ==
    ASSUME NEW C, IsFiniteSet(C)
    PROVE  \E f : Sums(f, C)
<1> DEFINE Bad == {Y \in FiniteSubsetsOf(C) : ~ \E f : Sums(f, Y)}
<1>0. \A Y \in FiniteSubsetsOf(C) : Y \subseteq C /\ IsFiniteSet(Y)
  BY DEF FiniteSubsetsOf
<1>1. SUFFICES ASSUME Bad # {} PROVE FALSE
  BY DEF FiniteSubsetsOf
<1>2. PICK Y \in Bad : \A Z \in Bad : Z \subseteq Y => Z = Y
  <2>1. Bad \subseteq FiniteSubsetsOf(C)
    OBVIOUS
  <2> HIDE DEF Bad
  <2>. QED  BY <1>1, <2>1, MinimalSet
<1>3. Y \subseteq C /\ IsFiniteSet(Y) /\ ~ \E f : Sums(f, Y)
  BY <1>0
<1>4. \A Z : Z \subseteq Y /\ Z # Y => IsFiniteSet(Z) /\ \E f : Sums(f, Z)
  <2> SUFFICES ASSUME NEW Z, Z \subseteq Y, Z # Y PROVE IsFiniteSet(Z) /\ \E f : Sums(f, Z)
    OBVIOUS
  <2>1. IsFiniteSet(Z)
    BY <1>3, FS_Subset
  <2>2. Z \in FiniteSubsetsOf(C)
    BY <1>3, <2>1 DEF FiniteSubsetsOf
  <2>. QED  BY <1>2, <2>1, <2>2
<1> DEFINE F(Z) == CHOOSE f : Sums(f, Z)
           G(Z) == F(Z)[Z]
           g == [Z \in SUBSET Y |->
                    IF Z = {} THEN 0
                    ELSE LET c == CHOOSE x \in Z : TRUE IN c.value + G(Z \ {c})]
<1>5. \A Z : Z \subseteq Y /\ Z # Y => Sums(F(Z), Z)
  BY <1>4
<1>6. ASSUME NEW Z, Z \subseteq Y, Z # Y
      PROVE  G(Z) = g[Z]
  <2>1. Sums(F(Z), Z)
    BY <1>5, <1>6
  <2>2. G(Z) = IF Z = {} THEN 0 ELSE LET c == CHOOSE x \in Z : TRUE IN c.value + F(Z)[Z \ {c}]
    <3> DEFINE f == F(Z)
    <3>1. Sums(f, Z) BY <2>1
    <3> HIDE DEF f
    <3>2. f[Z] = IF Z = {} THEN 0 ELSE LET c == CHOOSE x \in Z : TRUE IN c.value + f[Z \ {c}]
      BY <3>1 DEF Sums
    <3>. QED BY <3>2 DEF f
  <2>3. ASSUME Z # {}, NEW c, c \in Z
        PROVE  F(Z)[Z \ {c}] = G(Z \ {c})
    <3> DEFINE W == Z \ {c}
               f1 == F(Z)
               f2 == F(W)
    <3>1. W \subseteq Y /\ W # Y /\ W \subseteq Z
      BY <1>6, <2>3
    <3>2. Sums(f2, W) /\ Sums(f1, Z) /\ IsFiniteSet(W)
      BY <1>4, <1>5, <2>1, <3>1
    <3> HIDE DEF W, f1, f2
    <3>3. f1[W] = f2[W]
      BY <3>1, <3>2, SumsAgree
    <3>. QED  BY <3>3 DEF W, f1, f2
  <2>4. CASE Z = {}
    BY <2>2, <2>4
  <2>5. CASE Z # {}
    <3> DEFINE c == CHOOSE x \in Z : TRUE
    <3>1. c \in Z
      BY <2>5
    <3>2. F(Z)[Z \ {c}] = G(Z \ {c})
      BY <2>3, <2>5, <3>1
    <3>3. G(Z) = c.value + F(Z)[Z \ {c}]
      BY <2>2, <2>5
    <3>4. g[Z] = c.value + G(Z \ {c})
      BY <1>6, <2>5
    <3>. QED  BY <3>2, <3>3, <3>4
  <2>. QED  BY <2>4, <2>5
<1>7. g = [Z \in SUBSET Y |->
             IF Z = {} THEN 0 ELSE LET c == CHOOSE x \in Z : TRUE IN c.value + g[Z \ {c}]]
  <2>1. ASSUME NEW Z \in SUBSET Y, Z # {}, NEW c \in Z
        PROVE  G(Z \ {c}) = g[Z \ {c}]
    <3>1. Z \ {c} \subseteq Y /\ Z \ {c} # Y
      BY <2>1
    <3>. QED  BY <1>6, <3>1
  <2>2. ASSUME NEW Z \in SUBSET Y
        PROVE  g[Z] = IF Z = {} THEN 0
                      ELSE LET c == CHOOSE x \in Z : TRUE IN c.value + g[Z \ {c}]
    <3>1. Z # {} => (CHOOSE x \in Z : TRUE) \in Z
      OBVIOUS
    <3>2. g[Z] = IF Z = {} THEN 0
                 ELSE LET c == CHOOSE x \in Z : TRUE IN c.value + G(Z \ {c})
      OBVIOUS
    <3> HIDE DEF g, G, F
    <3>. QED  BY <2>1, <3>1, <3>2
  <2>3. g = [Z \in SUBSET Y |-> g[Z]]
    OBVIOUS
  <2> HIDE DEF g, G, F
  <2>. QED  BY <2>2, <2>3
<1> HIDE DEF g
<1>8. Sums(g, Y)
  BY <1>7 DEF Sums
<1>. QED  BY <1>3, <1>8

(* Total is what any of them gives.                                        *)
LEMMA TotalSums ==
    ASSUME NEW C, IsFiniteSet(C), NEW f, Sums(f, C), NEW X, X \subseteq C
    PROVE  Total(X) = f[X]
<1> DEFINE Sum == CHOOSE g : Sums(g, X)
<1>1. IsFiniteSet(X)
  BY FS_Subset
<1>2. Sums(Sum, X)
  BY <1>1, SumsExist
<1>3. Total(X) = Sum[X]
  BY DEF Total, Sums
<1> HIDE DEF Sum
<1>4. Sum[X] = f[X]
  BY <1>1, <1>2, SumsAgree
<1>. QED  BY <1>3, <1>4

(* Total takes out the coin it chooses.                                    *)
LEMMA TotalTaken ==
    ASSUME NEW C, IsFiniteSet(C), C # {}
    PROVE  LET c == CHOOSE x \in C : TRUE
           IN  c \in C /\ Total(C) = c.value + Total(C \ {c})
<1>1. PICK f : Sums(f, C)
  BY SumsExist
<1>2. \A X : X \subseteq C => Total(X) = f[X]
  BY <1>1, TotalSums
<1>3. f[C] = LET c == CHOOSE x \in C : TRUE IN c.value + f[C \ {c}]
  BY <1>1 DEF Sums
<1>. QED  BY <1>2, <1>3

(* No coins have no value.                                                 *)
LEMMA TotalNone == Total({}) = 0
<1>1. PICK f : Sums(f, {})
  BY FS_EmptySet, SumsExist
<1>2. Total({}) = f[{}]
  BY <1>1, FS_EmptySet, TotalSums
<1>. QED  BY <1>1, <1>2 DEF Sums

(* A finite set of coins with a value.                                     *)
Valued(C) == IsFiniteSet(C) /\ \A c \in C : c.value \in Nat

(* Total is a natural number.                                              *)
LEMMA TotalNat ==
    ASSUME NEW C, Valued(C)
    PROVE  Total(C) \in Nat
<1> DEFINE Bad == {Y \in FiniteSubsetsOf(C) : Total(Y) \notin Nat}
<1>0. \A Y \in FiniteSubsetsOf(C) : Y \subseteq C /\ IsFiniteSet(Y)
  BY DEF FiniteSubsetsOf
<1>1. SUFFICES ASSUME Bad # {} PROVE FALSE
  BY DEF FiniteSubsetsOf, Valued
<1>2. PICK Y \in Bad : \A Z \in Bad : Z \subseteq Y => Z = Y
  <2>1. Bad \subseteq FiniteSubsetsOf(C)
    OBVIOUS
  <2> HIDE DEF Bad
  <2>. QED  BY <1>1, <2>1, MinimalSet
<1>3. Y \subseteq C /\ IsFiniteSet(Y) /\ Total(Y) \notin Nat
  BY <1>0
<1>4. Y # {}
  BY <1>3, TotalNone
<1>5. PICK c \in Y : Total(Y) = c.value + Total(Y \ {c})
  BY <1>3, <1>4, TotalTaken
<1>6. IsFiniteSet(Y \ {c})
  BY <1>3, FS_RemoveElement
<1>7. Y \ {c} \in FiniteSubsetsOf(C)
  BY <1>3, <1>6 DEF FiniteSubsetsOf
<1>8. Total(Y \ {c}) \in Nat
  BY <1>2, <1>5, <1>7
<1>9. c.value \in Nat
  BY <1>3 DEF Valued
<1>. QED  BY <1>3, <1>5, <1>8, <1>9

(* Total may take out any coin first.                                      *)
LEMMA TotalWithout ==
    ASSUME NEW C, Valued(C), NEW c \in C
    PROVE  Total(C) = c.value + Total(C \ {c})
<1> DEFINE Bad == {Y \in FiniteSubsetsOf(C) : \E x \in Y : Total(Y) # x.value + Total(Y \ {x})}
<1>0. \A Y \in FiniteSubsetsOf(C) : Y \subseteq C /\ IsFiniteSet(Y)
  BY DEF FiniteSubsetsOf
<1>1. SUFFICES ASSUME Bad # {} PROVE FALSE
  BY DEF FiniteSubsetsOf, Valued
<1>2. PICK Y \in Bad : \A Z \in Bad : Z \subseteq Y => Z = Y
  <2>1. Bad \subseteq FiniteSubsetsOf(C)
    OBVIOUS
  <2> HIDE DEF Bad
  <2>. QED  BY <1>1, <2>1, MinimalSet
<1>3. Y \subseteq C /\ IsFiniteSet(Y)
  BY <1>0
<1>4. PICK x \in Y : Total(Y) # x.value + Total(Y \ {x})
  OBVIOUS
<1>5. PICK y \in Y : Total(Y) = y.value + Total(Y \ {y})
  BY <1>3, <1>4, TotalTaken
<1>6. x # y
  BY <1>4, <1>5
<1>7. ASSUME NEW u \in Y
      PROVE  /\ \A v \in Y \ {u} : Total(Y \ {u}) = v.value + Total((Y \ {u}) \ {v})
             /\ u.value \in Nat
  <2>1. IsFiniteSet(Y \ {u})
    BY <1>3, FS_RemoveElement
  <2>2. Y \ {u} \in FiniteSubsetsOf(C) /\ Y \ {u} \subseteq Y /\ Y \ {u} # Y
    BY <1>3, <2>1 DEF FiniteSubsetsOf
  <2>3. Y \ {u} \notin Bad
    BY <1>2, <2>2
  <2>. QED  BY <1>3, <2>2, <2>3 DEF Valued
<1>8. /\ Total(Y \ {y}) = x.value + Total((Y \ {y}) \ {x})
      /\ Total(Y \ {x}) = y.value + Total((Y \ {x}) \ {y})
  BY <1>6, <1>7
<1>9. (Y \ {y}) \ {x} = (Y \ {x}) \ {y}
  OBVIOUS
<1>10. Total((Y \ {y}) \ {x}) \in Nat
  <2>1. IsFiniteSet((Y \ {y}) \ {x})
    BY <1>3, FS_Subset
  <2>2. Valued((Y \ {y}) \ {x})
    BY <1>3, <2>1 DEF Valued
  <2>. QED  BY <2>2, TotalNat
<1>11. x.value \in Nat /\ y.value \in Nat
  BY <1>7
<1> DEFINE t == Total((Y \ {y}) \ {x})
<1>12. /\ Total(Y) = y.value + (x.value + t)
       /\ Total(Y \ {x}) = y.value + t
       /\ Total(Y) # x.value + Total(Y \ {x})
  BY <1>4, <1>5, <1>8, <1>9
<1> HIDE DEF t, Bad
<1>. QED  BY <1>10, <1>11, <1>12 DEF t

(* Total adds up over disjoint sets.                                       *)
LEMMA TotalUnion ==
    ASSUME NEW A, NEW B, Valued(A), Valued(B), A \cap B = {}
    PROVE  /\ Valued(A \cup B)
           /\ Total(A \cup B) = Total(A) + Total(B)
<1> DEFINE Bad == {Y \in FiniteSubsetsOf(B) : Total(A \cup Y) # Total(A) + Total(Y)}
<1>0. \A Y \in FiniteSubsetsOf(B) : Y \subseteq B /\ IsFiniteSet(Y)
  BY DEF FiniteSubsetsOf
<1>a. \A Y : Y \subseteq B => Valued(Y) /\ Valued(A \cup Y)
  BY FS_Subset, FS_Union DEF Valued
<1>1. SUFFICES ASSUME Bad # {} PROVE FALSE
  BY <1>a DEF FiniteSubsetsOf, Valued
<1>2. PICK Y \in Bad : \A Z \in Bad : Z \subseteq Y => Z = Y
  <2>1. Bad \subseteq FiniteSubsetsOf(B)
    OBVIOUS
  <2> HIDE DEF Bad
  <2>. QED  BY <1>1, <2>1, MinimalSet
<1>3. Y \subseteq B /\ IsFiniteSet(Y) /\ Total(A \cup Y) # Total(A) + Total(Y)
  BY <1>0
<1>4. Y # {}
  <2> SUFFICES ASSUME Y = {} PROVE FALSE
    OBVIOUS
  <2>1. A \cup Y = A
    OBVIOUS
  <2>. QED  BY <1>3, <2>1, TotalNone, TotalNat
<1>5. PICK c \in Y : TRUE
  BY <1>4
<1>6. Total(Y) = c.value + Total(Y \ {c})
  BY <1>3, <1>a, TotalWithout
<1>7. Total(A \cup Y) = c.value + Total((A \cup Y) \ {c})
  BY <1>3, <1>a, TotalWithout
<1>8. (A \cup Y) \ {c} = A \cup (Y \ {c})
  BY <1>3
<1>9. Y \ {c} \in FiniteSubsetsOf(B) /\ Y \ {c} \subseteq B
  BY <1>3, FS_RemoveElement DEF FiniteSubsetsOf
<1>10. Total(A \cup (Y \ {c})) = Total(A) + Total(Y \ {c})
  BY <1>2, <1>9
<1>11. Total(A) \in Nat /\ Total(Y \ {c}) \in Nat /\ c.value \in Nat
  BY <1>3, <1>9, <1>a, TotalNat DEF Valued
<1> DEFINE t == Total(Y \ {c})
           u == Total(A)
<1>12. Total(A \cup Y) = c.value + (u + t) /\ Total(Y) = c.value + t
  BY <1>6, <1>7, <1>8, <1>10
<1> HIDE DEF t, u, Bad
<1>13. Total(A \cup Y) = u + Total(Y)
  BY <1>11, <1>12 DEF t, u
<1>. QED  BY <1>3, <1>13 DEF u

(* The total of one coin.                                                  *)
LEMMA TotalOne ==
    ASSUME NEW c, c.value \in Nat
    PROVE  Valued({c}) /\ Total({c}) = c.value
<1>1. Valued({c})
  BY FS_Singleton DEF Valued
<1>2. Total({c}) = c.value + Total({c} \ {c})
  BY <1>1, TotalWithout
<1>3. {c} \ {c} = {}
  OBVIOUS
<1>. QED  BY <1>1, <1>2, <1>3, TotalNone

(* Total splits along a subset.                                            *)
LEMMA TotalPart ==
    ASSUME NEW C, Valued(C), NEW X, X \subseteq C
    PROVE  /\ Valued(X) /\ Valued(C \ X) /\ Total(X) \in Nat /\ Total(C \ X) \in Nat
           /\ Total(C) = Total(X) + Total(C \ X)
<1>1. Valued(X) /\ Valued(C \ X)
  BY FS_Subset DEF Valued
<1>2. X \cap (C \ X) = {} /\ X \cup (C \ X) = C
  OBVIOUS
<1>. QED  BY <1>1, <1>2, TotalUnion, TotalNat

-----------------------------------------------------------------------------
(* What the wire gives back.                                               *)

(* The optional fields of a slate come back from the binary form,          *)
(* whichever of them were left out.                                        *)
LEMMA OptsComeBack ==
    ASSUME NEW v
    PROVE  \A f \in DOMAIN OptDefault : read_opts(write_opts(v))[f] = v[f]
<1> DEFINE P == {f \in DOMAIN OptDefault : v[f] # OptDefault[f]}
           n == Cardinality(P)
<1>1. DOMAIN OptDefault = {"num_parts", "amt", "fee", "ttl"}
  BY DEF OptDefault
<1>2. IsFiniteSet(DOMAIN OptDefault)
  <2> DEFINE A == {"num_parts"} \cup {"amt"}
             B == {"fee"} \cup {"ttl"}
  <2>1. DOMAIN OptDefault = A \cup B
    BY <1>1
  <2>2. IsFiniteSet(A) /\ IsFiniteSet(B)
    BY FS_Singleton, FS_Union
  <2> HIDE DEF A, B
  <2>. QED  BY <2>1, <2>2, FS_Union
<1>3. \A f \in DOMAIN OptDefault : OptRank[f] \in Nat
  BY <1>1 DEF OptRank
<1>4. \A f, g \in DOMAIN OptDefault : f # g => OptRank[f] # OptRank[g]
  BY <1>1 DEF OptRank
<1>5. IsFiniteSet(P) /\ P \subseteq DOMAIN OptDefault
  BY <1>2, FS_Subset
<1>6. write_opts(v) = [status |-> P,
                       body |-> [i \in 1 .. n |-> v[CHOOSE f \in P : Place(P, f) = i]]]
  BY DEF write_opts
<1>a. \A f : f \in P <=> f \in DOMAIN OptDefault /\ v[f] # OptDefault[f]
  OBVIOUS
<1> HIDE DEF P
<1> DEFINE Low(f) == {g \in P : OptRank[g] <= OptRank[f]}
<1>7. \A f \in P : IsFiniteSet(Low(f)) /\ Low(f) \subseteq P /\ f \in Low(f) /\ Place(P, f) = Cardinality(Low(f))
  BY <1>3, <1>5, FS_Subset DEF Place
<1>8. \A f \in P : Place(P, f) \in 1 .. n
  <2> SUFFICES ASSUME NEW f \in P PROVE Place(P, f) \in 1 .. n
    OBVIOUS
  <2>1. IsFiniteSet(Low(f)) /\ Low(f) \in SUBSET P /\ Low(f) # {} /\ Place(P, f) = Cardinality(Low(f))
    BY <1>7
  <2> HIDE DEF Low
  <2>2. Cardinality(Low(f)) <= n /\ Cardinality(Low(f)) \in Nat /\ n \in Nat /\ Cardinality(Low(f)) # 0
    BY <1>5, <2>1, FS_Subset, FS_CardinalityType, FS_EmptySet
  <2>. QED  BY <2>1, <2>2
<1>9. \A f, g \in P : Place(P, f) = Place(P, g) => f = g
  <2>1. ASSUME NEW f \in P, NEW g \in P, OptRank[f] < OptRank[g]
        PROVE  Place(P, f) # Place(P, g)
    <3>1. Low(f) \subseteq Low(g) /\ g \in Low(g) /\ g \notin Low(f)
      BY <1>3, <1>5, <2>1
    <3>2. IsFiniteSet(Low(g)) /\ Place(P, f) = Cardinality(Low(f)) /\ Place(P, g) = Cardinality(Low(g))
      BY <1>7
    <3> HIDE DEF Low
    <3>3. Low(f) \in SUBSET Low(g) /\ Low(f) # Low(g)
      BY <3>1
    <3>. QED  BY <3>2, <3>3, FS_Subset
  <2>2. ASSUME NEW f \in P, NEW g \in P, f # g
        PROVE  OptRank[f] < OptRank[g] \/ OptRank[g] < OptRank[f]
    BY <1>3, <1>4, <1>5, <2>2
  <2>. QED  BY <2>1, <2>2
<1> SUFFICES ASSUME NEW f \in DOMAIN OptDefault
             PROVE  read_opts(write_opts(v))[f] = v[f]
  OBVIOUS
<1>10. read_opts(write_opts(v))[f] = IF f \in P THEN write_opts(v).body[Place(P, f)] ELSE OptDefault[f]
  BY <1>6 DEF read_opts
<1>11. CASE f \in P
  <2>1. (CHOOSE g \in P : Place(P, g) = Place(P, f)) = f
    BY <1>9, <1>11
  <2> DEFINE b == [i \in 1 .. n |-> v[CHOOSE g \in P : Place(P, g) = i]]
  <2>2. b[Place(P, f)] = v[CHOOSE g \in P : Place(P, g) = Place(P, f)]
    BY <1>8, <1>11
  <2>3. write_opts(v).body = b
    BY <1>6
  <2>. QED  BY <1>10, <1>11, <2>1, <2>2, <2>3
<1>12. CASE f \notin P
  BY <1>10, <1>12, <1>a
<1>. QED  BY <1>11, <1>12

(* A slate read back: the same but for what a reader computes again.       *)
Copy(x, y) ==
    /\ Same(x, y) /\ Formed(x) /\ x.amount = y.amount /\ x.fee = y.fee
    /\ x.tx = NoTx <=> y.tx = NoTx
    /\ y.tx # NoTx => x.tx.ins = y.tx.ins /\ x.tx.outs = y.tx.outs
    /\ x.tx # NoTx => x.tx.excess = Keys(x)
    /\ x.tx # NoTx /\ x.tx.signed =>
          \A k \in Keys(x) : x.parts[k] # NoSig /\ x.parts[k].keys = Keys(x)

(* Inputs and outputs come back from the list of commitments.              *)
LEMMA ComsComeBack ==
    ASSUME NEW tx, tx # NoTx, NEW v, v.coms = ComsOf(tx)
    PROVE  /\ tx_from_slate_v4(v) # NoTx /\ v.coms # <<>>
           /\ tx_from_slate_v4(v).ins = tx.ins /\ tx_from_slate_v4(v).outs = tx.outs
<1> DEFINE I == {[c |-> c, p |-> FALSE] : c \in tx.ins}
           O == {[c |-> c, p |-> TRUE] : c \in tx.outs}
           C == I \cup O
           T == tx_from_slate_v4(v)
<1>1. v.coms = <<C>>
  BY DEF ComsOf
<1> HIDE DEF I, O
<1>2. v.coms # <<>> /\ v.coms[1] = C
  BY <1>1
<1>3. /\ T.ins = {x.c : x \in {y \in v.coms[1] : ~y.p}}
      /\ T.outs = {x.c : x \in {y \in v.coms[1] : y.p}}
      /\ DOMAIN T = TxFields
  BY <1>2 DEF tx_from_slate_v4, TxFields
<1>4. T # NoTx
  BY <1>3 DEF TxFields, NoTx
<1>5. {y \in C : ~y.p} = I /\ {y \in C : y.p} = O
  BY DEF I, O
<1>6. {x.c : x \in I} = tx.ins /\ {x.c : x \in O} = tx.outs
  <2>1. \A c, b : [c |-> c, p |-> b].c = c
    OBVIOUS
  <2>2. /\ \A x \in I : \E c \in tx.ins : x = [c |-> c, p |-> FALSE]
        /\ \A c \in tx.ins : [c |-> c, p |-> FALSE] \in I
        /\ \A x \in O : \E c \in tx.outs : x = [c |-> c, p |-> TRUE]
        /\ \A c \in tx.outs : [c |-> c, p |-> TRUE] \in O
    BY DEF I, O
  <2>3. \A x \in I : x.c \in tx.ins
    BY <2>1, <2>2
  <2>4. \A c \in tx.ins : \E x \in I : x.c = c
    BY <2>1, <2>2
  <2>5. \A x \in O : x.c \in tx.outs
    BY <2>1, <2>2
  <2>6. \A c \in tx.outs : \E x \in O : x.c = c
    BY <2>1, <2>2
  <2>7. {x.c : x \in I} = tx.ins
    BY <2>3, <2>4
  <2>8. {x.c : x \in O} = tx.outs
    BY <2>5, <2>6
  <2>. QED  BY <2>7, <2>8
<1>. QED  BY <1>2, <1>3, <1>4, <1>5, <1>6

(* What is decoded from the fields of a slate is a copy of it.             *)
LEMMA WireCopies ==
    ASSUME NEW sl, NEW v,
           v.id = sl.id, v.sta = sl.state, v.off = sl.offset, v.sigs = SigsOf(sl.parts),
           v.amt = sl.amount, v.fee = sl.fee, v.coms = ComsOf(sl.tx)
    PROVE  Copy(SlateFromV4(v), sl)
<1> DEFINE x == SlateFromV4(v)
           calc == [parts |-> PartsOf(v.sigs), fee |-> v.fee]
<1>1. Same(x, sl) /\ Formed(x)
  BY WireKeeps, DecodedFields
<1>2. x.amount = sl.amount /\ x.fee = sl.fee /\ x.tx = tx_from_slate_v4(v) /\ x.parts = PartsOf(v.sigs)
  BY DEF SlateFromV4
<1>3. CASE sl.tx = NoTx
  <2>1. v.coms = <<>>
    BY <1>3 DEF ComsOf
  <2>2. x.tx = NoTx
    BY <1>2, <2>1 DEF tx_from_slate_v4
  <2>. QED  BY <1>1, <1>2, <1>3, <2>2 DEF Copy
<1>4. CASE sl.tx # NoTx
  <2>1. /\ x.tx # NoTx /\ v.coms # <<>> /\ x.tx.ins = sl.tx.ins /\ x.tx.outs = sl.tx.outs
    BY <1>2, <1>4, ComsComeBack
  <2>2. x.tx.excess = Keys(x) /\ x.tx.signed = finalize_signature(calc)
    BY <1>2, <2>1 DEF tx_from_slate_v4, calc_excess, Keys
  <2>3. calc.parts = x.parts
    BY <1>2
  <2> HIDE DEF calc, x
  <2>4. finalize_signature(calc) => \A k \in Keys(x) : x.parts[k] # NoSig /\ x.parts[k].keys = Keys(x)
    BY <2>3 DEF finalize_signature, verify_part_sigs, Keys
  <2>5. Copy(x, sl)
    BY <1>1, <1>2, <1>4, <2>1, <2>2, <2>4 DEF Copy, x
  <2>. QED  BY <2>5 DEF x
<1>. QED  BY <1>3, <1>4

(* A slate in a slatepack message, encrypted or not, is read as a copy.    *)
LEMMA MessageCopies ==
    ASSUME NEW sl, sl.state \in SlateState, NEW sender, NEW recs, NEW a,
           NEW m, m = create_slatepack_message(sl, sender, recs)
    PROVE  Copy(get_slate(m, a), sl)
<1> DEFINE v == SlateV4(sl)
           bin == write_bin(v)
           sp == create_slatepack(sl, sender, recs)
<1>1. m.data = sp
  BY DEF create_slatepack_message, armor
<1>2. sp = try_encrypt_payload([mode |-> 0, sender |-> sender, to |-> {},
                                payload |-> bin], recs)
  BY DEF create_slatepack
<1>3. /\ v.id = sl.id /\ v.sta = sl.state /\ v.off = sl.offset /\ v.sigs = SigsOf(sl.parts)
      /\ v["amt"] = sl.amount /\ v["fee"] = sl.fee /\ v.coms = ComsOf(sl.tx)
  BY DEF SlateV4
<1> HIDE DEF v
<1>4. bin = [id |-> v.id, sta |-> write_state(v.sta), off |-> v.off, opts |-> write_opts(v),
             sigs |-> v.sigs, structs |-> <<v.coms, v.proof>>]
  BY DEF write_bin
<1> HIDE DEF sp, bin
<1>5. try_decrypt_payload(m.data, a).payload = bin
  BY <1>1, <1>2, PackKeeps
<1>6. get_slate(m, a) = SlateFromV4(read_bin(bin))
  BY <1>5 DEF get_slate
<1>7. {"amt", "fee"} \subseteq DOMAIN OptDefault
  BY DEF OptDefault
<1>8. read_opts(bin.opts)["amt"] = v["amt"] /\ read_opts(bin.opts)["fee"] = v["fee"]
  BY <1>4, <1>7, OptsComeBack
<1> DEFINE u == read_bin(bin)
<1>9. /\ u.id = sl.id /\ u.sta = sl.state /\ u.off = sl.offset /\ u.sigs = SigsOf(sl.parts)
      /\ u.amt = sl.amount /\ u.fee = sl.fee /\ u.coms = ComsOf(sl.tx)
  BY <1>3, <1>4, <1>8, StateComesBack DEF read_bin
<1> HIDE DEF u
<1>. QED  BY <1>6, <1>9, WireCopies DEF u

(* So is one sent over Tor.                                                *)
LEMMA TorCopies ==
    ASSUME NEW sl
    PROVE  Copy(over_tor(sl), sl)
<1> DEFINE v == SlateV4(sl)
           r == read_json(write_json(v))
<1>1. /\ DOMAIN v = {"id", "sta", "off", "num_parts", "amt", "fee", "ttl", "sigs", "coms", "proof"}
      /\ v["id"] = sl.id /\ v["sta"] = sl.state /\ v["amt"] = sl.amount /\ v["fee"] = sl.fee
      /\ v["off"] = sl.offset /\ v["sigs"] = SigsOf(sl.parts) /\ v["coms"] = ComsOf(sl.tx)
  BY DEF SlateV4
<1>2. DOMAIN JsonDefault = {"num_parts", "amt", "fee", "ttl", "off", "coms", "proof"}
  BY DEF JsonDefault
<1> HIDE DEF v
<1>3. ASSUME NEW f \in DOMAIN v
      PROVE  r[f] = v[f]
  BY DEF read_json, write_json
<1> HIDE DEF r
<1>4. /\ r["id"] = sl.id /\ r["sta"] = sl.state /\ r["amt"] = sl.amount /\ r["fee"] = sl.fee
      /\ r["off"] = sl.offset /\ r["sigs"] = SigsOf(sl.parts) /\ r["coms"] = ComsOf(sl.tx)
  BY <1>1, <1>3
<1>5. over_tor(sl) = SlateFromV4(r)
  BY DEF over_tor, r, v
<1>. QED  BY <1>4, <1>5, WireCopies

(* A copy of a good slate is good.                                         *)
LEMMA CopyIsOK ==
    ASSUME NEW g, NEW x, NEW y, Copy(x, y), SlateOK(g, y)
    PROVE  SlateOK(g, x)
<1>1. x.id = y.id /\ x.state = y.state /\ x.offset = y.offset /\ Keys(x) = Keys(y)
      /\ (\A k \in Keys(y) : x.parts[k] = y.parts[k]) /\ x.amount = y.amount /\ x.fee = y.fee
  BY DEF Copy, Same
<1>2. y.state \in {"S1", "I1"} => OfferOK(g, x)
  BY <1>1 DEF SlateOK, OfferOK
<1>3. ASSUME y.state \in {"S2", "I2"}
      PROVE  AnswerOK(g, x)
  <2>1. PICK r \in Wallets \X {y.id} \X Nat :
          /\ Keys(y) = {r} /\ r # First(g, y.id)
          /\ y.parts[r].keys = {r, First(g, y.id)}
          /\ \E I, U \in SUBSET Purse(r[1]) : Share(g, y, r, I, U)
          /\ y.state = "I2" => /\ y.fee = Fee
                               /\ y.tx # NoTx => \E c \in y.tx.ins : c.own = r[1]
    BY <1>3 DEF SlateOK, AnswerOK
  <2>2. \E I, U \in SUBSET Purse(r[1]) : Share(g, x, r, I, U)
    BY <1>1, <2>1 DEF Share
  <2>3. x.parts[r].keys = {r, First(g, x.id)} /\ Keys(x) = {r} /\ r # First(g, x.id)
    BY <1>1, <2>1
  <2>4. x.state = "I2" => /\ x.fee = Fee
                          /\ x.tx # NoTx => \E c \in x.tx.ins : c.own = r[1]
    BY <1>1, <2>1 DEF Copy
  <2>. QED  BY <1>1, <2>2, <2>3, <2>4 DEF AnswerOK
<1>4. y.state \in {"S3", "I3"} => DoneOK(g, x)
  BY <1>1 DEF SlateOK, DoneOK, Copy, Content
<1>5. ASSUME y.state \notin {"S3", "I3"}, ~ Unsigned(x.tx)
      PROVE  FALSE
  <2>1. x.tx # NoTx /\ x.tx.signed
    BY <1>5 DEF Unsigned
  <2>2. \A k \in Keys(x) : x.parts[k] # NoSig /\ x.parts[k].keys = Keys(x)
    BY <2>1 DEF Copy
  <2>3. CASE y.state \in {"S1", "I1"}
    BY <1>2, <2>2, <2>3 DEF OfferOK
  <2>4. CASE y.state \in {"S2", "I2"}
    BY <1>3, <2>2, <2>4 DEF AnswerOK
  <2>. QED  BY <1>5, <2>3, <2>4 DEF SlateOK, SlateState
<1>6. x.tx # NoTx => x.tx.ins \cup x.tx.outs \subseteq AnyCoin
  BY DEF Copy, SlateOK
<1>. QED  BY <1>1, <1>2, <1>3, <1>4, <1>5, <1>6 DEF SlateOK

-----------------------------------------------------------------------------
(* The slates the steps of an exchange make.                               *)

(* add_transaction_elements adds inputs and outputs to the transaction.    *)
Elements(sl, ins, outs, A) ==
    /\ DOMAIN A = SlateFields /\ DOMAIN A.tx = TxFields
    /\ A.id = sl.id /\ A.state = sl.state /\ A.fee = sl.fee
    /\ A.offset = sl.offset /\ A.parts = sl.parts
    /\ A.tx.ins = sl.tx.ins \cup ins /\ A.tx.outs = sl.tx.outs \cup outs
    /\ A.tx.fee = sl.fee /\ A.tx.signed = FALSE

(* add_transaction_elements does that and leaves the rest of the slate.    *)
LEMMA ElementsAdded ==
    ASSUME NEW sl, DOMAIN sl = SlateFields, DOMAIN sl.tx = TxFields, NEW ins, NEW outs
    PROVE  Elements(sl, ins, outs, add_transaction_elements(sl, ins, outs))
<1> DEFINE A == add_transaction_elements(sl, ins, outs)
           t == sl.tx
           I == t.ins \cup ins
           O == t.outs \cup outs
           u == [t EXCEPT !.ins = I, !.outs = O, !.fee = sl.fee, !.excess = {}, !.signed = FALSE]
<1>1. A = [sl EXCEPT !.tx = u]
  BY DEF add_transaction_elements
<1>2. DOMAIN t = TxFields
  OBVIOUS
<1> HIDE DEF I, O, t, A
<1>3. DOMAIN u = TxFields /\ u.ins = I /\ u.outs = O /\ u.fee = sl.fee /\ u.signed = FALSE
  BY <1>2 DEF TxFields
<1> HIDE DEF u
<1>4. /\ DOMAIN A = SlateFields /\ A.tx = u
      /\ A.id = sl.id /\ A.state = sl.state /\ A.fee = sl.fee
      /\ A.offset = sl.offset /\ A.parts = sl.parts
  BY <1>1 DEF SlateFields
<1>. QED  BY <1>3, <1>4 DEF I, O, t, A, Elements

(* repopulate_tx adds what the context holds and the database still knows. *)
LEMMA RepopulatedTx ==
    ASSUME NEW d, NEW sl, NEW ctx, NEW upd \in BOOLEAN,
           DOMAIN sl = SlateFields, DOMAIN sl.tx = TxFields,
           NEW R, R = repopulate_tx(d, sl, ctx, upd)
    PROVE  /\ R.tx # NoTx /\ ~R.tx.signed
           /\ R.tx.ins = sl.tx.ins \cup (ctx.ins \cap DOMAIN d.coins)
           /\ R.tx.outs = sl.tx.outs \cup (ctx.outs \cap DOMAIN d.coins)
           /\ R.fee = IF upd THEN ctx.fee ELSE sl.fee
           /\ R.tx.fee = R.fee
<1> DEFINE s1 == [sl EXCEPT !.amount = ctx.amount, !.fee = IF upd THEN ctx.fee ELSE @]
           s2 == add_participant_info(s1, ctx.key)
           I == ctx.ins \cap DOMAIN d.coins
           O == ctx.outs \cap DOMAIN d.coins
           s3 == add_transaction_elements(s2, I, O)
<1>1. DOMAIN s1 = SlateFields /\ s1.tx = sl.tx /\ s1.fee = IF upd THEN ctx.fee ELSE sl.fee
  BY DEF SlateFields
<1>2. R = [s3 EXCEPT !.tx.offset = sl.offset]
  BY DEF repopulate_tx
<1> HIDE DEF s1, I, O
<1>3. DOMAIN s2 = SlateFields /\ s2.tx = sl.tx /\ s2.fee = s1.fee
  BY <1>1 DEF add_participant_info, SlateFields
<1> HIDE DEF s2
<1>4. /\ DOMAIN s3 = SlateFields /\ DOMAIN s3.tx = TxFields /\ s3.fee = s2.fee
      /\ s3.tx.ins = sl.tx.ins \cup I /\ s3.tx.outs = sl.tx.outs \cup O
      /\ s3.tx.fee = s2.fee /\ s3.tx.signed = FALSE
  <2>0. s3 = add_transaction_elements(s2, I, O) /\ DOMAIN s2.tx = TxFields
    BY <1>3
  <2> HIDE DEF s3
  <2>2. Elements(s2, I, O, s3)
    BY <1>3, <2>0, ElementsAdded
  <2>1. /\ DOMAIN s3 = SlateFields /\ DOMAIN s3.tx = TxFields /\ s3.fee = s2.fee
        /\ s3.tx.ins = s2.tx.ins \cup I /\ s3.tx.outs = s2.tx.outs \cup O
        /\ s3.tx.fee = s2.fee /\ s3.tx.signed = FALSE
    BY <2>2 DEF Elements
  <2>. QED  BY <1>3, <2>1
<1> HIDE DEF s3
<1>5. /\ DOMAIN R.tx = TxFields /\ R.fee = s3.fee /\ R.tx.ins = s3.tx.ins
      /\ R.tx.outs = s3.tx.outs /\ R.tx.fee = s3.tx.fee /\ R.tx.signed = s3.tx.signed
  BY <1>2, <1>4 DEF SlateFields, TxFields
<1>6. R.tx # NoTx
  BY <1>5 DEF TxFields, NoTx
<1>. QED  BY <1>1, <1>3, <1>4, <1>5, <1>6 DEF I, O

(* The reply of receive_tx.                                                *)
ReplyAs(sl, ctx, N) ==
    /\ N.id = sl.id /\ N.state = "S2" /\ N.amount = 0 /\ Keys(N) = {ctx.key}
    /\ N.parts[ctx.key].keys = Keys(sl) \cup {ctx.key}
    /\ N.offset = sl.offset (+) Terms({ctx.key}, ctx.ins, ctx.outs)
    /\ N.tx # NoTx /\ ~N.tx.signed /\ N.tx.ins = {} /\ N.tx.outs = ctx.outs

(* receive_tx gives a reply that adds the new output and nothing else.     *)
LEMMA ReplyIs ==
    ASSUME NEW w, NEW a, NEW sl, NEW ctx, Formed(sl), DOMAIN sl.offset = {},
           ctx.key \notin Keys(sl), ctx.initKey = ctx.key,
           NEW N, N = receive_slate(w, a, sl, ctx)
    PROVE  ReplyAs(sl, ctx, N)
<1> DEFINE k == ctx.key
           s0 == [sl EXCEPT !.tx = empty_transaction]
           s1 == add_transaction_elements(s0, {}, ctx.outs)
           s2 == fill_round_2(add_participant_info(s1, k), k)
           s3 == adjust_offset(s2, ctx)
           R == ReceivedSlate(w, a, sl, ctx)
<1>1. /\ DOMAIN s1 = SlateFields /\ DOMAIN s1.tx = TxFields
      /\ s1.id = sl.id /\ s1.parts = sl.parts /\ s1.offset = sl.offset
      /\ s1.tx.signed = FALSE /\ s1.tx.ins = {} /\ s1.tx.outs = ctx.outs
  <2>1. /\ DOMAIN s0 = SlateFields /\ s0.tx = empty_transaction
        /\ s0.id = sl.id /\ s0.parts = sl.parts /\ s0.offset = sl.offset
    BY DEF Formed, SlateFields
  <2>2. DOMAIN s0.tx = TxFields /\ s0.tx.ins = {} /\ s0.tx.outs = {}
    BY <2>1 DEF TxFields, empty_transaction
  <2>0. s1 = add_transaction_elements(s0, {}, ctx.outs)
    OBVIOUS
  <2> HIDE DEF s0, s1
  <2>3. /\ DOMAIN s1 = SlateFields /\ DOMAIN s1.tx = TxFields
        /\ s1.id = s0.id /\ s1.parts = s0.parts /\ s1.offset = s0.offset
        /\ s1.tx.signed = FALSE /\ s1.tx.ins = s0.tx.ins \cup {}
        /\ s1.tx.outs = s0.tx.outs \cup ctx.outs
    <3>1. Elements(s0, {}, ctx.outs, s1)
      BY <2>0, <2>1, <2>2, ElementsAdded
    <3>. QED  BY <3>1 DEF Elements
  <2>. QED  BY <2>1, <2>2, <2>3
<1> HIDE DEF s1
<1>2. /\ DOMAIN s2 = SlateFields /\ s2.tx = s1.tx /\ s2.id = sl.id /\ s2.offset = sl.offset
      /\ DOMAIN s2.parts = DOMAIN sl.parts \cup {k}
      /\ s2.parts[k].keys = Keys(sl) \cup {k}
  BY <1>1 DEF add_participant_info, fill_round_2, SlateFields, Keys
<1> HIDE DEF s2
<1>3. /\ DOMAIN s3 = SlateFields /\ s3.tx = s1.tx /\ s3.id = sl.id /\ s3.parts = s2.parts
      /\ s3.offset = sl.offset (+) Terms({k}, ctx.ins, ctx.outs)
  BY <1>2 DEF adjust_offset, SlateFields
<1> HIDE DEF s3
<1>4. \E p : R = [s3 EXCEPT !.proof = p]
  BY DEF ReceivedSlate, s1, s2, s3
<1>5. /\ DOMAIN R = SlateFields /\ R.tx = s1.tx /\ R.id = sl.id /\ R.parts = s2.parts
      /\ R.offset = s3.offset
  BY <1>3, <1>4 DEF SlateFields
<1> HIDE DEF R
<1>6. /\ DOMAIN N = SlateFields /\ N.tx = s1.tx /\ N.id = sl.id /\ N.state = "S2" /\ N.amount = 0
      /\ N.offset = s3.offset /\ DOMAIN N.parts = {k} /\ N.parts[k] = s2.parts[k]
  BY <1>2, <1>5 DEF receive_slate, remove_other_sigdata, SlateFields, Keys, R
<1> HIDE DEF k
<1>7. N.tx # NoTx
  BY <1>1, <1>6 DEF TxFields, NoTx
<1>8. N.tx = s1.tx /\ N.offset = sl.offset (+) Terms({k}, ctx.ins, ctx.outs)
  BY <1>3, <1>6
<1>9. Keys(N) = {k} /\ N.parts[k].keys = Keys(sl) \cup {k}
  BY <1>2, <1>6 DEF Keys
<1>. QED  BY <1>1, <1>6, <1>7, <1>8, <1>9 DEF k, ReplyAs

(* The answer of process_invoice_tx.                                       *)
PaymentAs(d, sl, ctx, self, C, N) ==
    /\ N.id = sl.id /\ N.state = "I2" /\ N.amount = 0 /\ Keys(N) = {ctx.key} /\ N.fee = Fee
    /\ N.parts[ctx.key].keys = Keys(sl) \cup {ctx.key}
    /\ N.offset = sl.offset (+) IF self THEN Terms({ctx.key}, {}, {})
                                ELSE Terms({ctx.key}, ctx.ins, ctx.outs)
    /\ N.tx # NoTx /\ ~N.tx.signed
    /\ N.tx.ins = ctx.ins \cup (C.ins \cap DOMAIN d.coins)
    /\ N.tx.outs = ctx.outs \cup (C.outs \cap DOMAIN d.coins)

(* process_invoice_tx gives an answer that adds the coin spent and the     *)
(* change, and leaves them out of the offset when the wallet pays itself.  *)
LEMMA PaymentIs ==
    ASSUME NEW d, NEW sl, NEW ctx, Formed(sl), DOMAIN sl.offset = {},
           ctx.key \notin Keys(sl), ctx.initKey = ctx.key, DOMAIN ctx = ContextFields,
           NEW self, self = (d.ctx[sl.id] # NoContext),
           NEW C, C = PaidContext(d, sl, ctx),
           NEW N, N = pay_slate(d, sl, ctx)
    PROVE  PaymentAs(d, sl, ctx, self, C, N)
<1> DEFINE k == ctx.key
           s0 == [sl EXCEPT !.tx = empty_transaction, !.fee = Fee]
           s1 == add_transaction_elements(s0, ctx.ins, ctx.outs)
           s2 == fill_round_2(add_participant_info(s1, k), k)
           c2 == IF self THEN [ctx EXCEPT !.ins = {}, !.outs = {}] ELSE ctx
           P == PaidSlate(sl, ctx, self)
           R == repopulate_tx(d, P, C, FALSE)
<1>1. /\ DOMAIN s1 = SlateFields /\ DOMAIN s1.tx = TxFields
      /\ s1.id = sl.id /\ s1.parts = sl.parts /\ s1.offset = sl.offset
      /\ s1.tx.ins = ctx.ins /\ s1.tx.outs = ctx.outs /\ s1.fee = Fee
  <2>1. /\ DOMAIN s0 = SlateFields /\ s0.tx = empty_transaction /\ s0.fee = Fee
        /\ s0.id = sl.id /\ s0.parts = sl.parts /\ s0.offset = sl.offset
    BY DEF Formed, SlateFields
  <2>2. DOMAIN s0.tx = TxFields /\ s0.tx.ins = {} /\ s0.tx.outs = {}
    BY <2>1 DEF TxFields, empty_transaction
  <2>0. s1 = add_transaction_elements(s0, ctx.ins, ctx.outs)
    OBVIOUS
  <2> HIDE DEF s0, s1
  <2>3. /\ DOMAIN s1 = SlateFields /\ DOMAIN s1.tx = TxFields
        /\ s1.id = s0.id /\ s1.parts = s0.parts /\ s1.offset = s0.offset
        /\ s1.fee = s0.fee /\ s1.tx.ins = s0.tx.ins \cup ctx.ins
        /\ s1.tx.outs = s0.tx.outs \cup ctx.outs
    <3>1. Elements(s0, ctx.ins, ctx.outs, s1)
      BY <2>0, <2>1, <2>2, ElementsAdded
    <3>. QED  BY <3>1 DEF Elements
  <2>. QED  BY <2>1, <2>2, <2>3
<1>2a. P = adjust_offset(s2, c2)
  BY DEF PaidSlate
<1> HIDE DEF s1
<1>2. /\ DOMAIN s2 = SlateFields /\ s2.tx = s1.tx /\ s2.id = sl.id /\ s2.offset = sl.offset
      /\ DOMAIN s2.parts = DOMAIN sl.parts \cup {k} /\ s2.fee = s1.fee
      /\ s2.parts[k].keys = Keys(sl) \cup {k}
  BY <1>1 DEF add_participant_info, fill_round_2, SlateFields, Keys
<1> HIDE DEF s2
<1>4. c2.initKey = k /\ C.key = k
  BY DEF PaidContext, ContextFields
<1>4a. Terms({k}, c2.ins, c2.outs) = IF self THEN Terms({k}, {}, {}) ELSE Terms({k}, ctx.ins, ctx.outs)
  BY DEF ContextFields
<1> DEFINE T == Terms({k}, c2.ins, c2.outs)
<1>4b. P = [s2 EXCEPT !.offset = @ (+) T]
  BY <1>2a, <1>4 DEF adjust_offset
<1> HIDE DEF P, c2, T
<1>5. /\ DOMAIN P = SlateFields /\ P.tx = s1.tx /\ P.id = sl.id /\ P.parts = s2.parts
      /\ P.offset = sl.offset (+) T /\ P.fee = Fee
  BY <1>1, <1>2, <1>4b DEF SlateFields
<1>6. /\ DOMAIN R = SlateFields /\ DOMAIN R.tx = TxFields /\ R.id = sl.id
      /\ R.offset = P.offset
      /\ Keys(R) = Keys(P) \cup {C.key}
      /\ \A j \in Keys(R) : R.parts[j] = IF j \in Keys(P) THEN P.parts[j] ELSE NoSig
      /\ R.tx # NoTx /\ ~R.tx.signed /\ R.fee = P.fee
      /\ R.tx.ins = P.tx.ins \cup (C.ins \cap DOMAIN d.coins)
      /\ R.tx.outs = P.tx.outs \cup (C.outs \cap DOMAIN d.coins)
  <2>1. PICK u \in BOOLEAN : R = repopulate_tx(d, P, C, u) /\ u = FALSE
    OBVIOUS
  <2>2. DOMAIN P.tx = TxFields
    BY <1>1, <1>5
  <2> HIDE DEF R
  <2>. QED  BY <1>5, <2>1, <2>2, Repopulated, RepopulatedTx
<1>8. N = remove_other_sigdata([R EXCEPT !.amount = 0, !.state = "I2"], k)
  BY DEF pay_slate, P, R
<1> HIDE DEF R
<1>7. k \in Keys(R) /\ R.parts[k] = s2.parts[k]
  BY <1>2, <1>4, <1>5, <1>6 DEF Keys
<1>9. /\ N.tx = R.tx /\ N.id = sl.id /\ N.state = "I2" /\ N.amount = 0 /\ N.fee = R.fee
      /\ N.offset = P.offset /\ DOMAIN N.parts = {k} /\ N.parts[k] = s2.parts[k]
  BY <1>6, <1>7, <1>8 DEF remove_other_sigdata, SlateFields, Keys
<1> HIDE DEF k
<1>10. N.fee = Fee /\ Keys(N) = {k} /\ N.parts[k].keys = Keys(sl) \cup {k}
  BY <1>2, <1>5, <1>6, <1>9 DEF Keys
<1>11. N.offset = sl.offset (+) IF self THEN Terms({k}, {}, {}) ELSE Terms({k}, ctx.ins, ctx.outs)
  BY <1>4a, <1>5, <1>9 DEF T
<1>12. N.tx.ins = ctx.ins \cup (C.ins \cap DOMAIN d.coins)
       /\ N.tx.outs = ctx.outs \cup (C.outs \cap DOMAIN d.coins)
  BY <1>1, <1>5, <1>6, <1>9
<1>. QED  BY <1>6, <1>9, <1>10, <1>11, <1>12 DEF k, PaymentAs

(* The transaction finalize_tx completes.                                  *)
CompletedAs(d, sl, ctx, inv, Z) ==
    /\ DOMAIN Z = SlateFields /\ DOMAIN Z.tx = TxFields /\ Z.tx # NoTx
    /\ Z.tx.ins = sl.tx.ins \cup (ctx.ins \cap DOMAIN d.coins)
    /\ Z.tx.outs = sl.tx.outs \cup (ctx.outs \cap DOMAIN d.coins)
    /\ Z.tx.fee = IF inv THEN sl.fee ELSE ctx.fee
    /\ Z.tx.excess = Keys(Z) /\ Z.tx.signed /\ Z.id = sl.id
    /\ Z.tx.offset = sl.offset (+) Terms({ctx.initKey}, ctx.ins, ctx.outs)

(* finalize_tx adds what the context holds to transaction and offset.      *)
LEMMA CompletedTx ==
    ASSUME NEW d, NEW sl, NEW ctx, NEW inv \in BOOLEAN, Formed(sl), sl.tx # NoTx,
           DOMAIN ctx = ContextFields
    PROVE  CompletedAs(d, sl, ctx, inv, Finalized(Completed(d, sl, ctx, inv)))
<1> DEFINE Z == Finalized(Completed(d, sl, ctx, inv))
<1> DEFINE A == adjust_offset(sl, ctx)
           c == IF inv THEN [ctx EXCEPT !.key = ctx.initKey] ELSE ctx
           R == repopulate_tx(d, A, c, ~inv)
           C == Completed(d, sl, ctx, inv)
           T == sl.offset (+) Terms({ctx.initKey}, ctx.ins, ctx.outs)
<1>1. c.ins = ctx.ins /\ c.outs = ctx.outs /\ c.fee = ctx.fee
  BY DEF ContextFields
<1>2. C = fill_round_2(R, SigningKey(ctx))
  BY DEF Completed
<1>3. A = [sl EXCEPT !.offset = T]
  BY DEF adjust_offset
<1> HIDE DEF T
<1>4. /\ DOMAIN A = SlateFields /\ A.tx = sl.tx /\ A.id = sl.id /\ A.fee = sl.fee
      /\ A.offset = T /\ DOMAIN A.tx = TxFields
  BY <1>3 DEF Formed, SlateFields
<1> HIDE DEF A, c
<1>5. /\ DOMAIN R = SlateFields /\ DOMAIN R.tx = TxFields /\ R.id = sl.id
      /\ R.tx.offset = T
      /\ R.tx.ins = sl.tx.ins \cup (ctx.ins \cap DOMAIN d.coins)
      /\ R.tx.outs = sl.tx.outs \cup (ctx.outs \cap DOMAIN d.coins)
      /\ R.tx.fee = IF inv THEN sl.fee ELSE ctx.fee
  <2> DEFINE u == ~inv
  <2>1. u \in BOOLEAN /\ R = repopulate_tx(d, A, c, u)
    OBVIOUS
  <2>1a. \A x, y : (IF u THEN x ELSE y) = IF inv THEN y ELSE x
    OBVIOUS
  <2> HIDE DEF R, u
  <2>2. R.id = A.id /\ R.tx.offset = A.offset /\ DOMAIN R = SlateFields /\ DOMAIN R.tx = TxFields
    BY <1>4, <2>1, Repopulated
  <2>3. /\ R.tx.ins = A.tx.ins \cup (c.ins \cap DOMAIN d.coins)
        /\ R.tx.outs = A.tx.outs \cup (c.outs \cap DOMAIN d.coins)
        /\ R.fee = (IF u THEN c.fee ELSE A.fee) /\ R.tx.fee = R.fee
    BY <1>4, <2>1, RepopulatedTx
  <2>. QED  BY <1>1, <1>4, <2>1a, <2>2, <2>3
<1> HIDE DEF R, C
<1>6. DOMAIN C = SlateFields /\ C.tx = R.tx /\ C.id = R.id
  BY <1>2, <1>5 DEF fill_round_2, SlateFields
<1>7. Z = [C EXCEPT !.tx = [@ EXCEPT !.excess = Keys(C), !.signed = TRUE]]
  BY DEF Finalized, calc_excess, C
<1> HIDE DEF Z
<1>8. /\ DOMAIN Z = SlateFields /\ DOMAIN Z.tx = TxFields /\ Z.id = C.id
      /\ Keys(Z) = Keys(C) /\ Z.tx.excess = Keys(C) /\ Z.tx.signed = TRUE
      /\ Z.tx.ins = C.tx.ins /\ Z.tx.outs = C.tx.outs /\ Z.tx.fee = C.tx.fee
      /\ Z.tx.offset = C.tx.offset
  BY <1>5, <1>6, <1>7 DEF SlateFields, TxFields, Keys
<1>9. Z.tx # NoTx
  BY <1>8 DEF TxFields, NoTx
<1>. QED  BY <1>5, <1>6, <1>8, <1>9 DEF T, CompletedAs, Z

-----------------------------------------------------------------------------
(* Offers, and what an offset tells of the coins in it.                    *)

(* init_send_tx gives an offer of the amount, without a transaction.       *)
LEMMA SendIs ==
    ASSUME NEW w, NEW a, NEW s, NEW amount, NEW ttl, NEW ctx, NEW proof,
           NEW N, N = init_send_slate(w, a, InitSlate(s, amount, ttl), ctx, proof)
    PROVE  /\ N.id = s /\ N.state = "S1" /\ Keys(N) = {ctx.key} /\ N.parts[ctx.key] = NoSig
           /\ N.amount = amount /\ N.tx = NoTx /\ N.proof = IF proof = <<>> THEN NoProof ELSE N.proof
  BY DEF init_send_slate, InitSlate, blank, compact, add_participant_info, Keys

(* So does issue_invoice_tx.                                               *)
LEMMA InvoiceIs ==
    ASSUME NEW s, NEW amount, NEW ctx, NEW N, N = issue_slate(InvoiceSlate(s, amount), ctx)
    PROVE  /\ N.id = s /\ N.state = "I1" /\ Keys(N) = {ctx.key} /\ N.parts[ctx.key] = NoSig
           /\ N.amount = amount /\ N.tx = NoTx
  BY DEF issue_slate, InvoiceSlate, blank, compact, add_participant_info, Keys

(* Adding terms to an empty offset gives those terms.                      *)
LEMMA EmptyPlus ==
    ASSUME NEW B, DOMAIN B = {}, NEW K, NEW I, NEW U
    PROVE  B (+) Terms(K, I, U) = Terms(K, I, U)
<1> DEFINE T == Terms(K, I, U)
<1>1. T = [x \in DOMAIN T |-> 1]
  BY DEF Terms, SetToBag
<1> HIDE DEF T
<1>2. \A x \in DOMAIN T : T[x] = 1
  BY <1>1
<1>3. B (+) T = [x \in DOMAIN T |-> 0 + T[x]]
  BY DEF (+)
<1>4. B (+) T = [x \in DOMAIN T |-> 1]
  BY <1>2, <1>3
<1>. QED  BY <1>1, <1>4 DEF T

(* The term of an input or an output in an offset; a key is a triple.      *)
InTerm(c) == <<"-", c.own, "coin", c.child, c.value>>
OutTerm(c) == <<"+", c.own, "coin", c.child, c.value>>
Triple(k) == \E x, y, z : k = <<x, y, z>>

(* The term of a key is not that of a coin.                                *)
LEMMA TermsApart ==
    ASSUME NEW k, Triple(k)
    PROVE  \A c : Term(k) # InTerm(c) /\ Term(k) # OutTerm(c)
<1>1. PICK x, y, z : k = <<x, y, z>>
  BY DEF Triple
<1> DEFINE S == {x, y, z, "-"}
<1>2. k \in Seq(S) /\ <<"-">> \in Seq(S) /\ Len(k) = 3 /\ Len(<<"-">>) = 1
  BY <1>1
<1> HIDE DEF S
<1>3. Len(Term(k)) = 4
  <2>1. \A s1, s2 \in Seq(S) : Len(s1 \o s2) = Len(s1) + Len(s2)
    BY ConcatProperties
  <2>2. Term(k) = <<"-">> \o k
    BY DEF Term
  <2>3. Len(<<"-">> \o k) = Len(<<"-">>) + Len(k)
    BY <1>2, <2>1
  <2>. QED  BY <1>2, <2>2, <2>3
<1>4. \A c : Len(InTerm(c)) = 5 /\ Len(OutTerm(c)) = 5
  <2> SUFFICES ASSUME NEW c PROVE Len(InTerm(c)) = 5 /\ Len(OutTerm(c)) = 5
    OBVIOUS
  <2> DEFINE a == c.own
             b == c.child
             v == c.value
  <2>1. InTerm(c) = <<"-", a, "coin", b, v>> /\ OutTerm(c) = <<"+", a, "coin", b, v>>
    BY DEF InTerm, OutTerm
  <2> HIDE DEF a, b, v
  <2>2. Len(<<"-", a, "coin", b, v>>) = 5 /\ Len(<<"+", a, "coin", b, v>>) = 5
    OBVIOUS
  <2>. QED  BY <2>1, <2>2
<1>. QED  BY <1>3, <1>4

(* Coins with the same term are the same coin.                             *)
LEMMA CoinTerms ==
    ASSUME NEW c, NEW e, c \in AnyCoin, e \in AnyCoin
    PROVE  /\ InTerm(c) = InTerm(e) => c = e
           /\ OutTerm(c) = OutTerm(e) => c = e
           /\ InTerm(c) # OutTerm(e)
  BY DEF InTerm, OutTerm, AnyCoin

(* The terms of an offset tell which coins are in it.                      *)
LEMMA TermsHas ==
    ASSUME NEW K, \A k \in K : Triple(k), NEW I, NEW U, I \cup U \subseteq AnyCoin, NEW c \in AnyCoin
    PROVE  /\ InTerm(c) \in DOMAIN Terms(K, I, U) <=> c \in I
           /\ OutTerm(c) \in DOMAIN Terms(K, I, U) <=> c \in U
<1>1. DOMAIN Terms(K, I, U) = {Term(k) : k \in K} \cup {InTerm(x) : x \in I} \cup {OutTerm(x) : x \in U}
  BY DEF Terms, SetToBag, Term, InTerm, OutTerm
<1>2. \A k \in K : Term(k) # InTerm(c) /\ Term(k) # OutTerm(c)
  BY TermsApart
<1>3. \A x \in I \cup U : /\ InTerm(c) = InTerm(x) => c = x
                          /\ OutTerm(c) = OutTerm(x) => c = x
                          /\ InTerm(c) # OutTerm(x) /\ InTerm(x) # OutTerm(c)
  BY CoinTerms
<1>. QED  BY <1>1, <1>2, <1>3

(* If two offsets add up to the terms of a transaction, as ValidTx demands *)
(* of the kernel sum, its inputs and outputs are those of both sides, and  *)
(* no coin is on both.                                                     *)
LEMMA SumSplits ==
    ASSUME NEW K1, NEW K2, NEW K, \A k \in K1 \cup K2 \cup K : Triple(k),
           NEW I, NEW U, NEW J, NEW V, NEW A, NEW B,
           I \cup U \cup J \cup V \cup A \cup B \subseteq AnyCoin,
           Terms(K1, I, U) (+) Terms(K2, J, V) = Terms(K, A, B)
    PROVE  /\ A = I \cup J /\ I \cap J = {}
           /\ B = U \cup V /\ U \cap V = {}
<1> DEFINE S == Terms(K1, I, U)
           T == Terms(K2, J, V)
           R == Terms(K, A, B)
<1>1. DOMAIN R = DOMAIN S \cup DOMAIN T
  BY DEF (+)
<1>2. DOMAIN S \cap DOMAIN T = {}
  <2>1. /\ \A x \in DOMAIN S : S[x] = 1
        /\ \A x \in DOMAIN T : T[x] = 1
        /\ \A x \in DOMAIN R : R[x] = 1
    BY TermsOnce
  <2> HIDE DEF S, T, R
  <2> SUFFICES ASSUME NEW x \in DOMAIN S, x \in DOMAIN T PROVE FALSE
    OBVIOUS
  <2>2. (S (+) T)[x] = S[x] + T[x]
    BY DEF (+)
  <2>3. R[x] = S[x] + T[x]
    BY <2>2 DEF S, T, R
  <2>. QED  BY <1>1, <2>1, <2>3
<1>3. \A c \in AnyCoin : /\ InTerm(c) \in DOMAIN S <=> c \in I
                         /\ OutTerm(c) \in DOMAIN S <=> c \in U
                         /\ InTerm(c) \in DOMAIN T <=> c \in J
                         /\ OutTerm(c) \in DOMAIN T <=> c \in V
                         /\ InTerm(c) \in DOMAIN R <=> c \in A
                         /\ OutTerm(c) \in DOMAIN R <=> c \in B
  BY TermsHas
<1> HIDE DEF S, T, R
<1>4. \A c \in AnyCoin : /\ c \in A <=> c \in I \/ c \in J
                         /\ ~(c \in I /\ c \in J)
                         /\ c \in B <=> c \in U \/ c \in V
                         /\ ~(c \in U /\ c \in V)
  BY <1>1, <1>2, <1>3
<1>. QED  BY <1>4

-----------------------------------------------------------------------------
(* Why a completed transaction settles its slate.                          *)

(* Inputs and outputs that move an amount from payer to payee, who pays    *)
(* the fee apart.                                                          *)
Pays(ins, outs, payer, payee, amount) ==
    \A w \in Wallets :
        Total(Part(outs, w)) =
            Total(Part(ins, w)) + (IF w = payee THEN amount ELSE 0)
                                - (IF w = payer THEN amount + Fee ELSE 0)

(* The coins of a wallet have a total.                                     *)
LEMMA CoinsValued ==
    ASSUME NEW w, NEW C, Coins(w, C)
    PROVE  Valued(C) /\ Total(C) \in Nat
<1>1. Valued(C)
  BY DEF Coins, Purse, Valued
<1>. QED  BY <1>1, TotalNat

(* Change to the payer and the amount to the payee move the amount.        *)
LEMMA Moves ==
    ASSUME NEW p \in Wallets, NEW q \in Wallets, NEW A \in Nat, NEW ins, NEW C1, NEW C2,
           Coins(p, ins), Coins(p, C1), Coins(q, C2), C1 \cap C2 = {},
           Total(C2) = A, Total(ins) = Total(C1) + A + Fee
    PROVE  Pays(ins, C1 \cup C2, p, q, A)
<1>1. Fee \in Nat \ {0}
  BY SlateAssumption
<1>2. /\ Total(ins) \in Nat /\ Total(C1) \in Nat /\ Valued(C1) /\ Valued(C2)
      /\ Total(C1 \cup C2) = Total(C1) + A
  BY CoinsValued, TotalUnion
<1>3. /\ \A c \in ins \cup C1 : c.own = p
      /\ \A c \in C2 : c.own = q
  BY DEF Coins, Purse
<1> SUFFICES ASSUME NEW w \in Wallets
             PROVE  Total(Part(C1 \cup C2, w)) =
                       Total(Part(ins, w)) + (IF w = q THEN A ELSE 0)
                                           - (IF w = p THEN A + Fee ELSE 0)
  BY DEF Pays
<1>4. /\ w = p => Part(ins, w) = ins
      /\ w # p => Part(ins, w) = {}
      /\ w = p /\ w = q => Part(C1 \cup C2, w) = C1 \cup C2
      /\ w = p /\ w # q => Part(C1 \cup C2, w) = C1
      /\ w # p /\ w = q => Part(C1 \cup C2, w) = C2
      /\ w # p /\ w # q => Part(C1 \cup C2, w) = {}
  BY <1>3 DEF Part
<1> DEFINE x == Total(ins)
           y == Total(C1)
           z == Total(C1 \cup C2)
           u == Total(Part(C1 \cup C2, w))
           v == Total(Part(ins, w))
<1>5. /\ w = p /\ w = q => u = z /\ v = x
      /\ w = p /\ w # q => u = y /\ v = x
      /\ w # p /\ w = q => u = A /\ v = 0
      /\ w # p /\ w # q => u = 0 /\ v = 0
  BY <1>4, TotalNone
<1>6. x \in Nat /\ y \in Nat /\ z = y + A /\ x = y + A + Fee
  BY <1>2
<1> HIDE DEF x, y, z, u, v
<1>7. u = v + (IF w = q THEN A ELSE 0) - (IF w = p THEN A + Fee ELSE 0)
  BY <1>1, <1>5, <1>6
<1>. QED  BY <1>7 DEF u, v

(* A wallet that pays itself pays the fee.                                 *)
LEMMA Stays ==
    ASSUME NEW p \in Wallets, NEW A \in Nat, NEW ins, NEW outs,
           Coins(p, ins), Coins(p, outs), Total(ins) = Total(outs) + Fee
    PROVE  Pays(ins, outs, p, p, A)
<1>1. Fee \in Nat \ {0}
  BY SlateAssumption
<1>2. /\ Total(ins) \in Nat /\ Total(outs) \in Nat
  BY CoinsValued
<1>3. \A c \in ins \cup outs : c.own = p
  BY DEF Coins, Purse
<1> SUFFICES ASSUME NEW w \in Wallets
             PROVE  Total(Part(outs, w)) =
                       Total(Part(ins, w)) + (IF w = p THEN A ELSE 0)
                                           - (IF w = p THEN A + Fee ELSE 0)
  BY DEF Pays
<1>4. /\ w = p => Part(ins, w) = ins /\ Part(outs, w) = outs
      /\ w # p => Part(ins, w) = {} /\ Part(outs, w) = {}
  BY <1>3 DEF Part
<1>. QED  BY <1>1, <1>2, <1>4, TotalNone

(* The total of one coin of a wallet.                                      *)
LEMMA OneCoin ==
    ASSUME NEW w, NEW C, Coins(w, C), NEW c, C = {c}
    PROVE  Total(C) = c.value /\ c.value \in Nat
<1>1. c.value \in Nat
  BY DEF Coins, Purse
<1>. QED  BY <1>1, TotalOne

(* finalize_tx can complete this slate with the context of the wallet.     *)
Finishing(D, S, g, w, d, a, sl, ctx, inv) ==
    /\ SlateOK(g, sl) /\ GoodSlate(D, S, sl) /\ sl.state \in {"S2", "I2"}
    /\ g.offer[sl.id] \in Wallets \X {"send", "invoice"} \X Amounts
    /\ PayDb(g, w, d) /\ ContextOK(w, d, sl.id)
    /\ ctx = d.ctx[sl.id] /\ ctx # NoContext
    /\ inv <=> sl.state = "I2"
    /\ CanComplete(w, d, a, sl, ctx, inv)

(* What finalize_tx completes settles the slate as it was agreed.          *)
LEMMA Settling ==
    ASSUME 0 \notin Amounts, NEW D, NEW S,
           NEW g, NEW w \in Wallets, NEW d, NEW a, NEW sl, NEW ctx, NEW inv \in BOOLEAN,
           Finishing(D, S, g, w, d, a, sl, ctx, inv),
           NEW Z, Z = Finalized(Completed(d, sl, ctx, inv))
    PROVE  /\ w = g.offer[sl.id][1] /\ g.done[sl.id] = NoTx
           /\ ctx.initKey = First(g, sl.id)
           /\ \E payer, payee \in Wallets, r \in Wallets \X {sl.id} \X Nat :
                 Settles(g, sl.id, Content(Z.tx), payer, payee, r)
<1> DEFINE s == sl.id
           k == ctx.initKey
           J == ctx.ins
           V == ctx.outs
           A == Agreed(g, s)
           N == finalize_slate(d, sl, ctx, inv)
<1>1. Formed(sl) /\ s \in Slates /\ DOMAIN ctx = ContextFields
      /\ \E n \in 1 .. d.draws[s] : k = <<w, s, n>>
  BY DEF GoodSlate, ContextOK, Finishing
<1>1a. g.offer[s] \in Wallets \X {"send", "invoice"} \X Amounts
       /\ sl.state \in {"S2", "I2"} /\ (inv <=> sl.state = "I2")
  BY DEF Finishing
<1>2. sl.tx # NoTx /\ (inv \/ ctx.fee # 0)
      /\ ValidTx(Z.tx) /\ Found(d, s, IF inv THEN {"TxReceived"} ELSE {"TxSent"}) # {}
  BY DEF CanComplete, CanFinalize, Finishable, Finishing
<1>3. Finishes(N, sl, k)
  BY <1>1, FinishedIs DEF Finishing
<1>4. PICK r \in Wallets \X {s} \X Nat :
        /\ Keys(sl) = {r} /\ r # First(g, s)
        /\ sl.parts[r].keys = {r, First(g, s)}
        /\ \E I, U \in SUBSET Purse(r[1]) : Share(g, sl, r, I, U)
        /\ sl.state = "I2" => /\ sl.fee = Fee
                              /\ sl.tx # NoTx => \E c \in sl.tx.ins : c.own = r[1]
  BY DEF SlateOK, AnswerOK, Finishing
<1>5. k = First(g, s) /\ Keys(N) = {r, k}
  <2>1. PICK q \in Keys(sl) :
          Keys(sl) = {q} /\ q # k /\ k \in sl.parts[q].keys /\ Keys(N) = {q, k}
    BY <1>3 DEF Finishes
  <2>2. q = r
    BY <1>4, <2>1
  <2>. QED  BY <1>4, <2>1, <2>2
<1>6. w = g.offer[s][1]
  BY <1>1, <1>5 DEF First
<1>7. /\ Z.tx.ins = sl.tx.ins \cup (ctx.ins \cap DOMAIN d.coins)
      /\ Z.tx.outs = sl.tx.outs \cup (ctx.outs \cap DOMAIN d.coins)
      /\ Z.tx.fee = IF inv THEN sl.fee ELSE ctx.fee
      /\ Z.tx.excess = Keys(Z) /\ DOMAIN Z = SlateFields
      /\ Z.tx.offset = sl.offset (+) Terms({k}, J, V)
  <2> HIDE DEF A, N
  <2>1. sl.tx # NoTx /\ Formed(sl) /\ DOMAIN ctx = ContextFields
    BY <1>1, <1>2
  <2>2. CompletedAs(d, sl, ctx, inv, Z)
    BY <2>1, CompletedTx
  <2>. QED  BY <2>2 DEF CompletedAs
<1>8. Keys(N) = Keys(Z)
  BY <1>7 DEF finalize_slate, SlateFields, Keys
<1>9. PICK I, U \in SUBSET Purse(r[1]) : Share(g, sl, r, I, U)
  BY <1>4
<1>10. CtxOK(g, w, d, s)
  BY <1>1 DEF PayDb, HeadOK, Finishing
<1>11. g.done[s] = NoTx /\ Coins(w, J) /\ Coins(w, V) /\ From(g, s, V)
       /\ IF IsSend(g, s) THEN SenderOK(g, d, s, ctx) ELSE PayeeOK(g, d, s, ctx)
  <2>1. d.ctx[s] = ctx
    BY DEF Finishing
  <2>. QED  BY <1>5, <1>10, <2>1 DEF CtxOK
<1>12. /\ Coins(r[1], I) /\ Coins(r[1], U) /\ From(g, s, U) /\ sl.offset = Terms({r}, I, U)
  BY <1>9 DEF Share
<1>13. I \cup U \cup J \cup V \subseteq AnyCoin /\ r[1] \in Wallets
  BY <1>11, <1>12 DEF Coins, Purse, AnyCoin
<1>2a. /\ Z.tx.offset = Terms(Z.tx.excess, Z.tx.ins, Z.tx.outs)
       /\ Total(Z.tx.ins) = Total(Z.tx.outs) + Z.tx.fee /\ Z.tx.fee >= Fee
  BY <1>2 DEF ValidTx
<1>14. Z.tx.ins \cup Z.tx.outs \subseteq AnyCoin
  <2>1. sl.tx.ins \cup sl.tx.outs \subseteq AnyCoin
    BY <1>2 DEF SlateOK, Finishing
  <2>. QED  BY <1>7, <1>13, <2>1
<1>15. \A x \in {r} \cup {k} \cup Z.tx.excess : Triple(x)
  BY <1>1, <1>4, <1>5, <1>7, <1>8 DEF Triple
<1>16. /\ Z.tx.ins = I \cup J /\ I \cap J = {}
       /\ Z.tx.outs = U \cup V /\ U \cap V = {}
  <2>1. Terms({r}, I, U) (+) Terms({k}, J, V) = Terms(Z.tx.excess, Z.tx.ins, Z.tx.outs)
    BY <1>2a, <1>7, <1>12
  <2> DEFINE B == Z.tx.ins
             C == Z.tx.outs
             K == Z.tx.excess
             R == {r}
             L == {k}
  <2>2. /\ I \cup U \cup J \cup V \cup B \cup C \subseteq AnyCoin
        /\ \A x \in R \cup L \cup K : Triple(x)
        /\ Terms(R, I, U) (+) Terms(L, J, V) = Terms(K, B, C)
    BY <1>13, <1>14, <1>15, <2>1
  <2> HIDE DEF B, C, K, R, L, J, V
  <2>3. B = I \cup J /\ I \cap J = {} /\ C = U \cup V /\ U \cap V = {}
    BY <2>2, SumSplits
  <2>. QED  BY <2>3 DEF B, C
<1>17. /\ Total(I) \in Nat /\ Total(J) \in Nat /\ Total(U) \in Nat /\ Total(V) \in Nat
       /\ Total(Z.tx.ins) = Total(I) + Total(J) /\ Total(Z.tx.outs) = Total(U) + Total(V)
       /\ Total(I) + Total(J) = Total(U) + Total(V) + Z.tx.fee
  <2>1. /\ Valued(I) /\ Valued(J) /\ Valued(U) /\ Valued(V)
        /\ Total(I) \in Nat /\ Total(J) \in Nat /\ Total(U) \in Nat /\ Total(V) \in Nat
    BY <1>11, <1>12, CoinsValued
  <2> HIDE DEF A, N, J, V
  <2>a. I \cap J = {} /\ U \cap V = {}
    BY <1>16
  <2>2. Total(I \cup J) = Total(I) + Total(J)
    BY <2>a, <2>1, TotalUnion
  <2>3. Total(U \cup V) = Total(U) + Total(V)
    BY <2>a, <2>1, TotalUnion
  <2>. QED  BY <1>2a, <1>16, <2>1, <2>2, <2>3
<1>18. A \in Nat \ {0} /\ Fee \in Nat \ {0}
  BY <1>1a, SlateAssumption, ExchangeAssumption DEF Agreed
<1>19. ASSUME NEW p \in Wallets, NEW q \in Wallets, {p, q} = {w, r[1]},
              w = IF IsSend(g, s) THEN p ELSE q, Coins(p, Z.tx.ins), Z.tx.ins # {},
              Pays(Z.tx.ins, Z.tx.outs, p, q, A)
       PROVE  Settles(g, s, Content(Z.tx), p, q, r)
  <2>1. Z.tx.excess = {First(g, s), r}
    BY <1>5, <1>7, <1>8
  <2>2. IsFiniteSet(Z.tx.outs) /\ From(g, s, Z.tx.outs)
    <3>1. IsFiniteSet(U) /\ IsFiniteSet(V)
      BY <1>11, <1>12 DEF Coins
    <3>2. IsFiniteSet(U \cup V)
      BY <3>1, FS_Union
    <3>3. From(g, s, U) /\ From(g, s, V)
      BY <1>11, <1>12
    <3> HIDE DEF V, s
    <3>4. From(g, s, U \cup V)
      BY <3>3 DEF From
    <3>. QED  BY <1>16, <3>2, <3>4
  <2>3. Content(Z.tx).ins = Z.tx.ins /\ Content(Z.tx).outs = Z.tx.outs /\ Content(Z.tx).excess = Z.tx.excess
    BY DEF Content
  <2>4. r \in Wallets \X {s} \X Nat /\ r[2] = s
    BY <1>4
  <2> DEFINE C == Content(Z.tx)
  <2>5. C.excess = {First(g, s), r} /\ C.ins = Z.tx.ins /\ C.outs = Z.tx.outs
    BY <2>1, <2>3
  <2> HIDE DEF C, A, J, V, k, N
  <2>6. {p, q} = {g.offer[s][1], r[1]} /\ g.offer[s][1] = IF IsSend(g, s) THEN p ELSE q
    BY <1>6, <1>19
  <2>7. Coins(p, C.ins) /\ C.ins # {} /\ IsFiniteSet(C.outs) /\ C.outs \subseteq AnyCoin
        /\ From(g, s, C.outs) /\ Pays(C.ins, C.outs, p, q, A)
    BY <1>14, <1>19, <2>2, <2>5
  <2>8. Settles(g, s, C, p, q, r)
    BY <2>4, <2>5, <2>6, <2>7 DEF Settles, Pays, A
  <2>. QED  BY <2>8 DEF C
<1>20. Z.tx.ins # {}
  <2>1. Z.tx.fee = Fee
    BY <1>1a, <1>2, <1>4, <1>7, <1>11 DEF SenderOK, PayeeOK
  <2>2. Total(Z.tx.ins) # 0
    BY <1>17, <1>18, <2>1
  <2>. QED  BY <2>2, TotalNone
<1> HIDE DEF A, J, V, k, N
<1>21. CASE IsSend(g, s) /\ ~inv
  <2>1. ctx.fee = Fee
    BY <1>11, <1>21 DEF SenderOK
  <2>2. PICK o : I = {} /\ U = {o} /\ o.value = A
    BY <1>1a, <1>9, <1>21 DEF Share, A
  <2>3. Total(U) = A /\ Total(J) = Total(V) + A + Fee
    BY <1>7, <1>12, <1>17, <1>18, <1>21, <2>1, <2>2, OneCoin, TotalNone
  <2>4. Pays(J, V \cup U, w, r[1], A)
    BY <1>11, <1>12, <1>13, <1>16, <1>18, <2>3, Moves
  <2>5. Z.tx.ins = J /\ Z.tx.outs = V \cup U
    BY <1>16, <2>2
  <2>. QED  BY <1>4, <1>5, <1>6, <1>11, <1>13, <1>19, <1>20, <1>21, <2>4, <2>5 DEF k
<1>22. CASE ~IsSend(g, s) /\ ~inv
  BY <1>2, <1>11, <1>22 DEF PayeeOK
<1>23. CASE inv
  <2>1. sl.state = "I2" /\ sl.fee = Fee /\ Z.tx.fee = Fee
    BY <1>1a, <1>4, <1>7, <1>23
  <2>2. \/ I = {} /\ U = {}
        \/ \E c : I = {c} /\ c.value = A + Fee + Total(U)
    BY <1>9, <2>1 DEF Share, A
  <2>3. \/ I = {} /\ U = {} /\ Total(I) = 0 /\ Total(U) = 0
        \/ Total(I) = A + Fee + Total(U)
    BY <1>12, <2>2, OneCoin, TotalNone
  <2>4. CASE IsSend(g, s)
    <3>1. Received(d, s)
      BY <1>2, <1>23 DEF Received
    <3>2. Plain(g, s, ctx)
      BY <1>11, <2>4, <3>1 DEF SenderOK
    <3>3. \/ J = {} /\ V = {}
          \/ \E c : J = {c} /\ c.value = A + Fee + Total(V)
      BY <3>2 DEF Plain, A, J, V
    <3>3a. Coins(w, J)
      BY <1>11 DEF J
    <3>4. \/ Total(J) = 0 /\ Total(V) = 0
          \/ Total(J) = A + Fee + Total(V)
      BY <3>3, <3>3a, OneCoin, TotalNone
    <3>. QED  BY <1>17, <1>18, <2>1, <2>3, <3>4
  <2>5. CASE ~IsSend(g, s)
    <3>1. \/ J = {} /\ \E o : V = {o} /\ o.value = A
          \/ Total(J) = Total(V) + Fee
      BY <1>11, <2>5 DEF PayeeOK, J, V, A
    <3>2. CASE J = {} /\ \E o : V = {o} /\ o.value = A
      <4>1. Total(J) = 0 /\ Total(V) = A
        BY <1>11, <3>2, OneCoin, TotalNone
      <4>2. Total(I) = Total(U) + A + Fee
        BY <1>17, <1>18, <2>1, <4>1
      <4>3. Pays(I, U \cup V, r[1], w, A)
        BY <1>11, <1>12, <1>13, <1>16, <1>18, <4>1, <4>2, Moves
      <4>4. Z.tx.ins = I
        BY <1>16, <3>2
      <4>5. Settles(g, s, Content(Z.tx), r[1], w, r)
        BY <1>12, <1>13, <1>16, <1>19, <1>20, <2>5, <4>3, <4>4
      <4>. QED  BY <1>4, <1>5, <1>6, <1>11, <1>13, <4>5 DEF k
    <3>3. CASE Total(J) = Total(V) + Fee
      <4>1. I = {} /\ U = {}
        BY <1>17, <1>18, <2>1, <2>3, <3>3
      <4>2. PICK c \in sl.tx.ins : c.own = r[1]
        BY <1>2, <1>4, <2>1
      <4>3. c \in J
        BY <1>7, <1>16, <4>1
      <4>4. r[1] = w
        BY <1>11, <4>2, <4>3 DEF Coins, Purse
      <4>5. Pays(J, V, w, w, A)
        BY <1>11, <1>18, <3>3, Stays
      <4>6. Z.tx.ins = J /\ Z.tx.outs = V
        BY <1>16, <4>1
      <4>. QED  BY <1>4, <1>5, <1>6, <1>11, <1>19, <1>20, <4>4, <4>5, <4>6 DEF k
    <3>. QED  BY <3>1, <3>2, <3>3
  <2>. QED  BY <2>4, <2>5
<1>. QED  BY <1>21, <1>22, <1>23

-----------------------------------------------------------------------------
(* What stays when the ghost grows.                                        *)

(* How a step of wallet w changes the ghost: offers, keys in use and       *)
(* settlements are only added, and only by w.                              *)
Grows(g, h, w) ==
    /\ \A s \in Slates : g.offer[s] # <<>> => h.offer[s] = g.offer[s]
    /\ \A s \in Slates : h.offer[s] # g.offer[s] => h.offer[s][1] = w
    /\ \A v \in Wallets, n \in Nat :
          g.home[v][n] # <<>> \/ v # w => h.home[v][n] = g.home[v][n]
    /\ \A s \in Slates : g.done[s] # NoTx => h.done[s] = g.done[s]
    /\ \A s \in Slates : h.done[s] # g.done[s] => h.offer[s][1] = w

(* What the assumptions say of slates, accounts and amounts.               *)
LEMMA NotEmpty == <<>> \notin Slates /\ Accts \subseteq Nat /\ MaxEntries \in Nat
                  /\ Amounts \subseteq Nat
  BY ExchangeAssumption

(* Outputs made for a slate stay so.                                       *)
LEMMA FromStays ==
    ASSUME NEW g, NEW h, NEW w, Grows(g, h, w), NEW s \in Slates, NEW C, C \subseteq AnyCoin,
           From(g, s, C)
    PROVE  From(h, s, C)
<1>1. \A v \in Wallets, n \in Nat : g.home[v][n] # <<>> => h.home[v][n] = g.home[v][n]
  BY DEF Grows
<1>2. s # <<>>
  BY NotEmpty
<1>3. \A c \in C : c.own \in Wallets /\ c.child \in Nat
  BY DEF AnyCoin
<1>. QED  BY <1>1, <1>2, <1>3 DEF From

(* A wallet's coins are coins, of that wallet.                             *)
LEMMA PurseIsCoin ==
    ASSUME NEW w \in Wallets, NEW C, C \subseteq Purse(w)
    PROVE  C \subseteq AnyCoin /\ \A c \in C : c.own = w
  BY DEF Purse, AnyCoin

(* A good slate stays good when the ghost grows.                           *)
LEMMA SlateStays ==
    ASSUME NEW g, NEW h, NEW w, Grows(g, h, w), NEW sl, SlateOK(g, sl)
    PROVE  SlateOK(h, sl)
<1> DEFINE s == sl.id
<1>1. /\ s \in Slates /\ h.offer[s] = g.offer[s] /\ h.offer[s] # <<>>
      /\ g.done[s] # NoTx => h.done[s] = g.done[s]
  BY DEF SlateOK, Grows
<1>2. First(h, s) = First(g, s) /\ Agreed(h, s) = Agreed(g, s)
  BY <1>1 DEF First, Agreed
<1>3. sl.state \in {"S1", "I1"} => OfferOK(h, sl)
  BY <1>2 DEF SlateOK, OfferOK
<1>4. ASSUME sl.state \in {"S2", "I2"} PROVE AnswerOK(h, sl)
  <2>1. PICK r \in Wallets \X {s} \X Nat :
          /\ Keys(sl) = {r} /\ r # First(g, s)
          /\ sl.parts[r].keys = {r, First(g, s)}
          /\ \E I, U \in SUBSET Purse(r[1]) : Share(g, sl, r, I, U)
          /\ sl.state = "I2" => /\ sl.fee = Fee
                                /\ sl.tx # NoTx => \E c \in sl.tx.ins : c.own = r[1]
    BY <1>4 DEF SlateOK, AnswerOK
  <2>2. PICK I, U \in SUBSET Purse(r[1]) : Share(g, sl, r, I, U)
    BY <2>1
  <2>3. From(h, s, U)
    <3>1. r[1] \in Wallets
      BY <2>1
    <3>2. U \subseteq AnyCoin
      BY <3>1, PurseIsCoin
    <3>3. From(g, s, U)
      BY <2>2 DEF Share
    <3>. QED  BY <1>1, <3>2, <3>3, FromStays
  <2>4. Share(h, sl, r, I, U)
    BY <1>2, <2>2, <2>3 DEF Share
  <2>. QED  BY <1>2, <2>1, <2>4 DEF AnswerOK
<1>5. sl.state \in {"S3", "I3"} => DoneOK(h, sl)
  BY <1>1 DEF SlateOK, DoneOK
<1>. QED  BY <1>1, <1>3, <1>4, <1>5 DEF SlateOK

(* So do messages.                                                         *)
LEMMA MsgsStay ==
    ASSUME NEW g, NEW h, NEW w, Grows(g, h, w), NEW M, MsgsOK(g, M)
    PROVE  MsgsOK(h, M)
  BY SlateStays DEF MsgsOK

(* So do the slates of commands that wait.                                 *)
LEMMA TorStays ==
    ASSUME NEW g, NEW h, NEW w, Grows(g, h, w), NEW T, TorOK(g, T)
    PROVE  TorOK(h, T)
  BY SlateStays DEF TorOK

(* A known transaction stays known.                                        *)
LEMMA KnownStays ==
    ASSUME NEW g, NEW h, NEW w, Grows(g, h, w), NEW tx, Known(g, tx)
    PROVE  Known(h, tx)
  BY DEF Known, Grows

(* So does a stored one.                                                   *)
LEMMA FiledStays ==
    ASSUME NEW g, NEW h, NEW w, Grows(g, h, w), NEW s \in Slates, NEW tx, Filed(g, s, tx)
    PROVE  Filed(h, s, tx)
  BY DEF Filed, Grows

(* The books of a wallet stay good when the ghost grows.                   *)
LEMMA BookStays ==
    ASSUME NEW g, NEW h, NEW w, Grows(g, h, w), NEW v, NEW d, Book(g, v, d)
    PROVE  Book(h, v, d)
  BY FiledStays DEF Book

(* A settled slate stays settled.                                          *)
LEMMA SettledStays ==
    ASSUME NEW g, NEW h, NEW w, Grows(g, h, w), NEW s \in Slates, Settled(g, s), g.done[s] # NoTx
    PROVE  Settled(h, s)
<1> DEFINE tx == g.done[s]
<1>1. /\ h.offer[s] = g.offer[s] /\ h.offer[s] # <<>> /\ h.done[s] = tx
  BY DEF Settled, Grows
<1>2. First(h, s) = First(g, s) /\ Agreed(h, s) = Agreed(g, s) /\ (IsSend(h, s) <=> IsSend(g, s))
  BY <1>1 DEF First, Agreed, IsSend
<1>3. PICK payer, payee \in Wallets, r \in Wallets \X {s} \X Nat : Settles(g, s, tx, payer, payee, r)
  BY DEF Settled
<1> HIDE DEF tx
<1>4. tx.outs \subseteq AnyCoin /\ From(g, s, tx.outs)
  BY <1>3 DEF Settles
<1>5. From(h, s, tx.outs)
  BY <1>4, FromStays
<1>6. Settles(h, s, tx, payer, payee, r)
  BY <1>1, <1>2, <1>3, <1>5 DEF Settles
<1>. QED  BY <1>1, <1>6 DEF Settled

(* A slate that a step leaves alone, in the ghost and in the books.        *)
Aside(g, h, d, e, t) ==
    /\ e.ctx[t] = d.ctx[t] /\ e.draws[t] = d.draws[t] /\ (Received(e, t) => Received(d, t))
    /\ h.offer[t] = g.offer[t] /\ h.done[t] = g.done[t]

(* The new outputs of a context stay its slate's.                          *)
LEMMA CoinsFrom ==
    ASSUME NEW g, NEW h, NEW v, Grows(g, h, v), NEW w \in Wallets, NEW s \in Slates,
           NEW C, Coins(w, C), From(g, s, C)
    PROVE  From(h, s, C)
<1>1. C \subseteq AnyCoin
  BY PurseIsCoin DEF Coins
<1>. QED  BY <1>1, FromStays

(* What the books say of a slate that is left alone stays right.           *)
LEMMA HeadAside ==
    ASSUME NEW g, NEW h, NEW v, Grows(g, h, v), NEW w \in Wallets, NEW d, NEW e,
           NEW t \in Slates, Aside(g, h, d, e, t), HeadOK(g, w, d, t)
    PROVE  HeadOK(h, w, e, t)
<1>1. First(h, t) = First(g, t) /\ Agreed(h, t) = Agreed(g, t) /\ (IsSend(h, t) <=> IsSend(g, t))
  BY DEF Aside, First, Agreed, IsSend
<1>2. ASSUME e.ctx[t] # NoContext PROVE CtxOK(h, w, e, t)
  <2> DEFINE ctx == d.ctx[t]
  <2>1. e.ctx[t] = ctx /\ CtxOK(g, w, d, t)
    BY <1>2 DEF Aside, HeadOK
  <2>2. /\ g.offer[t] # <<>>
        /\ Coins(w, ctx.ins) /\ Coins(w, ctx.outs) /\ From(g, t, ctx.outs)
        /\ ctx.late => Late(g, t, ctx)
        /\ ctx.initKey = First(g, t) =>
              /\ g.done[t] = NoTx
              /\ IF IsSend(g, t) THEN SenderOK(g, d, t, ctx) ELSE PayeeOK(g, d, t, ctx)
    BY <2>1 DEF CtxOK
  <2> HIDE DEF ctx
  <2>3. From(h, t, ctx.outs)
    BY <2>2, CoinsFrom
  <2>4. Late(g, t, ctx) => Late(h, t, ctx)
    BY <1>1 DEF Late, Aside
  <2>5. SenderOK(g, d, t, ctx) => SenderOK(h, e, t, ctx)
    BY <1>1 DEF SenderOK, Plain, Aside
  <2>6. PayeeOK(g, d, t, ctx) => PayeeOK(h, e, t, ctx)
    BY <1>1 DEF PayeeOK, Aside
  <2>7. h.offer[t] = g.offer[t] /\ h.done[t] = g.done[t]
    BY DEF Aside
  <2>. QED  BY <1>1, <2>1, <2>2, <2>3, <2>4, <2>5, <2>6, <2>7 DEF CtxOK
<1>. QED  BY <1>1, <1>2 DEF HeadOK, Aside

(* A wallet's books stay right when another wallet steps: what the other   *)
(* one starts or settles is not of this wallet's first key.                *)
LEMMA OtherDb ==
    ASSUME NEW g, NEW h, NEW w, Grows(g, h, w), NEW v \in Wallets, v # w, NEW d,
           PayDb(g, v, d), Good(v, d)
    PROVE  PayDb(h, v, d)
<1>1. Book(h, v, d)
  BY BookStays DEF PayDb
<1>2. KeysOK(h, v, d)
  <2>1. \A n \in Nat : h.home[v][n] = g.home[v][n]
    BY DEF Grows
  <2>2. \A c \in Funds[v] : c.child \in Nat
    BY ExchangeAssumption DEF Coin
  <2>. QED  BY <2>1, <2>2 DEF PayDb, KeysOK
<1>3. ASSUME NEW t \in Slates PROVE HeadOK(h, v, d, t)
  <2>1. HeadOK(g, v, d, t)
    BY DEF PayDb
  <2>2. CASE h.offer[t] = g.offer[t] /\ h.done[t] = g.done[t]
    <3>1. Aside(g, h, d, d, t)
      BY <2>2 DEF Aside
    <3>. QED  BY <2>1, <3>1, HeadAside
  <2>3. CASE h.offer[t] # g.offer[t]
    <3>1. g.offer[t] = <<>> /\ h.offer[t][1] = w
      BY <2>3 DEF Grows
    <3>2. d.ctx[t] = NoContext
      BY <2>1, <3>1 DEF HeadOK, CtxOK
    <3>3. h.offer[t] # <<>>
      BY <2>3, <3>1
    <3>. QED  BY <3>1, <3>2, <3>3 DEF HeadOK
  <2>4. CASE h.offer[t] = g.offer[t] /\ h.done[t] # g.done[t]
    <3>1. g.offer[t][1] = w
      BY <2>4 DEF Grows
    <3>2. First(h, t) = First(g, t) /\ Agreed(h, t) = Agreed(g, t) /\ (IsSend(h, t) <=> IsSend(g, t))
      BY <2>4 DEF First, Agreed, IsSend
    <3>3. d.ctx[t] # NoContext => d.ctx[t].initKey # First(h, t)
      <4>1. d.ctx[t] # NoContext => \E n \in 1 .. d.draws[t] : d.ctx[t].initKey = <<v, t, n>>
        BY DEF Good, ContextOK
      <4>2. \A n : <<v, t, n>> # First(h, t)
        BY <2>4, <3>1 DEF First
      <4>. QED  BY <4>1, <4>2
    <3>4. ASSUME d.ctx[t] # NoContext PROVE CtxOK(h, v, d, t)
      <4> DEFINE ctx == d.ctx[t]
      <4>1. /\ g.offer[t] # <<>>
            /\ Coins(v, ctx.ins) /\ Coins(v, ctx.outs) /\ From(g, t, ctx.outs)
            /\ ctx.late => Late(g, t, ctx)
        BY <2>1, <3>4 DEF HeadOK, CtxOK
      <4> HIDE DEF ctx
      <4>2. From(h, t, ctx.outs)
        BY <4>1, CoinsFrom
      <4>3. Late(g, t, ctx) => Late(h, t, ctx)
        BY <2>4, <3>2 DEF Late
      <4>. QED  BY <2>4, <3>3, <3>4, <4>1, <4>2, <4>3 DEF CtxOK, ctx
    <3>. QED  BY <2>1, <2>4, <3>2, <3>4 DEF HeadOK
  <2>. QED  BY <2>2, <2>3, <2>4
<1>. QED  BY <1>1, <1>2, <1>3 DEF PayDb

-----------------------------------------------------------------------------
(* Log, stored transactions and locking.                                   *)

(* A set of naturals that is not empty has a least one.                    *)
LEMMA LeastNat ==
    ASSUME NEW S, S \subseteq Nat, S # {}
    PROVE  \E n \in S : \A m \in S : n <= m
<1>1. \E n \in S : \A m \in S : ~(<<m, n>> \in OpToRel(<, Nat))
  BY NatLessThanWellFounded, WFMin
<1>2. \A m, n \in Nat : m < n => <<m, n>> \in OpToRel(<, Nat)
  BY DEF OpToRel
<1>3. PICK n \in S : \A m \in S : ~(<<m, n>> \in OpToRel(<, Nat))
  BY <1>1
<1>4. \A m \in S : ~(m < n)
  BY <1>2, <1>3
<1>. QED  BY <1>4

(* The first log entry of some is one of them.                             *)
LEMMA FirstIsIn ==
    ASSUME NEW P, P \subseteq Pos, P # {}
    PROVE  FirstOf(P) \in P
<1> DEFINE A == {p[1] : p \in P}
<1>0. \A p \in Pos : p[1] \in Nat /\ p[2] \in Nat
  <2> TAKE p \in Pos
  <2>1. p[1] \in Accts /\ p[2] \in 1 .. MaxEntries
    BY DEF Pos
  <2>2. Accts \subseteq Nat /\ MaxEntries \in Nat
    BY NotEmpty
  <2>3. p[2] \in Nat
    BY <2>1, <2>2
  <2>. QED  BY <2>1, <2>2, <2>3
<1>1. A \subseteq Nat /\ A # {}
  BY <1>0
<1>2. PICK a \in A : \A b \in A : a <= b
  <2> HIDE DEF A
  <2>. QED  BY <1>1, LeastNat
<1> DEFINE I == {p[2] : p \in {q \in P : q[1] = a}}
<1>3. I \subseteq Nat /\ I # {}
  BY <1>0, <1>2
<1>4. PICK i \in I : \A j \in I : i <= j
  <2> HIDE DEF I
  <2>. QED  BY <1>3, LeastNat
<1>5. PICK p \in P : p[1] = a /\ p[2] = i
  BY <1>4
<1>6. \A q \in P : Before(p, q)
  <2> TAKE q \in P
  <2>1. q[1] \in A /\ q[1] \in Nat /\ a \in Nat /\ a <= q[1]
    BY <1>1, <1>2
  <2>2. q[1] = a => q[2] \in I
    OBVIOUS
  <2>. QED  BY <1>4, <1>5, <2>1, <2>2 DEF Before
<1>. QED  BY <1>6 DEF FirstOf

(* An entry of the log names a slate and has a type; the entries received  *)
(* for a slate.                                                            *)
Entry(x) == {"slate", "type"} \subseteq DOMAIN x /\ x.slate \in Slates
Entries(L) == DOMAIN L = Pos /\ \A p \in Pos : L[p] # NoEntry => Entry(L[p])
Got(L, s) == \E p \in Pos : L[p].slate = s /\ L[p].type = "TxReceived"

(* Book and Received, said of the log alone.                               *)
LEMMA EntriesIs ==
    ASSUME NEW d
    PROVE  /\ (DOMAIN d.log = Pos /\ \A p \in Pos : d.log[p] # NoEntry =>
                 {"slate", "type"} \subseteq DOMAIN d.log[p] /\ d.log[p].slate \in Slates)
              <=> Entries(d.log)
           /\ \A s : Received(d, s) <=> Got(d.log, s)
  BY DEF Entries, Entry, Received, Found, Got

(* Writing one entry keeps the log well formed and adds at most the        *)
(* receipt it is.                                                          *)
LEMMA EntryPut ==
    ASSUME NEW L, Entries(L), NEW p, NEW x, Entry(x), NEW M, M = [L EXCEPT ![p] = x]
    PROVE  /\ Entries(M)
           /\ \A s : Got(M, s) => Got(L, s) \/ (x.slate = s /\ x.type = "TxReceived")
  BY DEF Entries, Got

(* A step that leaves contexts, draws and keys alone and adds no receipt.  *)
Calm(d, e) ==
    /\ e.ctx = d.ctx /\ e.draws = d.draws /\ e.next = d.next
    /\ \A s : Received(e, s) => Received(d, s)

(* Such a step keeps the invariant of the wallet if its books are good.    *)
LEMMA CalmKeeps ==
    ASSUME NEW g, NEW w \in Wallets, NEW d, PayDb(g, w, d), NEW e, Book(g, w, e), Calm(d, e)
    PROVE  PayDb(g, w, e)
<1>1. Grows(g, g, w)
  BY DEF Grows
<1>2. ASSUME NEW t \in Slates PROVE HeadOK(g, w, e, t)
  <2>1. HeadOK(g, w, d, t) /\ Aside(g, g, d, e, t)
    BY DEF PayDb, Aside, Calm
  <2>. QED  BY <1>1, <2>1, HeadAside
<1>. QED  BY <1>2 DEF PayDb, KeysOK, Calm

(* Saving outputs changes the coins only.                                  *)
LEMMA SavedIs ==
    ASSUME NEW d, DOMAIN d = DbFields, NEW outs, NEW a, NEW id, NEW e, e = SavedOutputs(d, outs, a, id)
    PROVE  /\ DOMAIN e = DbFields /\ DOMAIN e.coins = outs \cup DOMAIN d.coins
           /\ e.next = d.next /\ e.log = d.log /\ e.nextTx = d.nextTx /\ e.ctx = d.ctx
           /\ e.draws = d.draws /\ e.files = d.files
<1> DEFINE k == [c \in outs \cup DOMAIN d.coins |->
        IF c \in outs THEN [acct |-> a, status |-> "Unconfirmed", log |-> id] ELSE d.coins[c]]
<1>1. e = [d EXCEPT !.coins = k]
  BY DEF SavedOutputs
<1>2. DOMAIN k = outs \cup DOMAIN d.coins
  OBVIOUS
<1> HIDE DEF k
<1>. QED  BY <1>1, <1>2 DEF DbFields

(* tx_lock_outputs stores an unsigned transaction, or the one that         *)
(* settles.                                                                *)
LEMMA LockSlateTx ==
    ASSUME NEW g, NEW d, NEW sl, SlateOK(g, sl), Formed(sl)
    PROVE  Filed(g, sl.id, LockSlate(d, sl).tx)
<1>1. CASE sl.tx # NoTx
  <2>1. LockSlate(d, sl) = sl
    BY <1>1 DEF LockSlate
  <2>2. Filed(g, sl.id, sl.tx)
    BY DEF SlateOK, DoneOK, Filed
  <2>. QED  BY <2>1, <2>2
<1>2. CASE sl.tx = NoTx
  <2> DEFINE x == [sl EXCEPT !.tx = empty_transaction]
  <2> DEFINE R == LockSlate(d, sl)
  <2>1. PICK u \in BOOLEAN : R = repopulate_tx(d, x, d.ctx[sl.id], u)
    BY <1>2 DEF LockSlate
  <2>2. DOMAIN x = SlateFields /\ DOMAIN x.tx = TxFields
    BY DEF Formed, SlateFields, TxFields, empty_transaction
  <2> HIDE DEF x, R
  <2>3. R.tx # NoTx /\ ~R.tx.signed
    BY <2>1, <2>2, RepopulatedTx
  <2>. QED  BY <2>3 DEF Filed, Unsigned, R
<1>. QED  BY <1>1, <1>2

(* What tx_lock_outputs leaves.                                            *)
LockedAs(d, s, ctx, tx, e) ==
    /\ DOMAIN e = DbFields /\ DOMAIN e.coins = ctx.outs \cup DOMAIN d.coins
    /\ e.next = d.next /\ e.ctx = d.ctx /\ e.draws = d.draws
    /\ e.nextTx = [d.nextTx EXCEPT ![ctx.acct] = d.nextTx[ctx.acct] + 1]
    /\ e.files = [d.files EXCEPT ![s] = tx]
    /\ \E x : /\ e.log = [d.log EXCEPT ![<<ctx.acct, d.nextTx[ctx.acct]>>] = x]
              /\ {"slate", "type"} \subseteq DOMAIN x
              /\ x.slate = s /\ x.type = "TxSent"

(* tx_lock_outputs saves the change, one sent entry and the transaction.   *)
LEMMA LockIs ==
    ASSUME NEW w, NEW d, DOMAIN d = DbFields, NEW sl
    PROVE  LockedAs(d, sl.id, d.ctx[sl.id], LockSlate(d, sl).tx, tx_lock_outputs(w, d, sl))
<1> DEFINE e == tx_lock_outputs(w, d, sl)
           ctx == d.ctx[sl.id]
           lsl == LockSlate(d, sl)
           a == ctx.acct
           id == d.nextTx[a]
           n == NewEntry(sl.id, a, "TxSent", lsl, ctx)
           x == [n EXCEPT
                 !.excess = IF Cardinality(Keys(sl)) = 1 /\ ctx.excess # {}
                            THEN ctx.excess ELSE @,
                 !.proof = IF sl.proof = NoProof THEN NoStored
                           ELSE [raddr |-> sl.proof.raddr, rsig |-> sl.proof.rsig,
                                 saddr |-> Address0(w, a), ssig |-> <<>>]]
           k == [c \in DOMAIN d.coins |->
                  IF c \in ctx.ins THEN [d.coins[c] EXCEPT !.status = "Locked", !.log = id] ELSE d.coins[c]]
           d1 == [d EXCEPT !.coins = k]
           d2 == SavedOutputs(d1, ctx.outs, a, id)
<1>1. e = [d2 EXCEPT !.log[<<a, id>>] = x, !.nextTx[a] = id + 1, !.files[sl.id] = lsl.tx]
  BY DEF tx_lock_outputs
<1> HIDE DEF e
<1>2. {"slate", "type"} \subseteq DOMAIN n /\ n.slate = sl.id /\ n.type = "TxSent"
  BY DEF NewEntry
<1> HIDE DEF n
<1>3. {"slate", "type"} \subseteq DOMAIN x /\ x.slate = sl.id /\ x.type = "TxSent"
  BY <1>2
<1> HIDE DEF x
<1>4. DOMAIN k = DOMAIN d.coins
  OBVIOUS
<1> HIDE DEF k
<1>5. /\ DOMAIN d1 = DbFields /\ d1.coins = k /\ d1.next = d.next /\ d1.log = d.log
      /\ d1.nextTx = d.nextTx /\ d1.ctx = d.ctx /\ d1.draws = d.draws /\ d1.files = d.files
  BY DEF DbFields
<1> HIDE DEF d1
<1>6. /\ DOMAIN d2 = DbFields /\ DOMAIN d2.coins = ctx.outs \cup DOMAIN d1.coins
      /\ d2.next = d1.next /\ d2.log = d1.log /\ d2.nextTx = d1.nextTx /\ d2.ctx = d1.ctx
      /\ d2.draws = d1.draws /\ d2.files = d1.files
  <2>1. d2 = SavedOutputs(d1, ctx.outs, a, id)
    OBVIOUS
  <2> DEFINE O == ctx.outs
  <2>2. d2 = SavedOutputs(d1, O, a, id)
    BY <2>1
  <2> HIDE DEF d2, O, a, id, e
  <2>3. /\ DOMAIN d2 = DbFields /\ DOMAIN d2.coins = O \cup DOMAIN d1.coins
        /\ d2.next = d1.next /\ d2.log = d1.log /\ d2.nextTx = d1.nextTx /\ d2.ctx = d1.ctx
        /\ d2.draws = d1.draws /\ d2.files = d1.files
    BY <1>5, <2>2, SavedIs
  <2>. QED  BY <2>3 DEF O
<1> HIDE DEF d2, lsl, id
<1>7. /\ DOMAIN e = DbFields /\ e.coins = d2.coins /\ e.next = d2.next /\ e.ctx = d2.ctx
      /\ e.draws = d2.draws /\ e.log = [d2.log EXCEPT ![<<a, id>>] = x]
      /\ e.nextTx = [d2.nextTx EXCEPT ![a] = id + 1] /\ e.files = [d2.files EXCEPT ![sl.id] = lsl.tx]
  BY <1>1, <1>6 DEF DbFields
<1> DEFINE L == e.log
<1>8. L = [d.log EXCEPT ![<<a, id>>] = x]
  BY <1>5, <1>6, <1>7
<1> HIDE DEF L, a, ctx
<1>9. \E y : /\ L = [d.log EXCEPT ![<<a, id>>] = y]
             /\ {"slate", "type"} \subseteq DOMAIN y /\ y.slate = sl.id /\ y.type = "TxSent"
  BY <1>3, <1>8
<1>. QED  BY <1>4, <1>5, <1>6, <1>7, <1>9 DEF LockedAs, lsl, id, a, ctx, L, e

(* The counters of log ids stay positive.                                  *)
LEMMA NextTxPut ==
    ASSUME NEW N, DOMAIN N = Accts, \A a \in Accts : N[a] \in Nat \ {0},
           NEW a, NEW M, M = [N EXCEPT ![a] = N[a] + 1]
    PROVE  DOMAIN M = Accts /\ \A b \in Accts : M[b] \in Nat \ {0}
  OBVIOUS

(* Storing a good transaction keeps the stored ones good.                  *)
LEMMA FilePut ==
    ASSUME NEW g, NEW F, DOMAIN F = Slates, \A t \in Slates : Filed(g, t, F[t]),
           NEW s \in Slates, NEW tx, Filed(g, s, tx), NEW G, G = [F EXCEPT ![s] = tx]
    PROVE  DOMAIN G = Slates /\ \A t \in Slates : Filed(g, t, G[t])
<1>1. \A t \in Slates : G[t] = IF t = s THEN tx ELSE F[t]
  OBVIOUS
<1>. QED  BY <1>1

(* Book in terms of Entries.                                               *)
LEMMA BookIs ==
    ASSUME NEW g, NEW w, NEW d
    PROVE  Book(g, w, d) <=>
             /\ DOMAIN d = DbFields /\ DOMAIN d.coins \subseteq Purse(w) /\ Entries(d.log)
             /\ DOMAIN d.nextTx = Accts /\ \A a \in Accts : d.nextTx[a] \in Nat \ {0}
             /\ DOMAIN d.files = Slates /\ \A s \in Slates : Filed(g, s, d.files[s])
  BY DEF Book, Entries, Entry

(* Locking keeps the invariant of the wallet (tx_lock_outputs).            *)
LEMMA LockDb ==
    ASSUME NEW g, NEW w \in Wallets, NEW d, PayDb(g, w, d), NEW sl, SlateOK(g, sl), Formed(sl),
           d.ctx[sl.id] # NoContext, NEW e, e = tx_lock_outputs(w, d, sl)
    PROVE  PayDb(g, w, e) /\ Calm(d, e)
<1> DEFINE ctx == d.ctx[sl.id]
           s == sl.id
           p == <<ctx.acct, d.nextTx[ctx.acct]>>
           F == LockSlate(d, sl).tx
<1>0. /\ DOMAIN d = DbFields /\ DOMAIN d.coins \subseteq Purse(w) /\ Entries(d.log)
      /\ DOMAIN d.nextTx = Accts /\ \A a \in Accts : d.nextTx[a] \in Nat \ {0}
      /\ DOMAIN d.files = Slates /\ \A t \in Slates : Filed(g, t, d.files[t])
  BY BookIs DEF PayDb
<1>1. PICK x : /\ DOMAIN e = DbFields /\ DOMAIN e.coins = ctx.outs \cup DOMAIN d.coins
               /\ e.next = d.next /\ e.ctx = d.ctx /\ e.draws = d.draws
               /\ e.nextTx = [d.nextTx EXCEPT ![ctx.acct] = d.nextTx[ctx.acct] + 1]
               /\ e.files = [d.files EXCEPT ![s] = F]
               /\ e.log = [d.log EXCEPT ![p] = x]
               /\ {"slate", "type"} \subseteq DOMAIN x
               /\ x.slate = sl.id /\ x.type = "TxSent"
  <2>1. LockedAs(d, s, ctx, F, e)
    BY <1>0, LockIs
  <2>. QED  BY <2>1 DEF LockedAs
<1>2. s \in Slates /\ Filed(g, s, F)
  BY LockSlateTx DEF SlateOK
<1>3. CtxOK(g, w, d, s)
  BY <1>2 DEF PayDb, HeadOK
<1>4. ctx.outs \subseteq Purse(w)
  BY <1>3 DEF CtxOK, Coins
<1> HIDE DEF ctx, p, F
<1>5. Entries(e.log) /\ \A t : Got(e.log, t) => Got(d.log, t)
  <2>1. Entry(x) /\ x.type # "TxReceived"
    BY <1>1, <1>2 DEF Entry
  <2>. QED  BY <1>0, <1>1, <2>1, EntryPut
<1>6. DOMAIN e.nextTx = Accts /\ \A a \in Accts : e.nextTx[a] \in Nat \ {0}
  BY <1>0, <1>1, NextTxPut
<1>7. DOMAIN e.files = Slates /\ \A t \in Slates : Filed(g, t, e.files[t])
  BY <1>0, <1>1, <1>2, FilePut
<1>8. Book(g, w, e)
  BY <1>0, <1>1, <1>4, <1>5, <1>6, <1>7, BookIs
<1>9. Calm(d, e)
  BY <1>1, <1>5, EntriesIs DEF Calm
<1>. QED  BY <1>8, <1>9, CalmKeeps

-----------------------------------------------------------------------------
(* Updating, filing, cancelling, drawing.                                  *)

(* The first entry found for a slate is an entry of it.                    *)
LEMMA FoundEntry ==
    ASSUME NEW d, Entries(d.log), NEW s \in Slates, NEW types, Found(d, s, types) # {},
           NEW p, p = FirstOf(Found(d, s, types))
    PROVE  /\ p \in Pos /\ d.log[p] # NoEntry /\ Entry(d.log[p])
           /\ d.log[p].slate = s /\ d.log[p].type \in types
<1>1. p \in Found(d, s, types)
  BY FirstIsIn DEF Found
<1>2. p \in Pos /\ d.log[p].slate = s /\ d.log[p].type \in types
  BY <1>1 DEF Found
<1>3. d.log[p] # NoEntry
  BY <1>2, NotEmpty DEF NoEntry
<1>. QED  BY <1>2, <1>3 DEF Entries

(* Noting a slate's state keeps the books (update_tx_slate_state).         *)
LEMMA UpdateBook ==
    ASSUME NEW g, NEW w, NEW d, Book(g, w, d), NEW a, NEW sl, sl.id \in Slates,
           Found(d, sl.id, AllTypes) # {}, NEW e, e = update_tx_slate_state(d, a, sl)
    PROVE  Book(g, w, e) /\ Calm(d, e)
<1> DEFINE p == FirstOf(Found(d, sl.id, AllTypes))
           x == [d.log[p] EXCEPT !.state = sl.state]
           q == <<a, p[2]>>
<1>0. /\ DOMAIN d = DbFields /\ DOMAIN d.coins \subseteq Purse(w) /\ Entries(d.log)
      /\ DOMAIN d.nextTx = Accts /\ \A b \in Accts : d.nextTx[b] \in Nat \ {0}
      /\ DOMAIN d.files = Slates /\ \A t \in Slates : Filed(g, t, d.files[t])
  BY BookIs
<1>1. e = [d EXCEPT !.log[q] = x]
  BY DEF update_tx_slate_state
<1>2. /\ p \in Pos /\ Entry(d.log[p]) /\ d.log[p].slate = sl.id
  <2> HIDE DEF p
  <2>. QED  BY <1>0, FoundEntry DEF p
<1> HIDE DEF p
<1>3. Entry(x) /\ x.slate = d.log[p].slate /\ x.type = d.log[p].type
  BY <1>2 DEF Entry
<1> HIDE DEF x, q
<1>4. /\ DOMAIN e = DbFields /\ e.coins = d.coins /\ e.next = d.next /\ e.ctx = d.ctx
      /\ e.draws = d.draws /\ e.log = [d.log EXCEPT ![q] = x]
      /\ e.nextTx = d.nextTx /\ e.files = d.files
  BY <1>0, <1>1 DEF DbFields
<1>5. Entries(e.log) /\ \A t : Got(e.log, t) => Got(d.log, t) \/ (x.slate = t /\ x.type = "TxReceived")
  BY <1>0, <1>3, <1>4, EntryPut
<1>6. \A t : Got(e.log, t) => Got(d.log, t)
  BY <1>2, <1>3, <1>5 DEF Got
<1>7. Book(g, w, e)
  BY <1>0, <1>4, <1>5, BookIs
<1>. QED  BY <1>4, <1>6, <1>7, EntriesIs DEF Calm

(* So does storing a finished transaction (update_stored_tx).              *)
LEMMA StoreBook ==
    ASSUME NEW g, NEW w, NEW d, Book(g, w, d), NEW v, NEW a, NEW sl, sl.id \in Slates,
           NEW inv \in BOOLEAN, Finishable(d, sl, inv) # {}, Filed(g, sl.id, sl.tx),
           NEW e, e = update_stored_tx(v, d, a, sl, inv)
    PROVE  Book(g, w, e) /\ Calm(d, e) /\ Found(e, sl.id, AllTypes) # {}
<1> DEFINE types == IF inv THEN {"TxReceived"} ELSE {"TxSent"}
           p == FirstOf(Finishable(d, sl, inv))
           s == sl.id
<1>0. /\ DOMAIN d = DbFields /\ DOMAIN d.coins \subseteq Purse(w) /\ Entries(d.log)
      /\ DOMAIN d.nextTx = Accts /\ \A b \in Accts : d.nextTx[b] \in Nat \ {0}
      /\ DOMAIN d.files = Slates /\ \A t \in Slates : Filed(g, t, d.files[t])
  BY BookIs
<1>1. PICK y, z, x, q :
        /\ x = [d.log[p] EXCEPT !.excess = y, !.proof = z]
        /\ e = [d EXCEPT !.log[q] = x, !.files[s] = sl.tx]
  BY DEF update_stored_tx
<1>2. /\ p \in Pos /\ Entry(d.log[p]) /\ d.log[p].slate = s /\ d.log[p].type \in AllTypes
  <2>1. Finishable(d, sl, inv) = Found(d, s, types)
    BY DEF Finishable
  <2>2. types \subseteq AllTypes
    BY DEF AllTypes
  <2>3. p = FirstOf(Found(d, s, types)) /\ Found(d, s, types) # {}
    BY <2>1
  <2> HIDE DEF p, types
  <2>. QED  BY <1>0, <2>2, <2>3, FoundEntry
<1> HIDE DEF p
<1>3. Entry(x) /\ x.slate = d.log[p].slate /\ x.type = d.log[p].type
  BY <1>1, <1>2 DEF Entry
<1>4. /\ DOMAIN e = DbFields /\ e.coins = d.coins /\ e.next = d.next /\ e.ctx = d.ctx
      /\ e.draws = d.draws /\ e.log = [d.log EXCEPT ![q] = x]
      /\ e.nextTx = d.nextTx /\ e.files = [d.files EXCEPT ![s] = sl.tx]
  BY <1>0, <1>1 DEF DbFields
<1>5. Entries(e.log) /\ \A t : Got(e.log, t) => Got(d.log, t) \/ (x.slate = t /\ x.type = "TxReceived")
  BY <1>0, <1>3, <1>4, EntryPut
<1>6. \A t : Got(e.log, t) => Got(d.log, t)
  BY <1>2, <1>3, <1>5 DEF Got
<1>7. DOMAIN e.files = Slates /\ \A t \in Slates : Filed(g, t, e.files[t])
  BY <1>0, <1>4, FilePut
<1>8. Book(g, w, e)
  BY <1>0, <1>4, <1>5, <1>7, BookIs
<1>9. Found(e, s, AllTypes) # {}
  <2>1. e.log[p] = d.log[p] \/ e.log[p] = x
    BY <1>0, <1>2, <1>4 DEF Entries
  <2>. QED  BY <1>2, <1>3, <2>1 DEF Found
<1>. QED  BY <1>4, <1>6, <1>8, <1>9, EntriesIs DEF Calm

(* So does cancelling (cancel_tx_and_outputs).                             *)
LEMMA CancelBook ==
    ASSUME NEW g, NEW w, NEW d, Book(g, w, d), NEW p \in Pos, d.log[p] # NoEntry,
           NEW e, e = cancel_tx_and_outputs(d, p)
    PROVE  Book(g, w, e) /\ Calm(d, e)
<1>0. /\ DOMAIN d = DbFields /\ DOMAIN d.coins \subseteq Purse(w) /\ Entries(d.log)
      /\ DOMAIN d.nextTx = Accts /\ \A b \in Accts : d.nextTx[b] \in Nat \ {0}
      /\ DOMAIN d.files = Slates /\ \A t \in Slates : Filed(g, t, d.files[t])
  BY BookIs
<1> DEFINE gone == {c \in DOMAIN d.coins : /\ d.coins[c].log = p[2] /\ d.coins[c].acct = d.log[p].acct
                                           /\ d.coins[c].status = "Unconfirmed"}
           K == [c \in DOMAIN d.coins \ gone |->
                      IF d.coins[c].log = p[2] /\ d.coins[c].status = "Locked"
                      THEN [d.coins[c] EXCEPT !.status = "Unspent"] ELSE d.coins[c]]
           ty == IF d.log[p].type = "TxSent" THEN "TxSentCancelled" ELSE "TxReceivedCancelled"
           x == [d.log[p] EXCEPT !.type = ty]
<1>1. e = [d EXCEPT !.log[p].type = ty, !.coins = K]
  BY DEF cancel_tx_and_outputs
<1>2. DOMAIN K \subseteq DOMAIN d.coins
  OBVIOUS
<1>3. ty # "TxReceived"
  OBVIOUS
<1> HIDE DEF K, ty
<1>4. Entry(d.log[p])
  BY <1>0 DEF Entries
<1>5. Entry(x) /\ x.type # "TxReceived"
  BY <1>3, <1>4 DEF Entry
<1>6. /\ DOMAIN e = DbFields /\ e.coins = K /\ e.next = d.next /\ e.ctx = d.ctx
      /\ e.draws = d.draws /\ e.log = [d.log EXCEPT ![p] = x]
      /\ e.nextTx = d.nextTx /\ e.files = d.files
  BY <1>0, <1>1 DEF DbFields
<1> HIDE DEF x
<1>7. Entries(e.log) /\ \A t : Got(e.log, t) => Got(d.log, t) \/ (x.slate = t /\ x.type = "TxReceived")
  BY <1>0, <1>5, <1>6, EntryPut
<1>8. Book(g, w, e)
  BY <1>0, <1>2, <1>6, <1>7, BookIs
<1>. QED  BY <1>5, <1>6, <1>7, <1>8, EntriesIs DEF Calm

(* Child keys that a context takes.                                        *)
Taken(d, ctx) == Cardinality({c \in ctx.outs : c.child = d.next})

(* Drawing a key, and with it the child keys of new outputs.               *)
DrawnAs(d, s, ctx, e) ==
    /\ DOMAIN e = DbFields /\ e.coins = d.coins /\ e.log = d.log /\ e.nextTx = d.nextTx
    /\ e.ctx = d.ctx /\ e.files = d.files
    /\ e.draws = [d.draws EXCEPT ![s] = @ + 1]
    /\ e.next = d.next + Taken(d, ctx)

(* Drawing counts the draw and moves the next child key on.                *)
LEMMA DrawnIs ==
    ASSUME NEW d, DOMAIN d = DbFields, NEW s, NEW ctx, NEW e, e = Drawn(d, s, ctx)
    PROVE  DrawnAs(d, s, ctx, e)
<1> DEFINE n == Taken(d, ctx)
<1>1. e = [d EXCEPT !.draws[s] = @ + 1, !.next = @ + n]
  BY DEF Drawn, Taken
<1> HIDE DEF n
<1>2. /\ DOMAIN e = DbFields /\ e.coins = d.coins /\ e.log = d.log /\ e.nextTx = d.nextTx
      /\ e.ctx = d.ctx /\ e.files = d.files
      /\ e.draws = [d.draws EXCEPT ![s] = @ + 1] /\ e.next = d.next + n
  BY <1>1 DEF DbFields
<1>. QED  BY <1>2 DEF n, DrawnAs

(* What add_output_to_slate leaves.                                        *)
ReceivedAs(d, a, s, ctx, e) ==
    /\ DOMAIN e = DbFields /\ DOMAIN e.coins = ctx.outs \cup DOMAIN d.coins
    /\ e.ctx = d.ctx /\ e.files = d.files /\ e.draws = [d.draws EXCEPT ![s] = @ + 1]
    /\ e.next = d.next + Taken(d, ctx)
    /\ e.nextTx = [d.nextTx EXCEPT ![a] = d.nextTx[a] + 1]
    /\ \E x : /\ e.log = [d.log EXCEPT ![<<a, d.nextTx[a]>>] = x]
              /\ {"slate", "type"} \subseteq DOMAIN x
              /\ x.slate = s /\ x.type = "TxReceived"

(* add_output_to_slate draws, saves the output and logs one receipt.       *)
LEMMA ReceivedDbIs ==
    ASSUME NEW d, DOMAIN d = DbFields, NEW a, NEW sl, NEW ctx
    PROVE  ReceivedAs(d, a, sl.id, ctx, ReceivedDb(d, a, sl, ctx))
<1> DEFINE e == ReceivedDb(d, a, sl, ctx)
           id == d.nextTx[a]
           x == NewEntry(sl.id, a, "TxReceived", sl, ctx)
           s == sl.id
           d1 == Drawn(d, s, ctx)
           O == ctx.outs
           d2 == SavedOutputs(d1, O, a, id)
<1>1. e = [d2 EXCEPT !.log[<<a, id>>] = x, !.nextTx[a] = id + 1]
  BY DEF ReceivedDb
<1>2. {"slate", "type"} \subseteq DOMAIN x /\ x.slate = s /\ x.type = "TxReceived"
  BY DEF NewEntry
<1> HIDE DEF x, e
<1> DEFINE n == Taken(d, ctx)
<1>3. /\ DOMAIN d1 = DbFields /\ d1.coins = d.coins /\ d1.log = d.log /\ d1.nextTx = d.nextTx
      /\ d1.ctx = d.ctx /\ d1.files = d.files
      /\ d1.draws = [d.draws EXCEPT ![s] = @ + 1] /\ d1.next = d.next + n
  <2>1. d1 = Drawn(d, s, ctx)
    OBVIOUS
  <2> HIDE DEF d1, s
  <2>2. DrawnAs(d, s, ctx, d1)
    BY <2>1, DrawnIs
  <2>. QED  BY <2>2 DEF DrawnAs
<1> HIDE DEF d1, n
<1>4. /\ DOMAIN d2 = DbFields /\ DOMAIN d2.coins = O \cup DOMAIN d1.coins
      /\ d2.next = d1.next /\ d2.log = d1.log /\ d2.nextTx = d1.nextTx /\ d2.ctx = d1.ctx
      /\ d2.draws = d1.draws /\ d2.files = d1.files
  <2>1. d2 = SavedOutputs(d1, O, a, id)
    OBVIOUS
  <2> HIDE DEF d2, O, id
  <2>. QED  BY <1>3, <2>1, SavedIs
<1> HIDE DEF d2, id
<1>5. /\ DOMAIN e = DbFields /\ e.coins = d2.coins /\ e.next = d2.next /\ e.ctx = d2.ctx
      /\ e.draws = d2.draws /\ e.log = [d2.log EXCEPT ![<<a, id>>] = x]
      /\ e.nextTx = [d2.nextTx EXCEPT ![a] = id + 1] /\ e.files = d2.files
  BY <1>1, <1>4 DEF DbFields
<1> DEFINE L == e.log
<1>6. L = [d.log EXCEPT ![<<a, id>>] = x]
  BY <1>3, <1>4, <1>5
<1> HIDE DEF L, s
<1>7. \E y : /\ L = [d.log EXCEPT ![<<a, id>>] = y]
             /\ {"slate", "type"} \subseteq DOMAIN y /\ y.slate = s /\ y.type = "TxReceived"
  BY <1>2, <1>6
<1>. QED  BY <1>3, <1>4, <1>5, <1>7 DEF ReceivedAs, L, e, n, id, s

-----------------------------------------------------------------------------
(* The ghost grows.                                                        *)

(* The ghost after slate s was agreed on (o, if new) and outputs C were    *)
(* made for it.                                                            *)
Grown(g, w, s, o, C) ==
    [offer |-> [t \in Slates |-> IF t = s /\ o # <<>> THEN o ELSE g.offer[t]],
     home |-> [v \in Wallets |-> [n \in Nat |->
                 IF v = w /\ (\E c \in C : c.child = n) THEN s ELSE g.home[v][n]]],
     done |-> g.done]

(* A slate is settled.                                                     *)
Done(g, s, tx) ==
    [offer |-> g.offer, home |-> g.home,
     done |-> [t \in Slates |-> IF t = s THEN tx ELSE g.done[t]]]

(* At most one new output, under the next child key.                       *)
NewOuts(w, d, C) == C = {} \/ \E o : C = {o} /\ o \in Purse(w) /\ o.child = d.next
(* When it may: keys in order, and an offer only for a slate without one.  *)
CanGrow(g, w, d, s, o, C) ==
    /\ s \in Slates /\ KeysOK(g, w, d) /\ NewOuts(w, d, C)
    /\ o # <<>> => g.offer[s] = <<>> /\ o[1] = w

(* What then holds of it.                                                  *)
GrownAs(g, h, w, s, o, C) ==
    /\ Grows(g, h, w)
    /\ \A t \in Slates : h.offer[t] = IF t = s /\ o # <<>> THEN o ELSE g.offer[t]
    /\ h.done = g.done
    /\ \A c \in C : h.home[w][c.child] = s

(* The ghost grows as it should.                                           *)
LEMMA GrownIs ==
    ASSUME NEW g, NEW w \in Wallets, NEW d, NEW s, NEW o, NEW C, CanGrow(g, w, d, s, o, C),
           NEW h, h = Grown(g, w, s, o, C)
    PROVE  GrownAs(g, h, w, s, o, C)
<1>0. s \in Slates
  BY DEF CanGrow
<1>1. \A t \in Slates : h.offer[t] = IF t = s /\ o # <<>> THEN o ELSE g.offer[t]
  BY DEF Grown
<1>2. \A v \in Wallets, n \in Nat :
         h.home[v][n] = IF v = w /\ (\E c \in C : c.child = n) THEN s ELSE g.home[v][n]
  BY DEF Grown
<1>3. h.done = g.done
  BY DEF Grown
<1>4. \A c \in C : c.child \in Nat /\ g.home[w][c.child] = <<>>
  <2>1. d.next \in Nat /\ g.home[w][d.next] = <<>>
    BY DEF CanGrow, KeysOK
  <2>2. \A c \in C : c.child = d.next
    BY DEF CanGrow, NewOuts
  <2>. QED  BY <2>1, <2>2
<1>5. \A t \in Slates : g.offer[t] # <<>> => h.offer[t] = g.offer[t]
  BY <1>1 DEF CanGrow
<1>6. \A t \in Slates : h.offer[t] # g.offer[t] => h.offer[t][1] = w
  BY <1>1 DEF CanGrow
<1>7. \A v \in Wallets, n \in Nat :
          g.home[v][n] # <<>> \/ v # w => h.home[v][n] = g.home[v][n]
  BY <1>2, <1>4
<1>8. Grows(g, h, w)
  BY <1>3, <1>5, <1>6, <1>7 DEF Grows
<1>. QED  BY <1>1, <1>2, <1>3, <1>4, <1>8 DEF GrownAs

(* The child keys stay in order when outputs are made.                     *)
LEMMA KeysGrow ==
    ASSUME NEW g, NEW w \in Wallets, NEW d, NEW s, NEW o, NEW ctx, CanGrow(g, w, d, s, o, ctx.outs),
           NEW h, h = Grown(g, w, s, o, ctx.outs), NEW e, e.next = d.next + Cardinality(ctx.outs)
    PROVE  KeysOK(h, w, e)
<1> DEFINE C == ctx.outs
<1>1. \A n \in Nat : h.home[w][n] = IF \E c \in C : c.child = n THEN s ELSE g.home[w][n]
  BY DEF Grown
<1>2. /\ d.next \in Nat \ {0}
      /\ \A n \in Nat : n >= d.next => g.home[w][n] = <<>>
      /\ \A c \in Funds[w] : c.child < d.next /\ g.home[w][c.child] = <<>>
  BY DEF CanGrow, KeysOK
<1>3. \A c \in Funds[w] : c.child \in Nat
  BY ExchangeAssumption DEF Coin
<1>4. CASE C = {}
  <2>1. e.next = d.next
    BY <1>2, <1>4, FS_EmptySet
  <2>. QED  BY <1>1, <1>2, <1>3, <1>4, <2>1 DEF KeysOK
<1>5. CASE C # {}
  <2>1. PICK x : C = {x} /\ x.child = d.next
    BY <1>5 DEF CanGrow, NewOuts
  <2>2. e.next = d.next + 1
    BY <2>1, FS_Singleton
  <2> HIDE DEF C
  <2>3. \A n \in Nat : n # d.next => h.home[w][n] = g.home[w][n]
    BY <1>1, <2>1
  <2>. QED  BY <1>2, <1>3, <2>2, <2>3 DEF KeysOK
<1>. QED  BY <1>4, <1>5

(* A context takes as many child keys as it has outputs.                   *)
LEMMA TakenIs ==
    ASSUME NEW w, NEW d, NEW ctx, NewOuts(w, d, ctx.outs)
    PROVE  Taken(d, ctx) = Cardinality(ctx.outs)
<1>1. {c \in ctx.outs : c.child = d.next} = ctx.outs
  BY DEF NewOuts
<1>. QED  BY <1>1 DEF Taken

(* The change of a selection: coin = amount + fee + change.                *)
LEMMA ChangeIs ==
    ASSUME NEW w \in Wallets, NEW d, d.next \in Nat, NEW c \in Purse(w), NEW amount \in Nat,
           c.value >= amount + Fee, NEW C, C = Change(w, d, c, amount)
    PROVE  /\ NewOuts(w, d, C) /\ Coins(w, C) /\ Total(C) \in Nat
           /\ c.value = amount + Fee + Total(C)
<1>0. Fee \in Nat /\ c.value \in Nat
  BY SlateAssumption DEF Purse
<1>1. CASE c.value = amount + Fee
  <2>1. C = {}
    BY <1>1 DEF Change
  <2>. QED  BY <1>0, <1>1, <2>1, FS_EmptySet, TotalNone DEF NewOuts, Coins
<1>2. CASE c.value # amount + Fee
  <2> DEFINE o == [own |-> w, child |-> d.next, value |-> c.value - amount - Fee]
  <2>1. C = {o}
    BY <1>2 DEF Change
  <2>2. o \in Purse(w) /\ o.value = c.value - amount - Fee /\ o.child = d.next /\ o.value \in Nat
    BY <1>0 DEF Purse
  <2> HIDE DEF o
  <2>3. Total(C) = o.value /\ IsFiniteSet(C)
    BY <2>1, <2>2, TotalOne, FS_Singleton
  <2>. QED  BY <1>0, <2>1, <2>2, <2>3 DEF NewOuts, Coins
<1>. QED  BY <1>1, <1>2

(* A step that draws for slate s leaves the others alone.                  *)
DrawsFor(d, e, s) ==
    \A t \in Slates : t # s => /\ e.ctx[t] = d.ctx[t] /\ e.draws[t] = d.draws[t]
                               /\ (Received(e, t) => Received(d, t))

(* A step that draws, with what it has to show for its own slate.          *)
Draws(g, h, w, d, s, o, ctx, e) ==
    /\ PayDb(g, w, d) /\ CanGrow(g, w, d, s, o, ctx.outs) /\ h = Grown(g, w, s, o, ctx.outs)
    /\ e.next = d.next + Cardinality(ctx.outs) /\ Book(h, w, e)
    /\ DrawsFor(d, e, s) /\ HeadOK(h, w, e, s)

(* A step that draws keeps the invariant of the wallet.                    *)
LEMMA DrawnDb ==
    ASSUME NEW g, NEW h, NEW w \in Wallets, NEW d, NEW s, NEW o, NEW ctx, NEW e,
           Draws(g, h, w, d, s, o, ctx, e)
    PROVE  PayDb(h, w, e)
<1>0. /\ PayDb(g, w, d) /\ CanGrow(g, w, d, s, o, ctx.outs) /\ h = Grown(g, w, s, o, ctx.outs)
      /\ e.next = d.next + Cardinality(ctx.outs) /\ Book(h, w, e)
      /\ DrawsFor(d, e, s) /\ HeadOK(h, w, e, s)
  BY DEF Draws
<1>1. KeysOK(h, w, e)
  BY <1>0, KeysGrow
<1>2. ASSUME NEW t \in Slates, t # s PROVE HeadOK(h, w, e, t)
  <2>1. /\ Grows(g, h, w) /\ h.done = g.done
        /\ \A u \in Slates : h.offer[u] = IF u = s /\ o # <<>> THEN o ELSE g.offer[u]
    <3>1. GrownAs(g, h, w, s, o, ctx.outs)
      BY <1>0, GrownIs
    <3>. QED  BY <3>1 DEF GrownAs
  <2>2. Aside(g, h, d, e, t)
    BY <1>0, <1>2, <2>1 DEF Aside, DrawsFor
  <2>3. HeadOK(g, w, d, t)
    BY <1>0 DEF PayDb
  <2>. QED  BY <2>1, <2>2, <2>3, HeadAside
<1>. QED  BY <1>0, <1>1, <1>2 DEF PayDb

(* Growing twice is growing.                                               *)
LEMMA GrowsTwice ==
    ASSUME NEW f, NEW g, NEW h, NEW w, Grows(f, g, w), Grows(g, h, w)
    PROVE  Grows(f, h, w)
<1>1. \A s \in Slates : f.offer[s] # <<>> => h.offer[s] = f.offer[s]
  BY DEF Grows
<1>2. \A s \in Slates : h.offer[s] # f.offer[s] => h.offer[s][1] = w
  BY DEF Grows
<1>3. \A v \in Wallets, n \in Nat :
          f.home[v][n] # <<>> \/ v # w => h.home[v][n] = f.home[v][n]
  BY DEF Grows
<1>4. \A s \in Slates : f.done[s] # NoTx => h.done[s] = f.done[s]
  BY DEF Grows
<1>5. \A s \in Slates : h.done[s] # f.done[s] => h.offer[s][1] = w
  <2> SUFFICES ASSUME NEW s \in Slates, h.done[s] # f.done[s] PROVE h.offer[s][1] = w
    OBVIOUS
  <2>1. CASE h.done[s] # g.done[s]
    BY <2>1 DEF Grows
  <2>2. CASE g.done[s] # f.done[s]
    <3>1. g.offer[s][1] = w
      BY <2>2 DEF Grows
    <3>. QED  BY <3>1 DEF Grows
  <2>. QED  BY <2>1, <2>2
<1>. QED  BY <1>1, <1>2, <1>3, <1>4, <1>5 DEF Grows

(* Settling a slate is growing.                                            *)
LEMMA DoneIs ==
    ASSUME NEW g, NEW w, NEW s \in Slates, NEW tx, g.done[s] = NoTx, g.offer[s][1] = w,
           NEW h, h = Done(g, s, tx)
    PROVE  /\ Grows(g, h, w) /\ h.offer = g.offer /\ h.home = g.home /\ h.done[s] = tx
           /\ \A t \in Slates : t # s => h.done[t] = g.done[t]
<1>1. h.offer = g.offer /\ h.home = g.home
  BY DEF Done
<1>2. \A t \in Slates : h.done[t] = IF t = s THEN tx ELSE g.done[t]
  BY DEF Done
<1>3. Grows(g, h, w)
  BY <1>1, <1>2 DEF Grows
<1>. QED  BY <1>1, <1>2, <1>3

-----------------------------------------------------------------------------
(* Starting a send.                                                        *)

(* What a context holds.                                                   *)
Holds(x, ins, outs, amount, fee, late) ==
    /\ x.ins = ins /\ x.outs = outs /\ x.amount = amount /\ x.fee = fee /\ x.late = late

(* build_send_tx: the selected coin and its change.                        *)
LEMMA SendHolds ==
    ASSUME NEW w, NEW d, NEW a, NEW sl, NEW c, NEW x, x = build_send_tx(w, d, a, sl, c)
    PROVE  DOMAIN x = ContextFields /\ Holds(x, {c}, Change(w, d, c, sl.amount), sl.amount, Fee, FALSE)
<1> DEFINE N == NewContext(w, sl.id, d.draws[sl.id] + 1, a)
           G == Change(w, d, c, sl.amount)
<1>1. DOMAIN N = ContextFields /\ N.late = FALSE
  BY DEF NewContext, ContextFields
<1>2. x = [N EXCEPT !.ins = {c}, !.outs = G, !.amount = sl.amount, !.fee = Fee]
  BY DEF build_send_tx
<1> HIDE DEF N, G
<1>3. /\ DOMAIN x = ContextFields /\ x.ins = {c} /\ x.outs = G
      /\ x.amount = sl.amount /\ x.fee = Fee /\ x.late = FALSE
  BY <1>1, <1>2 DEF ContextFields
<1>. QED  BY <1>3 DEF Holds, G

(* init_send_tx: the same, or nothing when it locks late.                  *)
LEMMA InitHolds ==
    ASSUME NEW w, NEW d, NEW a, NEW sl, NEW c, NEW late \in BOOLEAN, NEW proof,
           NEW x, x = InitContext(w, d, a, sl, c, late, proof)
    PROVE  \/ late /\ Holds(x, {}, {}, sl.amount, Fee, TRUE)
           \/ ~late /\ Holds(x, {c}, Change(w, d, c, sl.amount), sl.amount, Fee, FALSE)
<1> DEFINE B == build_send_tx(w, d, a, sl, c)
<1>1. DOMAIN B = ContextFields /\ Holds(B, {c}, Change(w, d, c, sl.amount), sl.amount, Fee, FALSE)
  BY SendHolds
<1>2. PICK y : x = [B EXCEPT !.ins = IF late THEN {} ELSE @, !.outs = IF late THEN {} ELSE @,
                             !.late = late, !.index = y]
  BY DEF InitContext
<1> HIDE DEF B
<1>3. /\ x.ins = (IF late THEN {} ELSE B.ins) /\ x.outs = (IF late THEN {} ELSE B.outs)
      /\ x.late = late /\ x.amount = B.amount /\ x.fee = B.fee
  BY <1>1, <1>2 DEF ContextFields
<1>. QED  BY <1>1, <1>3 DEF Holds

(* build_recipient_output: one new output of the amount.                   *)
LEMMA RecipientHolds ==
    ASSUME NEW w, NEW d, NEW a, NEW sl, NEW x, x = build_recipient_output(w, d, a, sl)
    PROVE  Holds(x, {}, {[own |-> w, child |-> d.next, value |-> sl.amount]}, sl.amount, sl.fee, FALSE)
<1> DEFINE N == NewContext(w, sl.id, d.draws[sl.id] + 1, a)
           O == {[own |-> w, child |-> d.next, value |-> sl.amount]}
<1>1. DOMAIN N = ContextFields /\ N.late = FALSE /\ N.ins = {}
  BY DEF NewContext, ContextFields
<1>2. x = [N EXCEPT !.outs = O, !.amount = sl.amount, !.fee = sl.fee]
  BY DEF build_recipient_output
<1> HIDE DEF N, O
<1>3. /\ x.ins = {} /\ x.outs = O /\ x.amount = sl.amount /\ x.fee = sl.fee /\ x.late = FALSE
  BY <1>1, <1>2 DEF ContextFields
<1>. QED  BY <1>3 DEF Holds, O

(* A coin that covers amount and fee.                                      *)
Selected(w, d, c, amount) ==
    /\ c \in DOMAIN d.coins /\ c \in Purse(w) /\ amount \in Nat /\ c.value >= amount + Fee

(* What is selectable is a coin of the wallet that covers both.            *)
LEMMA SelectedIs ==
    ASSUME NEW g, NEW w, NEW d, PayDb(g, w, d), NEW a, NEW amount \in Nat,
           NEW c \in Selectable(d, a, amount)
    PROVE  Selected(w, d, c, amount)
  BY DEF Selectable, Selected, PayDb, Book

(* Its change is new and makes up the difference.                          *)
LEMMA SelectedChange ==
    ASSUME NEW g, NEW w \in Wallets, NEW d, PayDb(g, w, d), NEW c, NEW amount, Selected(w, d, c, amount),
           NEW C, C = Change(w, d, c, amount)
    PROVE  /\ NewOuts(w, d, C) /\ Coins(w, C) /\ Total(C) \in Nat
           /\ c.value = amount + Fee + Total(C) /\ Coins(w, {c})
<1>1. d.next \in Nat
  BY DEF PayDb, KeysOK
<1>2. Coins(w, {c})
  BY FS_Singleton DEF Coins, Selected
<1>. QED  BY <1>1, <1>2, ChangeIs DEF Selected

(* Making no output is allowed.                                            *)
LEMMA NoneNew ==
    ASSUME NEW w, NEW d
    PROVE  NewOuts(w, d, {}) /\ Coins(w, {})
  BY FS_EmptySet DEF NewOuts, Coins

(* Slate s was started by w, for this amount.                              *)
OfferMade(h, s, w, kind, amount) ==
    /\ h.offer[s] # <<>> /\ h.offer[s][1] = w
    /\ Agreed(h, s) = amount /\ First(h, s) = <<w, s, 1>> /\ (IsSend(h, s) <=> kind = "send")

(* The ghost reads the offer that was recorded.                            *)
LEMMA OfferTyped ==
    ASSUME NEW g, NEW s \in Slates, NEW w, NEW kind, NEW amount, NEW h, NEW C,
           NEW o, o = <<w, kind, amount>>, GrownAs(g, h, w, s, o, C)
    PROVE  OfferMade(h, s, w, kind, amount)
<1>1. o # <<>> /\ o[1] = w /\ o[2] = kind /\ o[3] = amount
  OBVIOUS
<1>2. h.offer[s] = o
  BY <1>1 DEF GrownAs
<1>. QED  BY <1>1, <1>2 DEF Agreed, First, IsSend, OfferMade

(* New outputs are made for the slate.                                     *)
LEMMA FromNew ==
    ASSUME NEW g, NEW w, NEW s, NEW o, NEW h, NEW C, GrownAs(g, h, w, s, o, C), Coins(w, C)
    PROVE  From(h, s, C)
  BY DEF GrownAs, Coins, Purse, From

(* The wallet may start this slate.                                        *)
Begins(g, w, d, s, kind, amount) ==
    /\ PayDb(g, w, d) /\ Good(w, d) /\ s \in Slates /\ amount \in Amounts
    /\ g.offer[s] = <<>> /\ g.done[s] = NoTx

(* init_send_tx keeps the invariant of the wallet, with the offer in the   *)
(* ghost.                                                                  *)
LEMMA InitPays ==
    ASSUME NEW g, NEW w \in Wallets, NEW d, NEW s, NEW amount, Begins(g, w, d, s, "send", amount),
           NEW a, NEW ttl, NEW c \in Selectable(d, a, amount), NEW late \in BOOLEAN, NEW proof,
           NEW sl, sl = InitSlate(s, amount, ttl),
           NEW ctx, ctx = InitContext(w, d, a, sl, c, late, proof),
           NEW o, o = <<w, "send", amount>>, NEW h, h = Grown(g, w, s, o, ctx.outs),
           NEW e, e = init_send_db(d, sl, ctx)
    PROVE  /\ CanGrow(g, w, d, s, o, ctx.outs) /\ PayDb(h, w, e)
           /\ ctx.key = First(h, s) /\ e.ctx[s] # NoContext
<1>0. PayDb(g, w, d) /\ Good(w, d) /\ s \in Slates /\ amount \in Nat /\ g.offer[s] = <<>> /\ g.done[s] = NoTx
  BY NotEmpty DEF Begins
<1>1. sl.id = s /\ sl.amount = amount
  BY DEF InitSlate, blank
<1>2. NewKeyed(w, d, s, ctx)
  BY <1>1, BuiltContexts
<1>3. /\ ctx.ins = (IF late THEN {} ELSE {c})
      /\ ctx.outs = (IF late THEN {} ELSE Change(w, d, c, amount))
      /\ ctx.amount = amount /\ ctx.fee = Fee /\ ctx.late = late
  <2>1. \/ late /\ Holds(ctx, {}, {}, sl.amount, Fee, TRUE)
        \/ ~late /\ Holds(ctx, {c}, Change(w, d, c, sl.amount), sl.amount, Fee, FALSE)
    BY InitHolds
  <2>. QED  BY <1>1, <2>1 DEF Holds
<1>4. Selected(w, d, c, amount)
  BY <1>0, SelectedIs
<1> DEFINE G == Change(w, d, c, amount)
<1>5. /\ NewOuts(w, d, G) /\ Coins(w, G) /\ Total(G) \in Nat
      /\ c.value = amount + Fee + Total(G) /\ Coins(w, {c})
  BY <1>0, <1>4, SelectedChange
<1> HIDE DEF G
<1>6. NewOuts(w, d, ctx.outs) /\ Coins(w, ctx.outs) /\ Coins(w, ctx.ins)
  BY <1>3, <1>5, NoneNew DEF G
<1>7. CanGrow(g, w, d, s, o, ctx.outs)
  BY <1>0, <1>6 DEF CanGrow, PayDb
<1>8. GrownAs(g, h, w, s, o, ctx.outs)
  BY <1>7, GrownIs
<1>9. /\ h.offer[s] = o /\ h.offer[s] # <<>> /\ h.done[s] = NoTx
      /\ Agreed(h, s) = amount /\ First(h, s) = <<w, s, 1>> /\ IsSend(h, s)
  <2>1. OfferMade(h, s, w, "send", amount)
    BY <1>0, <1>8, OfferTyped
  <2>2. o # <<>> /\ h.offer[s] = o /\ h.done = g.done
    BY <1>0, <1>8 DEF GrownAs
  <2>. QED  BY <1>0, <2>1, <2>2 DEF OfferMade
<1>10. d.draws[s] = 0 /\ ~Received(d, s)
  BY <1>0 DEF PayDb, HeadOK
<1>11. ctx.key = First(h, s) /\ ctx.initKey = First(h, s) /\ DOMAIN ctx = ContextFields /\ ctx # NoContext
  <2>1. ctx.key = <<w, s, 1>> /\ ctx.initKey = <<w, s, 1>> /\ DOMAIN ctx = ContextFields
    BY <1>2, <1>10 DEF NewKeyed, NextKey
  <2>2. DOMAIN NoContext = {"key"}
    BY DEF NoContext
  <2>. QED  BY <1>9, <2>1, <2>2 DEF ContextFields
<1>12. /\ DOMAIN e = DbFields /\ e.coins = d.coins /\ e.log = d.log /\ e.nextTx = d.nextTx
       /\ e.ctx = [d.ctx EXCEPT ![s] = ctx] /\ e.files = d.files
       /\ e.draws = [d.draws EXCEPT ![s] = @ + 1] /\ e.next = d.next + Cardinality(ctx.outs)
  <2> DEFINE f == Drawn(d, s, ctx)
  <2>1. e = [f EXCEPT !.ctx[s] = ctx]
    BY <1>1 DEF init_send_db
  <2>2. DOMAIN d = DbFields
    BY <1>0 DEF PayDb, Book
  <2>3. f = Drawn(d, s, ctx) /\ Taken(d, ctx) = Cardinality(ctx.outs)
    BY <1>6, TakenIs
  <2> HIDE DEF f
  <2>4. DrawnAs(d, s, ctx, f)
    BY <2>2, <2>3, DrawnIs
  <2>. QED  BY <2>1, <2>3, <2>4 DEF DbFields, DrawnAs
<1>13. DOMAIN d.ctx = Slates /\ DOMAIN d.draws = Slates
  BY <1>0 DEF Good, WalletOK
<1>14. e.ctx[s] = ctx /\ e.draws[s] = 1 /\ DrawsFor(d, e, s) /\ (Received(e, s) <=> Received(d, s))
  BY <1>0, <1>10, <1>12, <1>13 DEF DrawsFor, Received, Found
<1>15. Book(h, w, e)
  <2>1. Book(h, w, d)
    BY <1>0, <1>8, BookStays DEF PayDb, GrownAs
  <2>. QED  BY <1>12, <2>1 DEF Book
<1>16. CtxOK(h, w, e, s)
  <2>1. From(h, s, ctx.outs)
    BY <1>6, <1>8, FromNew
  <2>2. late => ctx.ins = {} /\ ctx.outs = {}
    BY <1>3
  <2>3. ~late => ctx.ins = {c} /\ ctx.outs = G
    BY <1>3 DEF G
  <2>4. Plain(h, s, ctx)
    BY <1>5, <1>9, <2>2, <2>3 DEF Plain
  <2>5. SenderOK(h, e, s, ctx)
    BY <1>3, <2>4 DEF SenderOK
  <2>6. ctx.late => Late(h, s, ctx)
    BY <1>3, <1>9, <1>11, <2>2 DEF Late
  <2>. QED  BY <1>6, <1>9, <1>14, <2>1, <2>5, <2>6 DEF CtxOK
<1>17. HeadOK(h, w, e, s)
  BY <1>9, <1>10, <1>14, <1>16 DEF HeadOK
<1>18. PayDb(h, w, e)
  <2>1. Draws(g, h, w, d, s, o, ctx, e)
    BY <1>0, <1>7, <1>12, <1>14, <1>15, <1>17 DEF Draws
  <2>. QED  BY <2>1, DrawnDb
<1>. QED  BY <1>7, <1>11, <1>14, <1>18

-----------------------------------------------------------------------------
(* Issuing an invoice, and the receipt.                                    *)

(* What a receipt leaves of the books.                                     *)
ReceivedOK(g, w, d, a, s, e) ==
    /\ Book(g, w, e)
    /\ \A t \in Slates : t # s => (Received(e, t) => Received(d, t))
    /\ HasRoom(d, a) => Found(e, s, AllTypes) # {}

(* A receipt keeps the books and adds a receipt for its slate only.        *)
LEMMA ReceivedBook ==
    ASSUME NEW g, NEW w, NEW d, Book(g, w, d), NEW a \in Accts, NEW s \in Slates, NEW ctx,
           Coins(w, ctx.outs), NEW e, ReceivedAs(d, a, s, ctx, e)
    PROVE  ReceivedOK(g, w, d, a, s, e)
<1>1. PICK x : /\ e.log = [d.log EXCEPT ![<<a, d.nextTx[a]>>] = x]
               /\ {"slate", "type"} \subseteq DOMAIN x
               /\ x.slate = s /\ x.type = "TxReceived"
  BY DEF ReceivedAs
<1>2. /\ DOMAIN d = DbFields /\ DOMAIN d.coins \subseteq Purse(w) /\ Entries(d.log)
      /\ DOMAIN d.nextTx = Accts /\ \A b \in Accts : d.nextTx[b] \in Nat \ {0}
      /\ DOMAIN d.files = Slates /\ \A t \in Slates : Filed(g, t, d.files[t])
  BY BookIs
<1> DEFINE p == <<a, d.nextTx[a]>>
           L == d.log
           M == e.log
<1>3. M = [L EXCEPT ![p] = x] /\ Entries(L) /\ Entry(x)
  BY <1>1, <1>2 DEF Entry
<1> HIDE DEF p, L, M
<1>4. /\ Entries(M)
      /\ \A t : Got(M, t) => Got(L, t) \/ (x.slate = t /\ x.type = "TxReceived")
  BY <1>3, EntryPut
<1>5. \A t : (Received(d, t) <=> Got(L, t)) /\ (Received(e, t) <=> Got(M, t))
  BY EntriesIs DEF L, M
<1>6. \A t \in Slates : t # s => (Received(e, t) => Received(d, t))
  BY <1>1, <1>4, <1>5
<1>7. DOMAIN e.nextTx = Accts /\ \A b \in Accts : e.nextTx[b] \in Nat \ {0}
  <2> DEFINE X == d.nextTx
             Y == e.nextTx
  <2>1. /\ DOMAIN X = Accts /\ \A b \in Accts : X[b] \in Nat \ {0}
        /\ Y = [X EXCEPT ![a] = X[a] + 1]
    BY <1>2 DEF ReceivedAs
  <2> HIDE DEF X, Y
  <2>2. DOMAIN Y = Accts /\ \A b \in Accts : Y[b] \in Nat \ {0}
    BY <2>1, NextTxPut
  <2>. QED  BY <2>2 DEF Y
<1>8. Book(g, w, e)
  <2>1. DOMAIN e = DbFields /\ DOMAIN e.coins \subseteq Purse(w) /\ e.files = d.files
    BY <1>2 DEF ReceivedAs, Coins
  <2>. QED  BY <1>2, <1>4, <1>7, <2>1, BookIs DEF M
<1>9. ASSUME HasRoom(d, a) PROVE Found(e, s, AllTypes) # {}
  <2>1. d.nextTx[a] \in 1 .. MaxEntries
    BY <1>2, <1>9, NotEmpty DEF HasRoom
  <2>2. p \in Pos
    BY <2>1 DEF Pos, p
  <2>3. DOMAIN L = Pos
    BY <1>3 DEF Entries
  <2>4. M[p] = x
    BY <1>3, <2>2, <2>3
  <2>. QED  BY <1>1, <2>2, <2>4 DEF Found, AllTypes, M
<1>. QED  BY <1>6, <1>8, <1>9 DEF ReceivedOK

(* One new output of this amount.                                          *)
OneOut(w, d, C, amount) ==
    NewOuts(w, d, C) /\ Coins(w, C) /\ \E o : C = {o} /\ o.value = amount

(* The output of build_recipient_output is one.                            *)
LEMMA OneNew ==
    ASSUME NEW g, NEW w \in Wallets, NEW d, PayDb(g, w, d), NEW amount \in Nat, NEW C,
           C = {[own |-> w, child |-> d.next, value |-> amount]}
    PROVE  OneOut(w, d, C, amount)
<1> DEFINE o == [own |-> w, child |-> d.next, value |-> amount]
<1>1. d.next \in Nat
  BY DEF PayDb, KeysOK
<1>2. C = {o} /\ o \in Purse(w) /\ o.child = d.next /\ o.value = amount
  BY <1>1 DEF Purse
<1> HIDE DEF o
<1>3. IsFiniteSet(C)
  BY <1>2, FS_Singleton
<1>. QED  BY <1>2, <1>3 DEF NewOuts, Coins, OneOut

(* issue_invoice_tx keeps the invariant of the wallet.                     *)
LEMMA IssuePays ==
    ASSUME NEW g, NEW w \in Wallets, NEW d, NEW s, NEW amount, Begins(g, w, d, s, "invoice", amount),
           NEW a \in Accts, NEW sl, sl = InvoiceSlate(s, amount),
           NEW ctx, ctx = build_recipient_output(w, d, a, sl),
           NEW o, o = <<w, "invoice", amount>>, NEW h, h = Grown(g, w, s, o, ctx.outs),
           NEW e, e = issue_db(d, a, sl, ctx)
    PROVE  /\ CanGrow(g, w, d, s, o, ctx.outs) /\ PayDb(h, w, e)
           /\ ctx.key = First(h, s)
<1>0. PayDb(g, w, d) /\ Good(w, d) /\ s \in Slates /\ amount \in Nat /\ g.offer[s] = <<>> /\ g.done[s] = NoTx
  BY NotEmpty DEF Begins
<1>1. sl.id = s /\ sl.amount = amount /\ sl.fee = 0
  BY DEF InvoiceSlate, blank
<1>2. NewKeyed(w, d, s, ctx)
  BY <1>1, BuiltContexts
<1>3. Holds(ctx, {}, {[own |-> w, child |-> d.next, value |-> amount]}, amount, 0, FALSE)
  <2>1. Holds(ctx, {}, {[own |-> w, child |-> d.next, value |-> sl.amount]}, sl.amount, sl.fee, FALSE)
    BY RecipientHolds
  <2>. QED  BY <1>1, <2>1
<1>4. NewOuts(w, d, ctx.outs) /\ Coins(w, ctx.outs) /\ \E x : ctx.outs = {x} /\ x.value = amount
  <2>1. ctx.outs = {[own |-> w, child |-> d.next, value |-> amount]}
    BY <1>3 DEF Holds
  <2>2. PICK C, n : C = ctx.outs /\ n = amount
    OBVIOUS
  <2>3. OneOut(w, d, C, n)
    BY <1>0, <2>1, <2>2, OneNew
  <2>. QED  BY <2>2, <2>3 DEF OneOut
<1>5. ctx.ins = {} /\ ctx.fee = 0 /\ ctx.late = FALSE /\ Coins(w, ctx.ins)
  BY <1>3, NoneNew DEF Holds
<1>7. CanGrow(g, w, d, s, o, ctx.outs)
  BY <1>0, <1>4 DEF CanGrow, PayDb
<1>8. GrownAs(g, h, w, s, o, ctx.outs)
  BY <1>7, GrownIs
<1>9. /\ h.offer[s] # <<>> /\ h.done[s] = NoTx /\ h.offer[s][1] = w
      /\ Agreed(h, s) = amount /\ First(h, s) = <<w, s, 1>> /\ ~IsSend(h, s)
  <2>1. OfferMade(h, s, w, "invoice", amount)
    BY <1>0, <1>8, OfferTyped
  <2>2. h.done = g.done
    BY <1>8 DEF GrownAs
  <2>. QED  BY <1>0, <2>1, <2>2 DEF OfferMade
<1>10. d.draws[s] = 0 /\ ~Received(d, s)
  BY <1>0 DEF PayDb, HeadOK
<1>11. ctx.key = First(h, s) /\ ctx.initKey = First(h, s)
  BY <1>2, <1>9, <1>10 DEF NewKeyed, NextKey
<1> DEFINE f == ReceivedDb(d, a, sl, ctx)
<1>12. e = [f EXCEPT !.ctx[s] = ctx]
  BY <1>1 DEF issue_db
<1>13. DOMAIN d = DbFields /\ Book(h, w, d)
  <2>1. Grows(g, h, w) /\ Book(g, w, d)
    BY <1>0, <1>8 DEF GrownAs, PayDb
  <2>2. Book(h, w, d)
    BY <2>1, BookStays
  <2>. QED  BY <2>2 DEF Book
<1>14. ReceivedAs(d, a, s, ctx, f)
  <2>1. ReceivedAs(d, a, sl.id, ctx, f)
    BY <1>13, ReceivedDbIs
  <2>. QED  BY <1>1, <2>1
<1> HIDE DEF f
<1>15. Book(h, w, f) /\ \A t \in Slates : t # s => (Received(f, t) => Received(d, t))
  <2>1. ReceivedOK(h, w, d, a, s, f)
    BY <1>0, <1>4, <1>13, <1>14, ReceivedBook
  <2>. QED  BY <2>1 DEF ReceivedOK
<1>16. /\ DOMAIN f = DbFields /\ f.ctx = d.ctx /\ f.draws = [d.draws EXCEPT ![s] = @ + 1]
       /\ f.next = d.next + Cardinality(ctx.outs)
  <2>1. Taken(d, ctx) = Cardinality(ctx.outs)
    BY <1>4, TakenIs
  <2>. QED  BY <1>14, <2>1 DEF ReceivedAs
<1>17. /\ DOMAIN e = DbFields /\ e.coins = f.coins /\ e.log = f.log /\ e.nextTx = f.nextTx
       /\ e.ctx = [d.ctx EXCEPT ![s] = ctx] /\ e.files = f.files /\ e.draws = f.draws
       /\ e.next = d.next + Cardinality(ctx.outs)
  BY <1>12, <1>16 DEF DbFields
<1>18. DOMAIN d.ctx = Slates /\ DOMAIN d.draws = Slates
  BY <1>0 DEF Good, WalletOK
<1>19. \A t : Received(e, t) <=> Received(f, t)
  BY <1>17 DEF Received, Found
<1>20. e.ctx[s] = ctx /\ e.draws[s] = 1
  BY <1>0, <1>10, <1>16, <1>17, <1>18
<1>21. DrawsFor(d, e, s)
  BY <1>0, <1>15, <1>16, <1>17, <1>18, <1>19 DEF DrawsFor
<1>22. Book(h, w, e)
  BY <1>15, <1>17 DEF Book
<1>23. CtxOK(h, w, e, s)
  <2>1. From(h, s, ctx.outs)
    BY <1>4, <1>8, FromNew
  <2>2. PayeeOK(h, e, s, ctx)
    BY <1>4, <1>5, <1>9 DEF PayeeOK
  <2>. QED  BY <1>4, <1>5, <1>9, <1>20, <2>1, <2>2 DEF CtxOK
<1>24. HeadOK(h, w, e, s)
  BY <1>9, <1>20, <1>23 DEF HeadOK
<1>25. PayDb(h, w, e)
  <2>1. Draws(g, h, w, d, s, o, ctx, e)
    BY <1>0, <1>7, <1>17, <1>21, <1>22, <1>24 DEF Draws
  <2>. QED  BY <2>1, DrawnDb
<1>. QED  BY <1>7, <1>11, <1>25

(* The wallet may draw a key for a slate that was agreed on.               *)
Joins(g, w, d, sl) ==
    /\ PayDb(g, w, d) /\ Good(w, d) /\ sl.id \in Slates /\ sl.amount \in Nat
    /\ g.offer[sl.id] # <<>> /\ CanDraw(d, sl.id)

(* A context that takes in the amount.                                     *)
Receives(w, ctx, amount) ==
    ctx.ins = {} /\ Coins(w, ctx.outs) /\ \E x : ctx.outs = {x} /\ x.value = amount

(* The part of receive_tx that is saved before it signs keeps the          *)
(* invariant of the wallet, whether or not the slate is then refused.      *)
LEMMA ReceivedPays ==
    ASSUME MaxCtx <= 2, NEW g, NEW w \in Wallets, NEW d, NEW sl, NEW s, s = sl.id, Joins(g, w, d, sl),
           NEW a \in Accts, HasRoom(d, a), NEW ctx, ctx = build_recipient_output(w, d, a, sl),
           NEW R, R.id = s,
           NEW o, o = <<>>, NEW h, h = Grown(g, w, s, o, ctx.outs),
           NEW e, e = ReceivedDb(d, a, R, ctx)
    PROVE  /\ CanGrow(g, w, d, s, o, ctx.outs) /\ PayDb(h, w, e)
           /\ Found(e, s, AllTypes) # {}
           /\ Receives(w, ctx, sl.amount)
<1>0. PayDb(g, w, d) /\ Good(w, d) /\ s \in Slates /\ sl.amount \in Nat /\ g.offer[s] # <<>>
      /\ d.draws[s] < MaxCtx
  BY DEF Joins, CanDraw
<1>3. Holds(ctx, {}, {[own |-> w, child |-> d.next, value |-> sl.amount]}, sl.amount, sl.fee, FALSE)
  BY RecipientHolds
<1>4. NewOuts(w, d, ctx.outs) /\ Coins(w, ctx.outs) /\ \E x : ctx.outs = {x} /\ x.value = sl.amount
  <2>1. ctx.outs = {[own |-> w, child |-> d.next, value |-> sl.amount]}
    BY <1>3 DEF Holds
  <2>2. PICK C, n : C = ctx.outs /\ n = sl.amount
    OBVIOUS
  <2>3. OneOut(w, d, C, n)
    BY <1>0, <2>1, <2>2, OneNew
  <2>. QED  BY <2>2, <2>3 DEF OneOut
<1>5. ctx.ins = {}
  BY <1>3 DEF Holds
<1>7. CanGrow(g, w, d, s, o, ctx.outs)
  BY <1>0, <1>4 DEF CanGrow, PayDb
<1>8. GrownAs(g, h, w, s, o, ctx.outs) /\ o = <<>>
  BY <1>7, GrownIs
<1>9. h.offer[s] = g.offer[s] /\ h.done[s] = g.done[s] /\ Grows(g, h, w)
  BY <1>0, <1>8 DEF GrownAs
<1>13. DOMAIN d = DbFields /\ Book(h, w, d)
  <2>1. Grows(g, h, w) /\ Book(g, w, d)
    BY <1>0, <1>9 DEF PayDb
  <2>2. Book(h, w, d)
    BY <2>1, BookStays
  <2>. QED  BY <2>2 DEF Book
<1>14. ReceivedAs(d, a, s, ctx, e)
  <2>1. ReceivedAs(d, a, R.id, ctx, e)
    BY <1>13, ReceivedDbIs
  <2>. QED  BY <2>1
<1>15. /\ Book(h, w, e) /\ \A t \in Slates : t # s => (Received(e, t) => Received(d, t))
       /\ Found(e, s, AllTypes) # {}
  <2>1. ReceivedOK(h, w, d, a, s, e)
    BY <1>0, <1>4, <1>13, <1>14, ReceivedBook
  <2>. QED  BY <2>1 DEF ReceivedOK
<1>16. /\ DOMAIN e = DbFields /\ e.ctx = d.ctx /\ e.draws = [d.draws EXCEPT ![s] = @ + 1]
       /\ e.next = d.next + Cardinality(ctx.outs)
  <2>1. Taken(d, ctx) = Cardinality(ctx.outs)
    BY <1>4, TakenIs
  <2>. QED  BY <1>14, <2>1 DEF ReceivedAs
<1>18. DOMAIN d.ctx = Slates /\ DOMAIN d.draws = Slates /\ d.draws[s] \in Nat
  BY <1>0 DEF Good, WalletOK
<1>20. e.ctx[s] = d.ctx[s] /\ e.draws[s] = d.draws[s] + 1
  BY <1>0, <1>16, <1>18
<1>21. DrawsFor(d, e, s)
  BY <1>0, <1>15, <1>16, <1>18 DEF DrawsFor
<1>22. HeadOK(g, w, d, s)
  BY <1>0 DEF PayDb
<1>23. ASSUME d.ctx[s] # NoContext PROVE CtxOK(h, w, e, s)
  <2> DEFINE x == d.ctx[s]
  <2>1. CtxOK(g, w, d, s)
    BY <1>22, <1>23 DEF HeadOK
  <2>2. ~(d.draws[s] > 1)
    BY <1>0, <1>18, SlateAssumption
  <2>3. First(h, s) = First(g, s) /\ Agreed(h, s) = Agreed(g, s) /\ (IsSend(h, s) <=> IsSend(g, s))
    BY <1>9 DEF First, Agreed, IsSend
  <2>4. /\ g.offer[s] # <<>>
        /\ Coins(w, x.ins) /\ Coins(w, x.outs) /\ From(g, s, x.outs)
        /\ x.late => Late(g, s, x)
        /\ x.initKey = First(g, s) =>
              /\ g.done[s] = NoTx
              /\ IF IsSend(g, s) THEN SenderOK(g, d, s, x) ELSE PayeeOK(g, d, s, x)
    BY <2>1 DEF CtxOK
  <2> HIDE DEF x
  <2>5. SenderOK(g, d, s, x) => SenderOK(h, e, s, x)
    BY <2>2, <2>3 DEF SenderOK, Plain
  <2>6. PayeeOK(g, d, s, x) => PayeeOK(h, e, s, x)
    BY <2>2, <2>3 DEF PayeeOK
  <2>7. x.late => Late(h, s, x)
    BY <1>9, <2>3, <2>4 DEF Late
  <2>8. From(h, s, x.outs)
    BY <1>0, <1>9, <2>4, CoinsFrom
  <2>9. e.ctx[s] = x
    BY <1>20 DEF x
  <2>. QED  BY <1>9, <2>3, <2>4, <2>5, <2>6, <2>7, <2>8, <2>9 DEF CtxOK
<1>24. HeadOK(h, w, e, s)
  BY <1>0, <1>9, <1>18, <1>20, <1>22, <1>23 DEF HeadOK
<1>25. PayDb(h, w, e)
  <2>1. Draws(g, h, w, d, s, o, ctx, e)
    BY <1>0, <1>7, <1>8, <1>16, <1>21, <1>15, <1>24 DEF Draws
  <2>. QED  BY <2>1, DrawnDb
<1>. QED  BY <1>4, <1>5, <1>7, <1>15, <1>25 DEF Receives

-----------------------------------------------------------------------------
(* receive_tx.                                                             *)

(* The incoming slate is an offer and the wallet's key is new to it.       *)
Cosigns(g, w, d, sl, ctx) ==
    /\ OfferOK(g, sl) /\ Formed(sl) /\ DOMAIN sl.offset = {}
    /\ ctx.key = NextKey(w, d, sl.id) /\ ctx.initKey = ctx.key /\ DOMAIN ctx = ContextFields
    /\ ctx.key \notin Keys(sl)

(* The reply of receive_tx.                                                *)
Replies(g, h, w, d, sl, ctx) ==
    /\ Joins(g, w, d, sl) /\ Cosigns(g, w, d, sl, ctx)
    /\ GrownAs(g, h, w, sl.id, <<>>, ctx.outs) /\ Receives(w, ctx, sl.amount)

(* The reply of receive_tx is a good answer.                               *)
LEMMA ReplyIsOK ==
    ASSUME NEW g, NEW h, NEW w \in Wallets, NEW d, NEW a, NEW sl, NEW ctx,
           Replies(g, h, w, d, sl, ctx), NEW N, N = receive_slate(w, a, sl, ctx)
    PROVE  SlateOK(h, N) /\ N.id = sl.id
<1>b. PICK s, o : s = sl.id /\ o = <<>>
  OBVIOUS
<1>c. /\ Joins(g, w, d, sl) /\ Cosigns(g, w, d, sl, ctx)
      /\ GrownAs(g, h, w, s, o, ctx.outs) /\ Receives(w, ctx, sl.amount)
  BY <1>b DEF Replies
<1> DEFINE r == ctx.key
           U == ctx.outs
<1>0. /\ OfferOK(g, sl) /\ Formed(sl) /\ DOMAIN sl.offset = {}
      /\ r = NextKey(w, d, s) /\ ctx.initKey = ctx.key /\ r \notin Keys(sl)
      /\ s \in Slates /\ g.offer[s] # <<>> /\ d.draws[s] \in Nat
  BY <1>b, <1>c DEF Cosigns, Joins, Good, WalletOK
<1>1. ReplyAs(sl, ctx, N)
  BY <1>0, ReplyIs
<1>a. Coins(w, U) /\ GrownAs(g, h, w, s, o, U)
  BY <1>c DEF Receives
<1>2. h.offer[s] = g.offer[s] /\ From(h, s, U)
  <2> HIDE DEF U
  <2>1. From(h, s, U)
    BY <1>a, FromNew
  <2>. QED  BY <1>0, <1>a, <1>b, <2>1 DEF GrownAs
<1>3. First(h, s) = First(g, s) /\ Agreed(h, s) = Agreed(g, s)
  BY <1>2 DEF First, Agreed
<1>4. Keys(sl) = {First(g, s)} /\ sl.amount = Agreed(g, s)
  BY <1>0, <1>b DEF OfferOK
<1>5. r \in Wallets \X {s} \X Nat /\ r[1] = w /\ r # First(h, s)
  BY <1>0, <1>3, <1>4 DEF NextKey
<1>6. /\ N.id = s /\ N.state = "S2" /\ N.amount = 0 /\ Keys(N) = {r}
      /\ N.parts[r].keys = {r, First(h, s)}
      /\ N.tx # NoTx /\ ~N.tx.signed /\ N.tx.ins = {} /\ N.tx.outs = U
      /\ N.offset = sl.offset (+) Terms({r}, {}, U)
  BY <1>b, <1>c, <1>1, <1>3, <1>4 DEF ReplyAs, Receives
<1> HIDE DEF r, U
<1>7. N.offset = Terms({r}, {}, U)
  <2> DEFINE B == sl.offset
             K == {r}
             I == {}
  <2>1. DOMAIN B = {} /\ N.offset = B (+) Terms(K, I, U)
    BY <1>0, <1>6
  <2> HIDE DEF B, K, I
  <2>2. B (+) Terms(K, I, U) = Terms(K, I, U)
    BY <2>1, EmptyPlus
  <2>. QED  BY <2>1, <2>2 DEF K, I
<1>8. Coins(w, U) /\ Coins(w, {}) /\ U \subseteq AnyCoin /\ \E x : U = {x} /\ x.value = Agreed(h, s)
  <2>1. Coins(w, U) /\ \E x : U = {x} /\ x.value = Agreed(h, s)
    BY <1>c, <1>3, <1>4 DEF U, Receives
  <2>. QED  BY <2>1, NoneNew, PurseIsCoin DEF Coins
<1>9. Share(h, N, r, {}, U)
  BY <1>2, <1>5, <1>6, <1>7, <1>8 DEF Share
<1>10. AnswerOK(h, N)
  <2>1. {} \in SUBSET Purse(r[1]) /\ U \in SUBSET Purse(r[1])
    BY <1>5, <1>8 DEF Coins
  <2>2. \E I, V \in SUBSET Purse(r[1]) : Share(h, N, r, I, V)
    BY <1>9, <2>1
  <2>. QED  BY <1>5, <1>6, <2>2 DEF AnswerOK
<1>. QED  BY <1>b, <1>0, <1>2, <1>6, <1>8, <1>10 DEF SlateOK, SlateState, Unsigned

(* receive_tx keeps the invariant of the wallet and gives a good answer.   *)
LEMMA ReceivePays ==
    ASSUME MaxCtx <= 2, NEW g, NEW w \in Wallets, NEW d, NEW sl, NEW s, s = sl.id,
           Joins(g, w, d, sl),
           NEW a \in Accts, HasRoom(d, a), NEW ctx, ctx = build_recipient_output(w, d, a, sl),
           Cosigns(g, w, d, sl, ctx),
           NEW o, o = <<>>, NEW h, h = Grown(g, w, s, o, ctx.outs),
           NEW e, e = receive_db(w, d, a, sl, ctx),
           NEW N, N = receive_slate(w, a, sl, ctx)
    PROVE  CanGrow(g, w, d, s, o, ctx.outs) /\ PayDb(h, w, e) /\ SlateOK(h, N)
<1> DEFINE R == ReceivedSlate(w, a, sl, ctx)
           f == ReceivedDb(d, a, R, ctx)
<1>1. R.id = s
  <2>1. Formed(sl)
    BY DEF Cosigns
  <2>. QED  BY <2>1, ReceivedId
<1>2. e = update_tx_slate_state(f, a, N)
  BY DEF receive_db
<1>3. f = ReceivedDb(d, a, R, ctx)
  OBVIOUS
<1> HIDE DEF R, f
<1>4. /\ CanGrow(g, w, d, s, o, ctx.outs) /\ PayDb(h, w, f)
      /\ Found(f, s, AllTypes) # {}
      /\ Receives(w, ctx, sl.amount)
  BY <1>1, <1>3, ReceivedPays
<1>5. GrownAs(g, h, w, s, o, ctx.outs)
  BY <1>4, GrownIs
<1>6. SlateOK(h, N) /\ N.id = s
  <2>1. Replies(g, h, w, d, sl, ctx)
    BY <1>4, <1>5 DEF Replies
  <2>. QED  BY <2>1, ReplyIsOK
<1>7. Book(h, w, f) /\ N.id \in Slates /\ Found(f, N.id, AllTypes) # {}
  BY <1>4, <1>6 DEF PayDb, SlateOK
<1>8. Book(h, w, e) /\ Calm(f, e)
  BY <1>2, <1>7, UpdateBook
<1>9. PayDb(h, w, e)
  BY <1>4, <1>8, CalmKeeps
<1>. QED  BY <1>4, <1>6, <1>9

-----------------------------------------------------------------------------
(* process_invoice_tx.                                                     *)

(* The context process_invoice_tx saves: the payer's, joined with the one  *)
(* the wallet may have as payee.                                           *)
PaidAs(d, s, ctx, C) ==
    /\ C.key = ctx.key /\ C.late = ctx.late /\ DOMAIN C = ContextFields
    /\ d.ctx[s] = NoContext =>
          C.initKey = ctx.initKey /\ C.ins = ctx.ins /\ C.outs = ctx.outs
    /\ d.ctx[s] # NoContext =>
          /\ C.initKey = d.ctx[s].initKey /\ C.fee = d.ctx[s].fee
          /\ C.ins = ctx.ins \cup d.ctx[s].ins /\ C.outs = ctx.outs \cup d.ctx[s].outs

(* process_invoice_tx saves that context.                                  *)
LEMMA PaidIs ==
    ASSUME NEW d, NEW sl, NEW ctx, DOMAIN ctx = ContextFields
    PROVE  PaidAs(d, sl.id, ctx, PaidContext(d, sl, ctx))
<1> DEFINE c == d.ctx[sl.id]
           C == PaidContext(d, sl, ctx)
<1>1. PICK x : C = IF c = NoContext THEN [ctx EXCEPT !.excess = x]
                   ELSE [ctx EXCEPT !.excess = x, !.initKey = c.initKey, !.fee = c.fee,
                         !.amount = c.amount, !.outs = @ \cup c.outs, !.ins = @ \cup c.ins]
  BY DEF PaidContext
<1> HIDE DEF C
<1>2. CASE c = NoContext
  BY <1>1, <1>2 DEF PaidAs, ContextFields, C
<1>3. CASE c # NoContext
  <2>1. C = [ctx EXCEPT !.excess = x, !.initKey = c.initKey, !.fee = c.fee,
                        !.amount = c.amount, !.outs = @ \cup c.outs, !.ins = @ \cup c.ins]
    BY <1>1, <1>3
  <2>2. /\ C.key = ctx.key /\ C.late = ctx.late /\ DOMAIN C = ContextFields
        /\ C.initKey = c.initKey /\ C.fee = c.fee
        /\ C.ins = ctx.ins \cup c.ins /\ C.outs = ctx.outs \cup c.outs
    BY <2>1 DEF ContextFields
  <2>. QED  BY <1>3, <2>2 DEF PaidAs, C
<1>. QED  BY <1>2, <1>3

(* Coins of a wallet taken together.                                       *)
LEMMA CoinsBoth ==
    ASSUME NEW w, NEW A, NEW B, Coins(w, A), Coins(w, B)
    PROVE  Coins(w, A \cup B)
  BY FS_Union DEF Coins

(* The wallet pays an offer with coin c.                                   *)
Spends(g, h, w, d, sl, ctx, c) ==
    /\ Joins(g, w, d, sl) /\ Cosigns(g, w, d, sl, ctx)
    /\ GrownAs(g, h, w, sl.id, <<>>, ctx.outs) /\ NewOuts(w, d, ctx.outs)
    /\ ctx.ins = {c} /\ Coins(w, {c}) /\ Coins(w, ctx.outs) /\ Total(ctx.outs) \in Nat
    /\ c.value = sl.amount + Fee + Total(ctx.outs) /\ ctx.late = FALSE

(* The answer of process_invoice_tx.                                       *)
LEMMA PaymentIsOK ==
    ASSUME NEW g, NEW h, NEW w \in Wallets, NEW d, NEW sl, NEW ctx, NEW c,
           Spends(g, h, w, d, sl, ctx, c), NEW N, N = pay_slate(d, sl, ctx)
    PROVE  SlateOK(h, N) /\ N.id = sl.id
<1> DEFINE r == ctx.key
           U == ctx.outs
           s == sl.id
           o == <<>>
<1>0. /\ OfferOK(g, sl) /\ Formed(sl) /\ DOMAIN sl.offset = {} /\ DOMAIN ctx = ContextFields
      /\ r = NextKey(w, d, s) /\ ctx.initKey = ctx.key /\ r \notin Keys(sl)
      /\ s \in Slates /\ g.offer[s] # <<>> /\ d.draws[s] \in Nat /\ PayDb(g, w, d)
  BY DEF Cosigns, Joins, Good, WalletOK, Spends
<1>1. /\ GrownAs(g, h, w, s, o, U) /\ Coins(w, U) /\ Coins(w, {c}) /\ ctx.ins = {c}
      /\ c.value = sl.amount + Fee + Total(U)
  BY DEF Spends
<1>2. PICK self, C : self = (d.ctx[sl.id] # NoContext) /\ C = PaidContext(d, sl, ctx)
  OBVIOUS
<1>3. PaymentAs(d, sl, ctx, self, C, N)
  BY <1>0, <1>2, PaymentIs
<1>4. PaidAs(d, s, ctx, C)
  BY <1>0, <1>2, PaidIs
<1>5. h.offer[s] = g.offer[s] /\ From(h, s, U)
  <2>1. PICK t : t = s
    OBVIOUS
  <2> HIDE DEF U
  <2>2. GrownAs(g, h, w, t, o, U)
    BY <1>1, <2>1
  <2>3. From(h, t, U)
    BY <1>1, <2>2, FromNew
  <2>4. h.offer[t] = g.offer[t]
    BY <1>0, <2>1, <2>2 DEF GrownAs
  <2>. QED  BY <2>1, <2>3, <2>4
<1>6. First(h, s) = First(g, s) /\ Agreed(h, s) = Agreed(g, s)
  BY <1>5 DEF First, Agreed
<1>7. Keys(sl) = {First(g, s)} /\ sl.amount = Agreed(g, s)
  BY <1>0 DEF OfferOK
<1>8. r \in Wallets \X {s} \X Nat /\ r[1] = w /\ r # First(h, s)
  BY <1>0, <1>6, <1>7 DEF NextKey
<1>9. /\ N.id = s /\ N.state = "I2" /\ N.amount = 0 /\ Keys(N) = {r} /\ N.fee = Fee
      /\ N.parts[r].keys = {r, First(h, s)} /\ N.tx # NoTx /\ ~N.tx.signed
  BY <1>3, <1>6, <1>7 DEF PaymentAs
<1>10. N.tx.ins \subseteq Purse(w) /\ c \in N.tx.ins /\ N.tx.outs \subseteq Purse(w)
  <2>1. N.tx.ins = {c} \cup (C.ins \cap DOMAIN d.coins) /\ N.tx.outs = U \cup (C.outs \cap DOMAIN d.coins)
    BY <1>1, <1>3 DEF PaymentAs
  <2>2. DOMAIN d.coins \subseteq Purse(w)
    BY <1>0 DEF PayDb, Book
  <2>. QED  BY <1>1, <2>1, <2>2 DEF Coins
<1>11. c.own = w /\ N.tx.ins \cup N.tx.outs \subseteq AnyCoin
  BY <1>10, PurseIsCoin
<1>12. N.offset = IF self THEN Terms({r}, {}, {}) ELSE Terms({r}, {c}, U)
  <2> DEFINE B == sl.offset
             K == {r}
             I == {c}
             E == {}
  <2>1. DOMAIN B = {} /\ N.offset = B (+) (IF self THEN Terms(K, E, E) ELSE Terms(K, I, U))
    BY <1>0, <1>1, <1>3 DEF PaymentAs
  <2> HIDE DEF B, K, I, E, U
  <2>2. B (+) Terms(K, I, U) = Terms(K, I, U)
    BY <2>1, EmptyPlus
  <2>3. B (+) Terms(K, E, E) = Terms(K, E, E)
    BY <2>1, EmptyPlus
  <2>4. N.offset = IF self THEN Terms(K, E, E) ELSE Terms(K, I, U)
    BY <2>1, <2>2, <2>3
  <2>. QED  BY <2>4 DEF K, I, E
<1>13. \E I, V \in SUBSET Purse(r[1]) : Share(h, N, r, I, V)
  <2>1. Coins(w, {}) /\ From(h, s, {})
    BY NoneNew DEF From
  <2>2. CASE self
    <3>1. Share(h, N, r, {}, {})
      BY <1>8, <1>9, <1>12, <2>1, <2>2 DEF Share
    <3>. QED  BY <3>1
  <2>3. CASE ~self
    <3>1. c.value = Agreed(h, s) + Fee + Total(U)
      BY <1>1, <1>6, <1>7
    <3> HIDE DEF U, s, r
    <3>2. Share(h, N, r, {c}, U)
      BY <1>1, <1>5, <1>8, <1>9, <1>12, <2>3, <3>1 DEF Share
    <3>3. {c} \in SUBSET Purse(r[1]) /\ U \in SUBSET Purse(r[1])
      BY <1>1, <1>8 DEF Coins
    <3>. QED  BY <3>2, <3>3
  <2>. QED  BY <2>2, <2>3
<1> HIDE DEF r
<1>14. AnswerOK(h, N)
  BY <1>8, <1>9, <1>10, <1>11, <1>13 DEF AnswerOK
<1>. QED  BY <1>0, <1>5, <1>9, <1>11, <1>14 DEF SlateOK, SlateState, Unsigned

(* process_invoice_tx keeps the invariant of the wallet, also when it pays *)
(* its own slate with two contexts in one.                                 *)
LEMMA PayPays ==
    ASSUME MaxCtx <= 2, NEW g, NEW h, NEW w \in Wallets, NEW d, NEW sl, NEW ctx, NEW c,
           Spends(g, h, w, d, sl, ctx, c), NEW s, s = sl.id, NEW o, o = <<>>,
           h = Grown(g, w, s, o, ctx.outs), CanGrow(g, w, d, s, o, ctx.outs),
           NEW e, e = pay_db(d, sl, ctx)
    PROVE  PayDb(h, w, e) /\ e.ctx[s] # NoContext
<1> DEFINE U == ctx.outs
           C == PaidContext(d, sl, ctx)
           x == d.ctx[s]
<1>0. /\ OfferOK(g, sl) /\ DOMAIN ctx = ContextFields /\ ctx.key = NextKey(w, d, s)
      /\ ctx.initKey = ctx.key /\ s \in Slates /\ g.offer[s] # <<>> /\ d.draws[s] \in Nat
      /\ PayDb(g, w, d) /\ Good(w, d) /\ d.draws[s] < MaxCtx
  BY DEF Cosigns, Joins, Good, WalletOK, Spends, CanDraw
<1>1. /\ GrownAs(g, h, w, s, o, U) /\ Coins(w, U) /\ Coins(w, {c}) /\ ctx.ins = {c}
      /\ c.value = sl.amount + Fee + Total(U) /\ ctx.late = FALSE /\ NewOuts(w, d, U)
      /\ Total(U) \in Nat
  BY DEF Spends
<1>2. PaidAs(d, s, ctx, C)
  BY <1>0, PaidIs
<1> HIDE DEF C, U
<1>3. /\ DOMAIN e = DbFields /\ e.coins = d.coins /\ e.log = d.log /\ e.nextTx = d.nextTx
      /\ e.ctx = [d.ctx EXCEPT ![s] = C] /\ e.files = d.files
      /\ e.draws = [d.draws EXCEPT ![s] = @ + 1] /\ e.next = d.next + Cardinality(ctx.outs)
  <2> DEFINE f == Drawn(d, s, ctx)
  <2>1. e = [f EXCEPT !.ctx[s] = C]
    BY DEF pay_db, C
  <2>2. DOMAIN d = DbFields
    BY <1>0 DEF PayDb, Book
  <2>3. f = Drawn(d, s, ctx) /\ Taken(d, ctx) = Cardinality(ctx.outs)
    BY <1>1, TakenIs DEF U
  <2> HIDE DEF f
  <2>4. DrawnAs(d, s, ctx, f)
    BY <2>2, <2>3, DrawnIs
  <2>. QED  BY <2>1, <2>3, <2>4 DEF DbFields, DrawnAs
<1>4. h.offer[s] = g.offer[s] /\ h.done[s] = g.done[s] /\ From(h, s, U) /\ Grows(g, h, w)
  <2>1. From(h, s, U)
    BY <1>1, FromNew
  <2>. QED  BY <1>0, <1>1, <2>1 DEF GrownAs
<1>5. First(h, s) = First(g, s) /\ Agreed(h, s) = Agreed(g, s) /\ (IsSend(h, s) <=> IsSend(g, s))
  BY <1>4 DEF First, Agreed, IsSend
<1>6. DOMAIN d.ctx = Slates /\ DOMAIN d.draws = Slates /\ ContextOK(w, d, s)
  BY <1>0 DEF Good, WalletOK
<1>7. e.ctx[s] = C /\ e.draws[s] = d.draws[s] + 1 /\ DrawsFor(d, e, s) /\ (Received(e, s) <=> Received(d, s))
  BY <1>0, <1>3, <1>6 DEF DrawsFor, Received, Found
<1>8. C # NoContext
  <2>1. DOMAIN C = ContextFields
    BY <1>2 DEF PaidAs
  <2>2. DOMAIN NoContext = {"key"}
    BY DEF NoContext
  <2>3. "acct" \in DOMAIN C /\ "acct" \notin DOMAIN NoContext
    BY <2>1, <2>2 DEF ContextFields
  <2>. QED  BY <2>3
<1>9. Book(h, w, e)
  <2>1. Book(g, w, d)
    BY <1>0 DEF PayDb
  <2>2. Book(h, w, d)
    BY <1>4, <2>1, BookStays
  <2>. QED  BY <1>3, <2>2 DEF Book
<1>10. HeadOK(g, w, d, s)
  BY <1>0 DEF PayDb
<1>11. ASSUME x = NoContext PROVE HeadOK(h, w, e, s)
  <2>1. C.initKey = <<w, s, d.draws[s] + 1>> /\ C.ins = {c} /\ C.outs = U /\ C.late = FALSE
    BY <1>0, <1>1, <1>2, <1>11 DEF PaidAs, NextKey, U
  <2>2. C.initKey # First(h, s)
    <3>1. SUFFICES ASSUME C.initKey = First(h, s) PROVE FALSE
      OBVIOUS
    <3>2. g.offer[s][1] = w /\ d.draws[s] + 1 = 1
      BY <1>5, <2>1, <3>1 DEF First
    <3>. QED  BY <1>0, <1>10, <3>2 DEF HeadOK
  <2>3. CtxOK(h, w, e, s)
    BY <1>0, <1>1, <1>4, <1>7, <2>1, <2>2 DEF CtxOK
  <2>4. HeadOK(h, w, e, s)
    BY <1>0, <1>4, <1>5, <1>7, <1>10, <2>3 DEF HeadOK
  <2>. QED  BY <2>4
<1>12. ASSUME x # NoContext PROVE HeadOK(h, w, e, s)
  <2>1. /\ C.initKey = x.initKey /\ C.fee = x.fee /\ C.late = FALSE
        /\ C.ins = {c} \cup x.ins /\ C.outs = U \cup x.outs
    BY <1>1, <1>2, <1>12 DEF PaidAs, U
  <2>2. CtxOK(g, w, d, s)
    BY <1>10, <1>12 DEF HeadOK
  <2>3. /\ Coins(w, x.ins) /\ Coins(w, x.outs) /\ From(g, s, x.outs)
        /\ x.initKey = First(g, s) =>
              /\ g.done[s] = NoTx
              /\ IF IsSend(g, s) THEN SenderOK(g, d, s, x) ELSE PayeeOK(g, d, s, x)
    BY <2>2 DEF CtxOK
  <2>4. PICK n \in 1 .. d.draws[s] : x.initKey = <<w, s, n>>
    BY <1>6, <1>12 DEF ContextOK
  <2>5. d.draws[s] = 1 /\ e.draws[s] > 1
    BY <1>0, <1>7, <2>4, SlateAssumption
  <2> HIDE DEF x
  <2>6. From(h, s, x.outs)
    BY <1>0, <1>4, <2>3, CoinsFrom
  <2>7. From(h, s, C.outs) /\ Coins(w, C.outs) /\ Coins(w, C.ins)
    <3>1. From(h, s, C.outs)
      BY <1>4, <2>1, <2>6 DEF From
    <3>. QED  BY <1>1, <2>1, <2>3, <3>1, CoinsBoth
  <2>8. ASSUME C.initKey = First(h, s)
        PROVE  IF IsSend(h, s) THEN SenderOK(h, e, s, C) ELSE PayeeOK(h, e, s, C)
    <3>1. x.initKey = First(g, s) /\ g.offer[s][1] = w
      BY <1>5, <2>1, <2>4, <2>8 DEF First
    <3>2. CASE IsSend(g, s)
      <4>1. SenderOK(g, d, s, x)
        BY <2>3, <3>1, <3>2
      <4>2. ~Received(d, s)
        BY <1>0, <1>10, <2>5, <3>1, <3>2 DEF HeadOK
      <4>3. SenderOK(h, e, s, C)
        BY <1>7, <2>1, <2>5, <4>1, <4>2 DEF SenderOK
      <4>. QED  BY <1>5, <3>2, <4>3
    <3>3. CASE ~IsSend(g, s)
      <4>1. PayeeOK(g, d, s, x)
        BY <2>3, <3>1, <3>3
      <4>2. PICK y : x.fee = 0 /\ x.ins = {} /\ x.outs = {y} /\ y.value = Agreed(g, s)
        BY <2>5, <4>1 DEF PayeeOK
      <4>3. U \cap x.outs = {}
        <5>1. \A z \in U : z.own = w /\ z.child = d.next
          BY <1>1 DEF NewOuts, Purse
        <5>2. \A z \in x.outs : z.own = w /\ g.home[z.own][z.child] = s
          BY <2>3 DEF From, Coins, Purse
        <5>3. d.next \in Nat /\ g.home[w][d.next] = <<>>
          BY <1>0 DEF PayDb, KeysOK
        <5>4. s # <<>>
          BY <1>0, NotEmpty
        <5>. QED  BY <5>1, <5>2, <5>3, <5>4
      <4>4. Valued(U) /\ Valued(x.outs) /\ Total(x.outs) \in Nat
        BY <1>1, <2>3, CoinsValued
      <4>5. Total(U \cup x.outs) = Total(U) + Total(x.outs)
        <5> DEFINE V == x.outs
        <5>1. Valued(U) /\ Valued(V) /\ U \cap V = {}
          BY <4>3, <4>4
        <5> HIDE DEF V
        <5>2. Total(U \cup V) = Total(U) + Total(V)
          BY <5>1, TotalUnion
        <5>. QED  BY <5>2 DEF V
      <4>6. Total(x.outs) = Agreed(g, s) /\ Agreed(g, s) \in Nat
        <5>1. PICK V : V = x.outs
          OBVIOUS
        <5>2. Total(V) = y.value /\ y.value \in Nat
          BY <2>3, <4>2, <5>1, OneCoin
        <5>. QED  BY <4>2, <5>1, <5>2
      <4>7. Total({c}) = c.value /\ c.value \in Nat
        BY <1>1, OneCoin
      <4>8. sl.amount = Agreed(g, s)
        BY <1>0 DEF OfferOK
      <4>9. Total(C.ins) = Total(C.outs) + Fee
        <5>1. C.ins = {c} /\ C.outs = U \cup x.outs
          BY <2>1, <4>2
        <5>. QED  BY <1>1, <4>5, <4>6, <4>7, <4>8, <5>1, SlateAssumption
      <4>10. PayeeOK(h, e, s, C)
        BY <2>1, <2>5, <4>2, <4>9 DEF PayeeOK
      <4>. QED  BY <1>5, <3>3, <4>10
    <3>. QED  BY <3>2, <3>3
  <2>9. CtxOK(h, w, e, s)
    <3>1. C.initKey = First(h, s) => h.done[s] = NoTx
      BY <1>4, <1>5, <2>1, <2>3
    <3>. QED  BY <1>0, <1>4, <1>7, <2>1, <2>7, <2>8, <3>1 DEF CtxOK
  <2>10. HeadOK(h, w, e, s)
    BY <1>0, <1>4, <1>5, <1>7, <1>10, <2>5, <2>9 DEF HeadOK
  <2>. QED  BY <2>10
<1>13. PayDb(h, w, e)
  <2>1. HeadOK(h, w, e, s)
    BY <1>11, <1>12
  <2>2. Draws(g, h, w, d, s, o, ctx, e)
    BY <1>0, <1>3, <1>7, <1>9, <2>1 DEF Draws
  <2>. QED  BY <2>2, DrawnDb
<1>. QED  BY <1>7, <1>8, <1>13

-----------------------------------------------------------------------------
(* Late locking and finishing.                                             *)

(* finalize_tx selects the coin of a late-locked send.                     *)
Delayed(g, h, w, d, a, sl, c) ==
    /\ PayDb(g, w, d) /\ Good(w, d) /\ SlateOK(g, sl) /\ Formed(sl)
    /\ g.offer[sl.id] \in Wallets \X {"send", "invoice"} \X Amounts
    /\ d.ctx[sl.id] # NoContext /\ d.ctx[sl.id].late
    /\ c \in Selectable(d, a, d.ctx[sl.id].amount)
    /\ h = Grown(g, w, sl.id, <<>>, Change(w, d, c, d.ctx[sl.id].amount))

(* Locking late keeps the invariant of the wallet.                         *)
LEMMA LatePays ==
    ASSUME NEW g, NEW h, NEW w \in Wallets, NEW d, NEW a, NEW sl, NEW c,
           Delayed(g, h, w, d, a, sl, c), NEW e, e = LateLocked(w, d, a, sl, c)
    PROVE  PayDb(h, w, e) /\ Grows(g, h, w) /\ h.done = g.done /\ \A t \in Slates : h.offer[t] = g.offer[t]
<1>1. PICK s, o, x, C, y :
        /\ s = sl.id /\ o = <<>> /\ x = d.ctx[s] /\ C = Change(w, d, c, x.amount)
        /\ y = LateContext(w, d, a, sl, c)
  OBVIOUS
<1>2. /\ PayDb(g, w, d) /\ Good(w, d) /\ SlateOK(g, sl) /\ Formed(sl)
      /\ g.offer[s] \in Wallets \X {"send", "invoice"} \X Amounts
      /\ x # NoContext /\ x.late /\ c \in Selectable(d, a, x.amount) /\ h = Grown(g, w, s, o, C)
  BY <1>1 DEF Delayed
<1>3. s \in Slates /\ DOMAIN x = ContextFields /\ DOMAIN d.ctx = Slates /\ DOMAIN d = DbFields
  BY <1>1, <1>2 DEF SlateOK, Good, WalletOK, ContextOK, PayDb, Book
<1>4. HeadOK(g, w, d, s)
  BY <1>2, <1>3 DEF PayDb
<1>5. CtxOK(g, w, d, s)
  BY <1>1, <1>2, <1>4 DEF HeadOK
<1>6. /\ g.offer[s] # <<>> /\ IsSend(g, s) /\ x.initKey = First(g, s) /\ x.amount = Agreed(g, s)
      /\ g.done[s] = NoTx /\ x.fee = Fee
  BY <1>1, <1>2, <1>5 DEF CtxOK, Late, SenderOK
<1>7. x.amount \in Nat
  BY <1>2, <1>6, NotEmpty DEF Agreed
<1>8. Selected(w, d, c, x.amount)
  <2>1. PICK n : n = x.amount
    OBVIOUS
  <2>2. Selected(w, d, c, n)
    BY <1>2, <1>7, <2>1, SelectedIs
  <2>. QED  BY <2>1, <2>2
<1>9. /\ NewOuts(w, d, C) /\ Coins(w, C) /\ Total(C) \in Nat
      /\ c.value = x.amount + Fee + Total(C) /\ Coins(w, {c})
  <2>1. PICK n : n = x.amount
    OBVIOUS
  <2>2. Selected(w, d, c, n) /\ C = Change(w, d, c, n)
    BY <1>1, <1>8, <2>1
  <2>3. /\ NewOuts(w, d, C) /\ Coins(w, C) /\ Total(C) \in Nat
        /\ c.value = n + Fee + Total(C) /\ Coins(w, {c})
    BY <1>2, <2>2, SelectedChange
  <2>. QED  BY <2>1, <2>3
<1>10. /\ y.ins = {c} /\ y.outs = C /\ y.late = FALSE /\ y.initKey = x.initKey
       /\ y.fee = x.fee /\ DOMAIN y = ContextFields
  <2>1. y = [x EXCEPT !.late = FALSE, !.ins = {c}, !.outs = C]
    BY <1>1 DEF LateContext
  <2>. QED  BY <1>3, <2>1 DEF ContextFields
<1> DEFINE f == [d EXCEPT !.ctx[s] = y, !.next = @ + Cardinality(y.outs)]
<1>11. e = tx_lock_outputs(w, f, sl)
  BY <1>1 DEF LateLocked
<1>12. /\ DOMAIN f = DbFields /\ f.coins = d.coins /\ f.log = d.log /\ f.nextTx = d.nextTx
       /\ f.ctx = [d.ctx EXCEPT ![s] = y] /\ f.files = d.files /\ f.draws = d.draws
       /\ f.next = d.next + Cardinality(y.outs)
  BY <1>3 DEF DbFields
<1> HIDE DEF f
<1>13. CanGrow(g, w, d, s, o, C)
  BY <1>1, <1>2, <1>3, <1>9 DEF CanGrow, PayDb
<1>14. GrownAs(g, h, w, s, o, C)
  BY <1>2, <1>13, GrownIs
<1>15. Grows(g, h, w) /\ h.done = g.done /\ \A t \in Slates : h.offer[t] = g.offer[t]
  BY <1>1, <1>14 DEF GrownAs
<1>16. First(h, s) = First(g, s) /\ Agreed(h, s) = Agreed(g, s) /\ IsSend(h, s) /\ h.offer[s] # <<>>
  BY <1>3, <1>6, <1>15 DEF First, Agreed, IsSend
<1>17. Book(h, w, f)
  <2>1. Book(g, w, d)
    BY <1>2 DEF PayDb
  <2>2. Book(h, w, d)
    BY <1>15, <2>1, BookStays
  <2>. QED  BY <1>12, <2>2 DEF Book
<1>18. f.ctx[s] = y /\ DrawsFor(d, f, s) /\ \A t : Received(f, t) <=> Received(d, t)
  BY <1>3, <1>12 DEF DrawsFor, Received, Found
<1>19. y # NoContext
  <2>2. DOMAIN NoContext = {"key"}
    BY DEF NoContext
  <2>3. "acct" \in DOMAIN y /\ "acct" \notin DOMAIN NoContext
    BY <1>10, <2>2 DEF ContextFields
  <2>. QED  BY <2>3
<1>20. CtxOK(h, w, f, s)
  <2>1. From(h, s, C)
    BY <1>9, <1>14, FromNew
  <2>2. Plain(h, s, y)
    BY <1>6, <1>9, <1>10, <1>16 DEF Plain
  <2>3. SenderOK(h, f, s, y)
    BY <1>6, <1>10, <2>2 DEF SenderOK
  <2>. QED  BY <1>6, <1>9, <1>10, <1>15, <1>16, <1>18, <2>1, <2>3 DEF CtxOK
<1>21. HeadOK(h, w, f, s)
  BY <1>3, <1>4, <1>6, <1>12, <1>15, <1>16, <1>18, <1>20 DEF HeadOK, IsSend
<1>22. PayDb(h, w, f)
  <2>1. Draws(g, h, w, d, s, o, y, f)
    BY <1>2, <1>10, <1>12, <1>13, <1>17, <1>18, <1>21 DEF Draws
  <2>. QED  BY <2>1, DrawnDb
<1>23. SlateOK(h, sl)
  BY <1>2, <1>15, SlateStays
<1>24. f.ctx[sl.id] # NoContext
  BY <1>1, <1>18, <1>19
<1>25. PayDb(h, w, e) /\ Calm(f, e)
  BY <1>2, <1>11, <1>22, <1>23, <1>24, LockDb
<1>. QED  BY <1>15, <1>25

(* What finishing a slate leaves: ghost, books and slate.                  *)
FinishedAs(g, h, w, s, e, N) ==
    /\ Grows(g, h, w) /\ h.offer = g.offer /\ h.home = g.home
    /\ \A t \in Slates : t # s => h.done[t] = g.done[t]
    /\ Settled(h, s) /\ PayDb(h, w, e) /\ SlateOK(h, N) /\ Known(h, N.tx)

(* finalize_tx settles the slate and keeps the invariant of the wallet.    *)
LEMMA FinishPays ==
    ASSUME 0 \notin Amounts, NEW D, NEW S,
           NEW g, NEW w \in Wallets, NEW d, Good(w, d), NEW a, NEW sl, NEW ctx, NEW inv \in BOOLEAN,
           Finishing(D, S, g, w, d, a, sl, ctx, inv),
           NEW h, h = Done(g, sl.id, Content(Finalized(Completed(d, sl, ctx, inv)).tx)),
           NEW e, e = finalize_db(w, d, a, sl, ctx, inv),
           NEW N, N = finalize_slate(d, sl, ctx, inv)
    PROVE  FinishedAs(g, h, w, sl.id, e, N)
<1>1. PICK Z, s, T : Z = Finalized(Completed(d, sl, ctx, inv)) /\ s = sl.id /\ T = Content(Z.tx)
  OBVIOUS
<1>2. /\ w = g.offer[s][1] /\ g.done[s] = NoTx
      /\ \E payer, payee \in Wallets, r \in Wallets \X {s} \X Nat :
                 Settles(g, s, T, payer, payee, r)
  BY <1>1, Settling
<1>3. /\ PayDb(g, w, d) /\ ctx = d.ctx[s] /\ ctx # NoContext /\ Formed(sl) /\ s \in Slates
      /\ sl.tx # NoTx /\ Finishable(d, sl, inv) # {} /\ DOMAIN ctx = ContextFields
      /\ g.offer[s] # <<>>
  BY <1>1 DEF Finishing, GoodSlate, CanComplete, ContextOK, SlateOK
<1>4. CompletedAs(d, sl, ctx, inv, Z)
  BY <1>1, <1>3, CompletedTx
<1>5. DOMAIN Z = SlateFields /\ DOMAIN Z.tx = TxFields /\ Z.tx # NoTx /\ Z.tx.excess = Keys(Z) /\ Z.id = s
  BY <1>1, <1>4 DEF CompletedAs
<1>6. T # NoTx
  <2>1. "ins" \in DOMAIN T /\ "ins" \notin DOMAIN NoTx
    BY <1>1 DEF Content, NoTx
  <2>. QED  BY <2>1
<1>7. /\ Grows(g, h, w) /\ h.offer = g.offer /\ h.home = g.home /\ h.done[s] = T
      /\ \A t \in Slates : t # s => h.done[t] = g.done[t]
  <2>1. h = Done(g, s, T)
    BY <1>1
  <2>2. s \in Slates /\ g.done[s] = NoTx /\ g.offer[s][1] = w
    BY <1>2, <1>3
  <2>. QED  BY <2>1, <2>2, DoneIs
<1>8. Settled(h, s)
  <2>1. PICK payer, payee \in Wallets, r \in Wallets \X {s} \X Nat :
                 Settles(g, s, T, payer, payee, r)
    BY <1>2
  <2>2. Settles(h, s, T, payer, payee, r)
    BY <1>7, <2>1 DEF Settles, First, IsSend, Agreed, From
  <2>3. h.offer[s] # <<>>
    BY <1>3, <1>7
  <2>. QED  BY <1>7, <2>2, <2>3 DEF Settled
<1> DEFINE d1 == update_stored_tx(w, d, a, Z, inv)
           d2 == [d1 EXCEPT !.ctx[s] = NoContext]
<1>9. e = update_tx_slate_state(d2, a, N) /\ d1 = update_stored_tx(w, d, a, Z, inv)
  BY <1>1 DEF finalize_db
<1>10. Book(h, w, d) /\ Filed(h, s, Z.tx)
  <2>1. Book(g, w, d)
    BY <1>3 DEF PayDb
  <2>2. Book(h, w, d)
    BY <1>7, <2>1, BookStays
  <2>. QED  BY <1>1, <1>6, <1>7, <2>2 DEF Filed
<1> HIDE DEF d1
<1>11. Book(h, w, d1) /\ Calm(d, d1) /\ Found(d1, s, AllTypes) # {}
  <2>1. Finishable(d, Z, inv) # {} /\ Z.id \in Slates /\ Filed(h, Z.id, Z.tx)
    BY <1>1, <1>3, <1>5, <1>10 DEF Finishable
  <2>2. Book(h, w, d1) /\ Calm(d, d1) /\ Found(d1, Z.id, AllTypes) # {}
    BY <1>9, <1>10, <2>1, StoreBook
  <2>. QED  BY <1>5, <2>2
<1>12. /\ Book(h, w, d2) /\ Found(d2, s, AllTypes) # {} /\ d2.draws = d1.draws /\ d2.next = d1.next
       /\ d2.ctx = [d1.ctx EXCEPT ![s] = NoContext] /\ d2.log = d1.log
  <2>1. DOMAIN d1 = DbFields
    BY <1>11 DEF Book
  <2>2. /\ DOMAIN d2 = DbFields /\ d2.coins = d1.coins /\ d2.log = d1.log /\ d2.nextTx = d1.nextTx
        /\ d2.ctx = [d1.ctx EXCEPT ![s] = NoContext] /\ d2.files = d1.files /\ d2.draws = d1.draws
        /\ d2.next = d1.next
    BY <2>1 DEF DbFields
  <2> HIDE DEF d2
  <2>. QED  BY <1>11, <2>2 DEF Book, Found
<1>13. N.id = s /\ N.tx = Z.tx /\ Keys(N) = Keys(Z) /\ N.amount = 0 /\ N.state = IF inv THEN "I3" ELSE "S3"
  <2>1. N = [Z EXCEPT !.state = IF inv THEN "I3" ELSE "S3", !.amount = 0]
    BY <1>1 DEF finalize_slate
  <2>. QED  BY <1>5, <2>1 DEF SlateFields, Keys
<1> HIDE DEF d2
<1>14. Book(h, w, e) /\ Calm(d2, e)
  <2>1. N.id \in Slates /\ Found(d2, N.id, AllTypes) # {}
    BY <1>3, <1>12, <1>13
  <2>. QED  BY <1>9, <1>12, <2>1, UpdateBook
<1>15. /\ e.draws = d.draws /\ e.next = d.next /\ e.ctx = [d.ctx EXCEPT ![s] = NoContext]
       /\ \A t : Received(e, t) => Received(d, t)
  <2>1. \A t : Received(d2, t) <=> Received(d1, t)
    BY <1>12 DEF Received, Found
  <2>. QED  BY <1>11, <1>12, <1>14, <2>1 DEF Calm
<1>16. DOMAIN d.ctx = Slates
  BY DEF Good, WalletOK
<1>17. KeysOK(h, w, e)
  BY <1>3, <1>7, <1>15 DEF KeysOK, PayDb
<1>18. ASSUME NEW t \in Slates PROVE HeadOK(h, w, e, t)
  <2>1. HeadOK(g, w, d, t)
    BY <1>3 DEF PayDb
  <2>2. CASE t = s
    <3>1. e.ctx[s] = NoContext
      BY <1>3, <1>15, <1>16
    <3>. QED  BY <1>7, <1>15, <2>1, <2>2, <3>1 DEF HeadOK, IsSend
  <2>3. CASE t # s
    <3>1. Aside(g, h, d, e, t)
      BY <1>7, <1>15, <1>16, <2>3 DEF Aside
    <3>. QED  BY <1>7, <2>1, <3>1, HeadAside
  <2>. QED  BY <2>2, <2>3
<1>19. PayDb(h, w, e)
  BY <1>14, <1>17, <1>18 DEF PayDb
<1>20. N.tx.ins \cup N.tx.outs \subseteq AnyCoin
  <2>1. PICK payer, payee \in Wallets, r \in Wallets \X {s} \X Nat :
                 Settles(g, s, T, payer, payee, r)
    BY <1>2
  <2>2. T.ins \subseteq Purse(payer) /\ T.outs \subseteq AnyCoin
    BY <2>1 DEF Settles, Coins
  <2>3. T.ins \subseteq AnyCoin
    BY <2>2 DEF Purse, AnyCoin
  <2>4. T.ins = N.tx.ins /\ T.outs = N.tx.outs
    BY <1>1, <1>13 DEF Content
  <2>. QED  BY <2>2, <2>3, <2>4
<1>21. SlateOK(h, N) /\ Known(h, N.tx)
  <2>1. T.excess = Z.tx.excess
    BY <1>1 DEF Content
  <2>2. DoneOK(h, N)
    BY <1>1, <1>5, <1>6, <1>7, <1>13, <2>1 DEF DoneOK
  <2>3. Known(h, N.tx)
    BY <1>1, <1>3, <1>6, <1>7, <1>13 DEF Known
  <2>4. h.offer[s] # <<>>
    BY <1>3, <1>7
  <2>. QED  BY <1>3, <1>13, <1>20, <2>2, <2>3, <2>4 DEF SlateOK, SlateState
<1>22. FinishedAs(g, h, w, s, e, N)
  BY <1>7, <1>8, <1>19, <1>21 DEF FinishedAs
<1>. QED  BY <1>1, <1>22

-----------------------------------------------------------------------------
(* finalize_tx.                                                            *)

(* The ghost grows, with the same offers, and what it adds as settled is.  *)
Advances(g, h, w) ==
    /\ Grows(g, h, w) /\ \A t \in Slates : h.offer[t] = g.offer[t]
    /\ \A t \in Slates : h.done[t] # g.done[t] => Settled(h, t)
(* An offer is none, or who, how and how much.                             *)
OfferType(s, o) == o = <<>> \/ o \in Wallets \X {"send", "invoice"} \X Amounts
Typed(g) == \A s \in Slates : OfferType(s, g.offer[s])
(* What finalize_tx is given.                                              *)
Finalizes(D, S, g, w, d, sl) ==
    /\ PayDb(g, w, d) /\ Good(w, d) /\ SlateOK(g, sl) /\ GoodSlate(D, S, sl) /\ Typed(g)
(* What it leaves.                                                         *)
FinalizedAs(g, h, w, r) ==
    /\ Advances(g, h, w) /\ PayDb(h, w, r.d)
    /\ r.ok => SlateOK(h, r.sl) /\ Known(h, r.sl.tx)

(* Doing nothing advances.                                                 *)
LEMMA AdvancesNot ==
    ASSUME NEW g, NEW w PROVE Advances(g, g, w)
  BY DEF Advances, Grows

(* Advancing twice is advancing.                                           *)
LEMMA AdvancesTwice ==
    ASSUME NEW f, NEW g, NEW h, NEW w, Advances(f, g, w), Advances(g, h, w)
    PROVE  Advances(f, h, w)
<1>1. Grows(f, h, w) /\ Grows(g, h, w)
  BY GrowsTwice DEF Advances
<1>2. \A t \in Slates : h.offer[t] = f.offer[t]
  BY DEF Advances
<1>3. ASSUME NEW t \in Slates, h.done[t] # f.done[t] PROVE Settled(h, t)
  <2>1. CASE h.done[t] # g.done[t]
    BY <2>1 DEF Advances
  <2>2. CASE h.done[t] = g.done[t]
    <3>1. Settled(g, t) /\ g.done[t] # NoTx
      BY <1>3, <2>2 DEF Advances, Grows
    <3>. QED  BY <1>1, <3>1, SettledStays
  <2>. QED  BY <2>1, <2>2
<1>. QED  BY <1>1, <1>2, <1>3 DEF Advances

(* finalize_tx as a whole, late locking included, whether it succeeds or   *)
(* not.                                                                    *)
LEMMA FinalizePays ==
    ASSUME 0 \notin Amounts, NEW D, NEW S, NEW g, NEW w \in Wallets, NEW d, NEW a, NEW sl,
           Finalizes(D, S, g, w, d, sl), NEW r \in finalize_tx(w, d, a, sl)
    PROVE  \E h : FinalizedAs(g, h, w, r)
<1>0. /\ PayDb(g, w, d) /\ Good(w, d) /\ SlateOK(g, sl) /\ GoodSlate(D, S, sl) /\ Typed(g)
      /\ Formed(sl) /\ sl.id \in Slates /\ g.offer[sl.id] # <<>>
  BY DEF Finalizes, GoodSlate, SlateOK
<1>0a. g.offer[sl.id] \in Wallets \X {"send", "invoice"} \X Amounts
  BY <1>0 DEF Typed, OfferType
<1>1. CASE \/ d.ctx[sl.id] = NoContext \/ ~check_ttl(sl) \/ sl.state \notin {"S2", "I2"}
           \/ Started(w, d, a, sl) = {}
  <2>1. r = Final(FALSE, d, sl)
    BY <1>1 DEF finalize_tx
  <2>2. r.d = d /\ r.ok = FALSE
    BY <2>1 DEF Final
  <2>3. FinalizedAs(g, g, w, r)
    BY <1>0, <2>2, AdvancesNot DEF FinalizedAs
  <2>. QED  BY <2>3
<1>2. CASE ~ (\/ d.ctx[sl.id] = NoContext \/ ~check_ttl(sl) \/ sl.state \notin {"S2", "I2"}
              \/ Started(w, d, a, sl) = {})
  <2>1. PICK e \in Started(w, d, a, sl) :
          r = LET ctx == e.ctx[sl.id]
                  inv == sl.state = "I2"
              IN  IF CanComplete(w, e, a, sl, ctx, inv)
                  THEN Final(TRUE, finalize_db(w, e, a, sl, ctx, inv), finalize_slate(e, sl, ctx, inv))
                  ELSE Final(FALSE, e, sl)
    BY <1>2 DEF finalize_tx
  <2>2. PICK ctx, inv : ctx = e.ctx[sl.id] /\ inv = (sl.state = "I2")
    OBVIOUS
  <2>3. sl.state \in {"S2", "I2"} /\ d.ctx[sl.id] # NoContext /\ inv \in BOOLEAN
    BY <1>2, <2>2
  <2>4. PICK f : Advances(g, f, w) /\ PayDb(f, w, e) /\ Good(w, e) /\ e.ctx[sl.id] # NoContext
    <3>1. CASE ~(sl.state = "S2" /\ d.ctx[sl.id].late)
      <4>1. e = d
        BY <2>1, <3>1 DEF Started
      <4>. QED  BY <1>0, <2>3, <4>1, AdvancesNot
    <3>2. CASE sl.state = "S2" /\ d.ctx[sl.id].late
      <4>1. PICK c \in Selectable(d, a, d.ctx[sl.id].amount) : e = LateLocked(w, d, a, sl, c)
        BY <2>1, <3>2 DEF Started
      <4>2. PICK f : f = Grown(g, w, sl.id, <<>>, Change(w, d, c, d.ctx[sl.id].amount))
        OBVIOUS
      <4>3. Delayed(g, f, w, d, a, sl, c)
        BY <1>0, <1>0a, <2>3, <3>2, <4>2 DEF Delayed
      <4>4. /\ PayDb(f, w, e) /\ Grows(g, f, w) /\ f.done = g.done
            /\ \A t \in Slates : f.offer[t] = g.offer[t]
        BY <4>1, <4>3, LatePays
      <4>5. Quiet(d, e) /\ e.ctx[sl.id] # NoContext
        BY <1>0, <2>3, <4>1, LateIsQuiet
      <4>6. Good(w, e)
        BY <1>0, <4>5, QuietIsGood
      <4>7. Advances(g, f, w)
        BY <4>4 DEF Advances
      <4>. QED  BY <4>4, <4>5, <4>6, <4>7
    <3>. QED  BY <3>1, <3>2
  <2>5. SlateOK(f, sl) /\ f.offer[sl.id] = g.offer[sl.id]
    <3>1. Grows(g, f, w)
      BY <2>4 DEF Advances
    <3>. QED  BY <1>0, <2>4, <3>1, SlateStays DEF Advances
  <2>6. CASE CanComplete(w, e, a, sl, ctx, inv)
    <3>1. r = Final(TRUE, finalize_db(w, e, a, sl, ctx, inv), finalize_slate(e, sl, ctx, inv))
      BY <2>1, <2>2, <2>6
    <3>2. PICK h, N, z : /\ h = Done(f, sl.id, Content(Finalized(Completed(e, sl, ctx, inv)).tx))
                         /\ N = finalize_slate(e, sl, ctx, inv) /\ z = finalize_db(w, e, a, sl, ctx, inv)
      OBVIOUS
    <3>3. ContextOK(w, e, sl.id)
      BY <1>0, <2>4 DEF Good
    <3>4. Finishing(D, S, f, w, e, a, sl, ctx, inv)
      BY <1>0, <1>0a, <2>2, <2>3, <2>4, <2>5, <2>6, <3>3 DEF Finishing
    <3>5. FinishedAs(f, h, w, sl.id, z, N)
      BY <2>3, <2>4, <3>2, <3>4, FinishPays
    <3>6. Advances(f, h, w)
      BY <3>5 DEF FinishedAs, Advances
    <3>7. Advances(g, h, w)
      BY <2>4, <3>6, AdvancesTwice
    <3>8. r.d = z /\ r.sl = N
      BY <3>1, <3>2 DEF Final
    <3>9. FinalizedAs(g, h, w, r)
      BY <3>5, <3>7, <3>8 DEF FinalizedAs, FinishedAs
    <3>. QED  BY <3>9
  <2>7. CASE ~CanComplete(w, e, a, sl, ctx, inv)
    <3>1. r = Final(FALSE, e, sl)
      BY <2>1, <2>2, <2>7
    <3>2. r.d = e /\ r.ok = FALSE
      BY <3>1 DEF Final
    <3>3. FinalizedAs(g, f, w, r)
      BY <2>4, <3>2 DEF FinalizedAs
    <3>. QED  BY <3>3
  <2>. QED  BY <2>6, <2>7
<1>. QED  BY <1>1, <1>2

-----------------------------------------------------------------------------
(* Messages and Tor.                                                       *)

(* The message of a good slate is read as a good slate.                    *)
LEMMA MessageIsOK ==
    ASSUME NEW h, NEW w, NEW a, NEW N, SlateOK(h, N), NEW dest, NEW m, m = Message(w, a, N, dest)
    PROVE  DOMAIN m = {"check", "data"} /\ SlateOK(h, get_slate(m, Nobody))
<1>1. PICK recs, snd : m = create_slatepack_message(N, snd, recs)
  BY DEF Message
<1>2. N.state \in SlateState
  BY DEF SlateOK
<1>3. Copy(get_slate(m, Nobody), N)
  BY <1>1, <1>2, MessageCopies
<1>4. SlateOK(h, get_slate(m, Nobody))
  BY <1>3, CopyIsOK
<1>5. DOMAIN m = {"check", "data"}
  BY <1>1 DEF create_slatepack_message, armor
<1>. QED  BY <1>4, <1>5

(* Writing it keeps the messages good.                                     *)
LEMMA MsgsWritten ==
    ASSUME NEW h, NEW w, NEW a, NEW N, SlateOK(h, N), NEW dest, NEW M, MsgsOK(h, M)
    PROVE  MsgsOK(h, M \cup {Message(w, a, N, dest)})
<1>1. PICK m : m = Message(w, a, N, dest)
  OBVIOUS
<1>2. DOMAIN m = {"check", "data"} /\ SlateOK(h, get_slate(m, Nobody))
  BY <1>1, MessageIsOK
<1>3. MsgsOK(h, M \cup {m})
  BY <1>2 DEF MsgsOK
<1>. QED  BY <1>1, <1>3

(* A damaged message that can be read was not damaged.                     *)
LEMMA MsgsDamaged ==
    ASSUME NEW h, NEW M, MsgsOK(h, M), NEW m \in M, CanDecode(m), NEW x
    PROVE  MsgsOK(h, M \cup {[m EXCEPT !.data = x]})
<1> DEFINE n == [m EXCEPT !.data = x]
<1>1. DOMAIN m = {"check", "data"} /\ SlateOK(h, get_slate(m, Nobody))
  BY DEF MsgsOK
<1>2. DOMAIN n = {"check", "data"} /\ n.check = m.check /\ n.data = x
  BY <1>1
<1>3. CanDecode(n) => n.data = m.data
  BY <1>2 DEF CanDecode
<1>4. CanDecode(n) => SlateOK(h, get_slate(n, Nobody))
  <2> SUFFICES ASSUME CanDecode(n) PROVE SlateOK(h, get_slate(n, Nobody))
    OBVIOUS
  <2>1. get_slate(n, Nobody) = get_slate(m, Nobody)
    BY <1>3 DEF get_slate
  <2>. QED  BY <1>1, <2>1
<1> HIDE DEF n
<1>5. MsgsOK(h, M \cup {n})
  BY <1>2, <1>4 DEF MsgsOK
<1>. QED  BY <1>5 DEF n

(* Whoever reads a message that decodes gets a good slate.                 *)
LEMMA ReadIsOK ==
    ASSUME NEW g, NEW M, MsgsOK(g, M), NEW m \in M, NEW a, CanDecode(m)
    PROVE  SlateOK(g, get_slate(m, a))
<1>1. get_slate(m, a) = get_slate(m, Nobody)
  BY DEF get_slate, try_decrypt_payload
<1>. QED  BY <1>1 DEF MsgsOK

(* A command that starts to wait with a good slate.                        *)
LEMMA TorBegins ==
    ASSUME NEW h, NEW T, DOMAIN T = Wallets, TorOK(h, T), NEW w \in Wallets, NEW cmd, NEW a, NEW N, NEW dest,
           SlateOK(h, N)
    PROVE  TorOK(h, [T EXCEPT ![w] = TorCmd(cmd, a, N, dest)])
<1>1. PICK t : t = TorCmd(cmd, a, N, dest)
  OBVIOUS
<1>2. t.sl = N /\ t.answer = <<>>
  BY <1>1 DEF TorCmd
<1>3. TorOK(h, [T EXCEPT ![w] = t])
  BY <1>2 DEF TorOK
<1>. QED  BY <1>1, <1>3

(* A good answer over Tor.                                                 *)
LEMMA TorAnswers ==
    ASSUME NEW h, NEW T, DOMAIN T = Wallets, TorOK(h, T), NEW v \in Wallets, T[v] # NoCmd,
           {"sl", "answer"} \subseteq DOMAIN T[v], NEW N, SlateOK(h, N)
    PROVE  TorOK(h, [T EXCEPT ![v].answer = <<over_tor(N)>>])
<1>1. SlateOK(h, over_tor(N))
  BY TorCopies, CopyIsOK
<1>2. PICK t : t = [T[v] EXCEPT !.answer = <<over_tor(N)>>]
  OBVIOUS
<1>3. t.sl = T[v].sl /\ t.answer = <<over_tor(N)>>
  BY <1>2
<1>4. SlateOK(h, t.sl) /\ SlateOK(h, t.answer[1])
  BY <1>1, <1>3 DEF TorOK
<1>5. TorOK(h, [T EXCEPT ![v] = t])
  BY <1>4 DEF TorOK
<1>6. [T EXCEPT ![v].answer = <<over_tor(N)>>] = [T EXCEPT ![v] = t]
  BY <1>2
<1>. QED  BY <1>5, <1>6

(* A command that stops waiting.                                           *)
LEMMA TorEnds ==
    ASSUME NEW h, NEW T, DOMAIN T = Wallets, TorOK(h, T), NEW w \in Wallets
    PROVE  TorOK(h, [T EXCEPT ![w] = NoCmd])
BY DEF TorOK

-----------------------------------------------------------------------------
(* What a step has to show.                                                *)

(* What a step has to show: the ghost has the offers A; what is newly      *)
(* settled is; what is newly posted is known.                              *)
AgreedAs(h, A) == DOMAIN A = Slates /\ \A s \in Slates : h.offer[s] = A[s] /\ OfferType(s, A[s])
Grounded(g, h) == \A s \in Slates : h.done[s] # g.done[s] => Settled(h, s)
PoolOK(h, P, Q) == \A tx \in Q : tx \in P \/ Known(h, tx)

(* What is said of the chain stays when it does.                           *)
LEMMA ChainStays ==
    ASSUME ChainOK, chain' = chain
    PROVE  ChainOK' /\ OnChain' = OnChain
BY DEF ChainOK, Made, OnChain, Spent

(* The parts of the invariant of NoNonceReuse used here.                   *)
LEMMA InvParts ==
    ASSUME Inv
    PROVE  /\ DOMAIN db = Wallets /\ DOMAIN tor = Wallets
           /\ \A w \in Wallets : Good(w, db[w])
           /\ \A w \in Wallets : tor[w] # NoCmd => {"sl", "answer"} \subseteq DOMAIN tor[w]
BY DEF Inv, DbOK, SlatesOK, Shapes, Good

(* The parts of the invariant of this module.                              *)
LEMMA PayInvParts ==
    ASSUME NEW g, PayInv(g)
    PROVE  /\ AgreedAs(g, agreed) /\ Grounded(g, g) /\ Typed(g)
           /\ \A s \in Slates : g.done[s] # NoTx => Settled(g, s)
           /\ \A w \in Wallets : PayDb(g, w, db[w])
           /\ MsgsOK(g, msgs) /\ TorOK(g, tor) /\ ChainOK
           /\ \A tx \in pool \cup OnChain : Known(g, tx)
BY DEF PayInv, Ghost, AgreedAs, Grounded, Typed, OfferType

(* A step of one wallet keeps the invariant if its books, the ghost and    *)
(* the slates it lets out are good: the other wallets' books are.          *)
LEMMA LedgerStep ==
    ASSUME Inv, NEW g, PayInv(g), NEW h, NEW w \in Wallets, NEW d, db' = [db EXCEPT ![w] = d],
           Grows(g, h, w), PayDb(h, w, d), AgreedAs(h, agreed'), Grounded(g, h),
           MsgsOK(h, msgs'), TorOK(h, tor'), chain' = chain, PoolOK(h, pool, pool')
    PROVE  PayInv(h)'
<1>1. Ghost(h)'
  <2>1. ASSUME NEW s \in Slates, h.done[s] # NoTx PROVE Settled(h, s)
    <3>1. CASE h.done[s] # g.done[s]
      BY <3>1 DEF Grounded
    <3>2. CASE h.done[s] = g.done[s]
      <4>1. Settled(g, s) /\ g.done[s] # NoTx
        BY <2>1, <3>2, PayInvParts
      <4>. QED  BY <4>1, SettledStays
    <3>. QED  BY <3>1, <3>2
  <2>. QED  BY <2>1 DEF Ghost, AgreedAs, OfferType
<1>2. \A v \in Wallets : PayDb(h, v, db'[v])
  <2> SUFFICES ASSUME NEW v \in Wallets PROVE PayDb(h, v, db'[v])
    OBVIOUS
  <2>1. CASE v = w
    BY <2>1, InvParts
  <2>2. CASE v # w
    <3>1. PayDb(g, v, db[v]) /\ Good(v, db[v]) /\ db'[v] = db[v]
      BY <2>2, InvParts, PayInvParts
    <3>2. PayDb(h, v, db[v])
      BY <2>2, <3>1, OtherDb
    <3>. QED  BY <3>1, <3>2
  <2>. QED  BY <2>1, <2>2
<1>3. ChainOK' /\ OnChain' = OnChain
  BY PayInvParts, ChainStays
<1>4. \A tx \in pool' \cup OnChain' : Known(h, tx)
  <2>1. \A tx \in pool \cup OnChain : Known(g, tx)
    BY PayInvParts
  <2>2. \A tx \in pool \cup OnChain : Known(h, tx)
    BY <2>1, KnownStays
  <2>. QED  BY <1>3, <2>2 DEF PoolOK
<1>. QED  BY <1>1, <1>2, <1>3, <1>4 DEF PayInv

(* The ghost may stay as it is.                                            *)
LEMMA GrowsNot ==
    ASSUME NEW g, NEW w
    PROVE  Grows(g, g, w)
BY DEF Grows

(* A step of one wallet that starts and settles nothing.                   *)
LEMMA SameGhost ==
    ASSUME Inv, NEW g, PayInv(g), NEW w \in Wallets, NEW d, db' = [db EXCEPT ![w] = d],
           PayDb(g, w, d), agreed' = agreed,
           MsgsOK(g, msgs'), TorOK(g, tor'), chain' = chain, PoolOK(g, pool, pool')
    PROVE  PayInv(g)'
<1>1. Grows(g, g, w) /\ AgreedAs(g, agreed') /\ Grounded(g, g)
  BY GrowsNot, PayInvParts
<1>. QED  BY <1>1, LedgerStep

(* A step that leaves every wallet alone.                                  *)
LEMMA SameDb ==
    ASSUME Inv, NEW g, PayInv(g), db' = db, agreed' = agreed,
           MsgsOK(g, msgs'), TorOK(g, tor'), chain' = chain, PoolOK(g, pool, pool')
    PROVE  PayInv(g)'
<1>1. Ghost(g)'
  BY DEF PayInv, Ghost
<1>2. ChainOK' /\ OnChain' = OnChain
  BY PayInvParts, ChainStays
<1>3. \A tx \in pool' \cup OnChain' : Known(g, tx)
  BY <1>2, PayInvParts DEF PoolOK
<1>4. \A v \in Wallets : PayDb(g, v, db'[v])
  BY PayInvParts
<1>. QED  BY <1>1, <1>2, <1>3, <1>4 DEF PayInv

(* A slate without an offer may be started.                                *)
LEMMA StartsNew ==
    ASSUME Inv, NEW g, PayInv(g), NEW w \in Wallets, NEW s \in Slates, agreed[s] = <<>>,
           NEW kind, NEW amount \in Amounts
    PROVE  Begins(g, w, db[w], s, kind, amount)
<1>1. g.offer[s] = <<>>
  BY PayInvParts DEF AgreedAs
<1>2. g.done[s] = NoTx
  BY <1>1, PayInvParts DEF Settled
<1>3. PayDb(g, w, db[w]) /\ Good(w, db[w])
  BY PayInvParts, InvParts
<1>. QED  BY <1>1, <1>2, <1>3 DEF Begins

(* Starting a slate: how the ghost changes.                                *)
Starts(g, h, w, s, o, C) ==
    /\ CanGrow(g, w, db[w], s, o, C) /\ h = Grown(g, w, s, o, C)
    /\ o \in {w} \X {"send", "invoice"} \X Amounts

(* It then has the offer that is recorded.                                 *)
LEMMA StartGhost ==
    ASSUME NEW g, PayInv(g), NEW h, NEW w \in Wallets, NEW s \in Slates, NEW o, NEW C,
           Starts(g, h, w, s, o, C), agreed' = [agreed EXCEPT ![s] = o]
    PROVE  Grows(g, h, w) /\ AgreedAs(h, agreed') /\ Grounded(g, h) /\ h.offer[s] = o
<1>1. GrownAs(g, h, w, s, o, C)
  BY GrownIs DEF Starts
<1>2. o # <<>> /\ OfferType(s, o)
  BY DEF Starts, OfferType
<1>3. AgreedAs(g, agreed)
  BY PayInvParts
<1>4. AgreedAs(h, agreed')
  BY <1>1, <1>2, <1>3 DEF AgreedAs, GrownAs
<1>. QED  BY <1>1, <1>2, <1>4 DEF GrownAs, Grounded

(* A slate made for the offer is a good offer.                             *)
LEMMA OfferIsOK ==
    ASSUME NEW h, NEW w, NEW s \in Slates, NEW o, h.offer[s] = o, o # <<>>, NEW N, N.id = s, N.state \in {"S1", "I1"},
           Keys(N) = {First(h, s)}, N.parts[First(h, s)] = NoSig, N.amount = o[3], o[3] \in Amounts,
           N.tx = NoTx
    PROVE  SlateOK(h, N)
<1>1. OfferOK(h, N) /\ N.amount \in Nat
  BY NotEmpty DEF OfferOK, Agreed
<1>2. N.state \in SlateState /\ N.state \notin {"S2", "I2", "S3", "I3"}
  BY DEF SlateState
<1>3. Unsigned(N.tx)
  BY DEF Unsigned
<1>. QED  BY <1>1, <1>2, <1>3 DEF SlateOK

-----------------------------------------------------------------------------
(* Commands that start a slate.                                            *)

(* A wallet has drawn a key and made a slate: what that leaves.            *)
Opened(g, h, w, A, d, N) ==
    /\ Grows(g, h, w) /\ AgreedAs(h, A) /\ Grounded(g, h) /\ PayDb(h, w, d)
    /\ SlateOK(h, N) /\ Formed(N)

(* init_send_tx leaves it.                                                 *)
LEMMA SendOpens ==
    ASSUME Inv, NEW g, PayInv(g), NEW w \in Wallets, NEW a, NEW s \in Slates, NEW amount \in Amounts,
           NEW ttl, NEW late \in BOOLEAN, NEW proof, NEW c \in Selectable(db[w], a, amount),
           agreed[s] = <<>>, NEW r, r = InitSend(w, a, s, amount, ttl, late, proof, c),
           Agree(s, w, "send", amount)
    PROVE  (\E h : Opened(g, h, w, agreed', r.d, r.sl)) /\ r.d.ctx[r.sl.id] # NoContext
<1>1. PICK d : d = db[w]
  OBVIOUS
<1>2. PICK sl : sl = InitSlate(s, amount, ttl)
  OBVIOUS
<1>3. PICK ctx : ctx = InitContext(w, d, a, sl, c, late, proof)
  OBVIOUS
<1>4. PICK o : o = <<w, "send", amount>>
  OBVIOUS
<1>5. PICK h : h = Grown(g, w, s, o, ctx.outs)
  OBVIOUS
<1>6. Begins(g, w, d, s, "send", amount)
  BY <1>1, StartsNew
<1>7. r.d = init_send_db(d, sl, ctx) /\ r.sl = init_send_slate(w, a, sl, ctx, proof)
  BY <1>1, <1>2, <1>3 DEF InitSend
<1>8. CanGrow(g, w, d, s, o, ctx.outs) /\ PayDb(h, w, r.d) /\ ctx.key = First(h, s) /\ r.d.ctx[s] # NoContext
  <2>1. c \in Selectable(d, a, amount)
    BY <1>1
  <2>. QED  BY <1>2, <1>3, <1>4, <1>5, <1>6, <1>7, <2>1, InitPays
<1>9. Starts(g, h, w, s, o, ctx.outs)
  BY <1>1, <1>4, <1>5, <1>8 DEF Starts
<1>10. agreed' = [agreed EXCEPT ![s] = o]
  BY <1>4 DEF Agree
<1>11. Grows(g, h, w) /\ AgreedAs(h, agreed') /\ Grounded(g, h) /\ h.offer[s] = o
  BY <1>9, <1>10, StartGhost
<1>12. PICK N : N = r.sl
  OBVIOUS
<1>13. /\ N.id = s /\ N.state = "S1" /\ Keys(N) = {ctx.key} /\ N.parts[ctx.key] = NoSig
       /\ N.amount = amount /\ N.tx = NoTx
  BY <1>2, <1>7, <1>12, SendIs
<1>14. o[3] = amount /\ o # <<>>
  BY <1>4
<1>15. SlateOK(h, N)
  BY <1>8, <1>11, <1>13, <1>14, OfferIsOK
<1>16. Formed(N)
  BY <1>2, <1>7, <1>12, SendOffers, FreshIsFormed
<1>17. Opened(g, h, w, agreed', r.d, r.sl)
  BY <1>8, <1>11, <1>12, <1>15, <1>16 DEF Opened
<1>18. r.sl.id = s
  BY <1>12, <1>13
<1>. QED  BY <1>8, <1>17, <1>18

(* Publishing a good slate keeps the messages good.                        *)
LEMMA Written ==
    ASSUME NEW h, NEW g, NEW w, Grows(g, h, w), MsgsOK(g, msgs), NEW v, NEW a, NEW N, SlateOK(h, N), NEW dest,
           Publish(Message(v, a, N, dest), N)
    PROVE  MsgsOK(h, msgs')
<1>1. MsgsOK(h, msgs)
  BY MsgsStay
<1>2. msgs' = msgs \cup {Message(v, a, N, dest)}
  BY DEF Publish
<1>. QED  BY <1>1, <1>2, MsgsWritten

(* The invariant: some ghost explains the state.                           *)
Agrees == \E g : PayInv(g)

(* A step that draws a key and writes its slate as a message.              *)
LEMMA OpenedWritten ==
    ASSUME Inv, NEW g, PayInv(g), NEW h, NEW w \in Wallets, NEW a, NEW d, NEW N, NEW dest,
           Grows(g, h, w), AgreedAs(h, agreed'), Grounded(g, h), PayDb(h, w, d), SlateOK(h, N),
           db' = [db EXCEPT ![w] = d], Publish(Message(w, a, N, dest), N),
           UNCHANGED <<tor, pool, chain>>
    PROVE  Agrees'
<1>1. MsgsOK(g, msgs) /\ TorOK(g, tor)
  BY PayInvParts
<1>2. MsgsOK(h, msgs') /\ TorOK(h, tor')
  BY <1>1, Written, TorStays
<1>3. PoolOK(h, pool, pool') /\ chain' = chain
  BY DEF PoolOK
<1>4. PayInv(h)'
  BY <1>2, <1>3, LedgerStep
<1>. QED  BY <1>4 DEF Agrees

(* The send command.                                                       *)
LEMMA SendPaid ==
    ASSUME Inv, NEW g, PayInv(g), NEW w \in Wallets, NEW a, NEW s \in Slates, NEW amount \in Amounts, NEW dest,
           NEW ttl, NEW late \in BOOLEAN, NEW proof, send(w, a, s, amount, ttl, dest, late, proof)
    PROVE  Agrees'
<1>1. agreed[s] = <<>> /\ Agree(s, w, "send", amount)
  BY DEF send, CanInit
<1>2. PICK c \in Selectable(db[w], a, amount) :
          LET r == InitSend(w, a, s, amount, ttl, late, proof, c)
          IN  /\ db' = [db EXCEPT ![w] = tx_lock_outputs(w, r.d, r.sl)]
              /\ Publish(Message(w, a, r.sl, dest), r.sl)
  BY DEF send
<1>3. PICK r : r = InitSend(w, a, s, amount, ttl, late, proof, c)
  OBVIOUS
<1>4. (\E h : Opened(g, h, w, agreed', r.d, r.sl)) /\ r.d.ctx[r.sl.id] # NoContext
  BY <1>1, <1>3, SendOpens
<1>5. PICK h : Opened(g, h, w, agreed', r.d, r.sl)
  BY <1>4
<1>6. PICK d, N, e : d = r.d /\ N = r.sl /\ e = tx_lock_outputs(w, d, N)
  OBVIOUS
<1>7. /\ Grows(g, h, w) /\ AgreedAs(h, agreed') /\ Grounded(g, h) /\ PayDb(h, w, d)
      /\ SlateOK(h, N) /\ Formed(N) /\ d.ctx[N.id] # NoContext
  BY <1>4, <1>5, <1>6 DEF Opened
<1>8. PayDb(h, w, e)
  BY <1>6, <1>7, LockDb
<1>9. db' = [db EXCEPT ![w] = e] /\ Publish(Message(w, a, N, dest), N)
  BY <1>2, <1>3, <1>6
<1>10. UNCHANGED <<tor, pool, chain>>
  BY DEF send
<1>. QED  BY <1>7, <1>8, <1>9, <1>10, OpenedWritten

(* init_send_tx by the owner API.                                          *)
LEMMA ApiInitPaid ==
    ASSUME Inv, NEW g, PayInv(g), NEW w \in Wallets, NEW a, NEW s \in Slates, NEW amount \in Amounts, NEW dest,
           NEW ttl, NEW late \in BOOLEAN, NEW proof, api_init_send_tx(w, a, s, amount, ttl, dest, late, proof)
    PROVE  Agrees'
<1>1. agreed[s] = <<>> /\ Agree(s, w, "send", amount)
  BY DEF api_init_send_tx, CanInit
<1>2. PICK c \in Selectable(db[w], a, amount) :
          LET r == InitSend(w, a, s, amount, ttl, late, proof, c)
          IN  /\ db' = [db EXCEPT ![w] = r.d]
              /\ Publish(Message(w, a, r.sl, dest), r.sl)
  BY DEF api_init_send_tx
<1>3. PICK r : r = InitSend(w, a, s, amount, ttl, late, proof, c)
  OBVIOUS
<1>4. \E h : Opened(g, h, w, agreed', r.d, r.sl)
  BY <1>1, <1>3, SendOpens
<1>5. PICK h : Opened(g, h, w, agreed', r.d, r.sl)
  BY <1>4
<1>6. PICK d, N : d = r.d /\ N = r.sl
  OBVIOUS
<1>7. /\ Grows(g, h, w) /\ AgreedAs(h, agreed') /\ Grounded(g, h) /\ PayDb(h, w, d)
      /\ SlateOK(h, N)
  BY <1>5, <1>6 DEF Opened
<1>9. db' = [db EXCEPT ![w] = d] /\ Publish(Message(w, a, N, dest), N)
  BY <1>2, <1>3, <1>6
<1>10. UNCHANGED <<tor, pool, chain>>
  BY DEF api_init_send_tx
<1>. QED  BY <1>7, <1>9, <1>10, OpenedWritten

(* The send command over Tor.                                              *)
LEMMA SendTorPaid ==
    ASSUME Inv, NEW g, PayInv(g), NEW w \in Wallets, NEW a, NEW s \in Slates, NEW amount \in Amounts, NEW dest,
           NEW ttl, NEW late \in BOOLEAN, NEW proof, send_tor(w, a, s, amount, ttl, dest, late, proof)
    PROVE  Agrees'
<1>1. agreed[s] = <<>> /\ Agree(s, w, "send", amount)
  BY DEF send_tor, CanInit
<1>2. PICK c \in Selectable(db[w], a, amount) :
          LET r == InitSend(w, a, s, amount, ttl, late, proof, c)
          IN  /\ db' = [db EXCEPT ![w] = r.d]
              /\ tor' = [tor EXCEPT ![w] = TorCmd("send", a, r.sl, dest)]
  BY DEF send_tor
<1>3. PICK r : r = InitSend(w, a, s, amount, ttl, late, proof, c)
  OBVIOUS
<1>4. \E h : Opened(g, h, w, agreed', r.d, r.sl)
  BY <1>1, <1>3, SendOpens
<1>5. PICK h : Opened(g, h, w, agreed', r.d, r.sl)
  BY <1>4
<1>6. PICK d, N : d = r.d /\ N = r.sl
  OBVIOUS
<1>7. /\ Grows(g, h, w) /\ AgreedAs(h, agreed') /\ Grounded(g, h) /\ PayDb(h, w, d)
      /\ SlateOK(h, N)
  BY <1>5, <1>6 DEF Opened
<1>8. db' = [db EXCEPT ![w] = d] /\ tor' = [tor EXCEPT ![w] = TorCmd("send", a, N, dest)]
  BY <1>2, <1>3, <1>6
<1>9. UNCHANGED <<msgs, pool, chain>>
  BY DEF send_tor
<1>10. MsgsOK(h, msgs) /\ TorOK(h, tor) /\ DOMAIN tor = Wallets
  BY <1>7, PayInvParts, InvParts, MsgsStay, TorStays
<1>11. TorOK(h, [tor EXCEPT ![w] = TorCmd("send", a, N, dest)])
  BY <1>7, <1>10, TorBegins
<1>12. MsgsOK(h, msgs') /\ TorOK(h, tor') /\ PoolOK(h, pool, pool') /\ chain' = chain
  BY <1>8, <1>9, <1>10, <1>11 DEF PoolOK
<1>13. PayInv(h)'
  BY <1>7, <1>8, <1>12, LedgerStep
<1>. QED  BY <1>13 DEF Agrees

(* The invoice command.                                                    *)
LEMMA InvoicePaid ==
    ASSUME Inv, NEW g, PayInv(g), NEW w \in Wallets, NEW a \in Accts, NEW s \in Slates, NEW amount \in Amounts, NEW dest,
           issue_invoice_tx(w, a, s, amount, dest)
    PROVE  Agrees'
<1>1. agreed[s] = <<>> /\ Agree(s, w, "invoice", amount)
  BY DEF issue_invoice_tx
<1>2. PICK d : d = db[w]
  OBVIOUS
<1>3. PICK sl : sl = InvoiceSlate(s, amount)
  OBVIOUS
<1>4. PICK ctx : ctx = build_recipient_output(w, d, a, sl)
  OBVIOUS
<1>5. PICK o : o = <<w, "invoice", amount>>
  OBVIOUS
<1>6. PICK h, e, N : h = Grown(g, w, s, o, ctx.outs) /\ e = issue_db(d, a, sl, ctx) /\ N = issue_slate(sl, ctx)
  OBVIOUS
<1>7. db' = [db EXCEPT ![w] = e] /\ Publish(Message(w, a, N, dest), N) /\ UNCHANGED <<tor, pool, chain>>
  BY <1>2, <1>3, <1>4, <1>6 DEF issue_invoice_tx
<1>8. Begins(g, w, d, s, "invoice", amount)
  BY <1>1, <1>2, StartsNew
<1>9. CanGrow(g, w, d, s, o, ctx.outs) /\ PayDb(h, w, e) /\ ctx.key = First(h, s)
  BY <1>3, <1>4, <1>5, <1>6, <1>8, IssuePays
<1>10. Starts(g, h, w, s, o, ctx.outs)
  BY <1>2, <1>5, <1>6, <1>9 DEF Starts
<1>11. agreed' = [agreed EXCEPT ![s] = o]
  BY <1>1, <1>5 DEF Agree
<1>12. Grows(g, h, w) /\ AgreedAs(h, agreed') /\ Grounded(g, h) /\ h.offer[s] = o
  BY <1>10, <1>11, StartGhost
<1>13. /\ N.id = s /\ N.state = "I1" /\ Keys(N) = {ctx.key} /\ N.parts[ctx.key] = NoSig
       /\ N.amount = amount /\ N.tx = NoTx
  BY <1>3, <1>6, InvoiceIs
<1>14. o[3] = amount /\ o # <<>>
  BY <1>5
<1>15. SlateOK(h, N)
  BY <1>9, <1>12, <1>13, <1>14, OfferIsOK
<1>. QED  BY <1>7, <1>9, <1>12, <1>15, OpenedWritten

-----------------------------------------------------------------------------
(* Commands that receive.                                                  *)

(* A slate that comes in.                                                  *)
Incoming(g, sl) == SlateOK(g, sl) /\ GoodSlate(db, seen, sl) /\ Formed(sl) /\ sl.id \in Slates

(* A copy of a slate in flight, good for the ghost, is good for both       *)
(* invariants.                                                             *)
LEMMA GoodIn ==
    ASSUME Inv, NEW g, NEW sl, SlateOK(g, sl), Formed(sl), NEW q \in Flying(msgs, tor), Same(sl, q)
    PROVE  Incoming(g, sl)
<1>1. GoodSlate(db, seen, sl) /\ sl.id \in Slates
  BY IncomingIsGood
<1>. QED  BY <1>1 DEF Incoming

(* So is what a command reads from a message.                              *)
LEMMA MessageIn ==
    ASSUME Inv, NEW g, PayInv(g), NEW w \in Wallets, NEW a \in Accts, NEW m \in msgs,
           Readable(m, Address0(w, a))
    PROVE  Incoming(g, get_slate(m, Address0(w, a)))
<1>1. PICK sl : sl = get_slate(m, Address0(w, a))
  OBVIOUS
<1>2. sl \in Flying(msgs, tor) /\ Formed(sl) /\ Same(sl, sl)
  BY <1>1, MessageIsFlying
<1>3. CanDecode(m) /\ MsgsOK(g, msgs)
  BY PayInvParts DEF Readable
<1>4. SlateOK(g, sl)
  BY <1>1, <1>3, ReadIsOK
<1>5. Incoming(g, sl)
  BY <1>2, <1>4, GoodIn
<1>. QED  BY <1>1, <1>5

(* So is what the foreign API is given, and what a command keeps.          *)
LEMMA TorIn ==
    ASSUME Inv, NEW g, PayInv(g), NEW v \in Wallets, tor[v] # NoCmd
    PROVE  Incoming(g, over_tor(tor[v].sl)) /\ Incoming(g, tor[v].sl)
<1>1. PICK q, sl : q = tor[v].sl /\ sl = over_tor(q)
  OBVIOUS
<1>2. q \in Flying(msgs, tor) /\ Same(sl, q) /\ Formed(sl)
  BY <1>1, SentIsFlying
<1>3. SlateOK(g, q)
  BY <1>1, PayInvParts DEF TorOK
<1>4. Copy(sl, q)
  BY <1>1, TorCopies
<1>5. SlateOK(g, sl)
  BY <1>3, <1>4, CopyIsOK
<1>6. Incoming(g, sl)
  BY <1>2, <1>5, GoodIn
<1>7. GoodSlate(db, seen, q)
  BY <1>2 DEF Inv, SlatesOK
<1>8. Formed(q) /\ q.id \in Slates
  BY <1>7 DEF GoodSlate
<1>9. Incoming(g, q)
  BY <1>3, <1>7, <1>8 DEF Incoming
<1>. QED  BY <1>1, <1>6, <1>9

(* So is an answer.                                                        *)
LEMMA AnswerIn ==
    ASSUME Inv, NEW g, PayInv(g), NEW v \in Wallets, tor[v] # NoCmd, tor[v].answer # <<>>
    PROVE  Incoming(g, tor[v].answer[1])
<1>1. PICK q : q = tor[v].answer[1]
  OBVIOUS
<1>2. q \in Flying(msgs, tor)
  BY <1>1 DEF Flying
<1>3. SlateOK(g, q)
  BY <1>1, PayInvParts DEF TorOK
<1>4. GoodSlate(db, seen, q)
  BY <1>2 DEF Inv, SlatesOK
<1>5. Formed(q) /\ q.id \in Slates
  BY <1>4 DEF GoodSlate
<1>6. Incoming(g, q)
  BY <1>3, <1>4, <1>5 DEF Incoming
<1>. QED  BY <1>1, <1>6

(* A wallet that can draw may join an incoming slate.                      *)
LEMMA JoinsIn ==
    ASSUME Inv, NEW g, PayInv(g), NEW w \in Wallets, NEW sl, Incoming(g, sl), CanDraw(db[w], sl.id)
    PROVE  Joins(g, w, db[w], sl)
<1>1. PayDb(g, w, db[w]) /\ Good(w, db[w])
  BY PayInvParts, InvParts
<1>2. sl.id \in Slates /\ sl.amount \in Nat /\ g.offer[sl.id] # <<>>
  BY DEF Incoming, SlateOK
<1>. QED  BY <1>1, <1>2 DEF Joins

(* It can sign only an offer, with a key that is new to it.                *)
LEMMA CosignsIn ==
    ASSUME Inv, NEW g, NEW w \in Wallets, NEW sl, Incoming(g, sl), NEW ctx, NewKeyed(w, db[w], sl.id, ctx),
           NEW x, DOMAIN x = SlateFields, x.parts = sl.parts, CanCosign(x, ctx.key)
    PROVE  Cosigns(g, w, db[w], sl, ctx)
<1>1. PICK k : k = ctx.key
  OBVIOUS
<1>2. k = NextKey(w, db[w], sl.id) /\ ctx.initKey = ctx.key /\ DOMAIN ctx = ContextFields
  BY <1>1 DEF NewKeyed
<1>3. GoodSlate(db, seen, sl) /\ SlateOK(g, sl) /\ Formed(sl) /\ sl.id \in Slates
  BY DEF Incoming
<1>4. ~DrawnKey(db, k)
  BY <1>2, <1>3, NextIsUndrawn
<1>5. Seen(db, seen)
  BY DEF Inv, SeenOK, Seen
<1>6. sl.state \in {"S1", "I1"} /\ DOMAIN sl.offset = {} /\ k \notin Keys(sl)
  BY <1>1, <1>3, <1>4, <1>5, CosignNeedsOffer
<1>7. OfferOK(g, sl)
  BY <1>3, <1>6 DEF SlateOK
<1>. QED  BY <1>1, <1>2, <1>3, <1>6, <1>7 DEF Cosigns

(* The ghost after it joined.                                              *)
LEMMA JoinGhost ==
    ASSUME NEW g, PayInv(g), NEW h, NEW w \in Wallets, NEW d, NEW s, NEW C,
           CanGrow(g, w, d, s, <<>>, C), h = Grown(g, w, s, <<>>, C)
    PROVE  Grows(g, h, w) /\ AgreedAs(h, agreed) /\ Grounded(g, h) /\ GrownAs(g, h, w, s, <<>>, C)
<1>0. PICK o : o = <<>>
  OBVIOUS
<1>1. GrownAs(g, h, w, s, o, C)
  BY <1>0, GrownIs
<1>2. AgreedAs(g, agreed)
  BY PayInvParts
<1>3. AgreedAs(h, agreed)
  BY <1>0, <1>1, <1>2 DEF AgreedAs, GrownAs
<1>. QED  BY <1>0, <1>1, <1>3 DEF GrownAs, Grounded

(* receive_tx leaves books and reply as they should be.                    *)
LEMMA ReceiveJoins ==
    ASSUME MaxCtx <= 2, Inv, NEW g, PayInv(g), NEW w \in Wallets, NEW a \in Accts, NEW sl, Incoming(g, sl),
           ReceiveOk(w, a, sl)
    PROVE  \E h, d : /\ db' = [db EXCEPT ![w] = d]
                     /\ Opened(g, h, w, agreed, d, Reply(w, a, sl))
<1>1. PICK d : d = db[w]
  OBVIOUS
<1>2. PICK ctx : ctx = build_recipient_output(w, d, a, sl)
  OBVIOUS
<1>3. PICK s, o, N, e : /\ s = sl.id /\ o = <<>> /\ N = receive_slate(w, a, sl, ctx)
                        /\ e = receive_db(w, d, a, sl, ctx)
  OBVIOUS
<1>4. PICK h : h = Grown(g, w, s, o, ctx.outs)
  OBVIOUS
<1>5. CanReceive(d, a, sl) /\ CanCosign(sl, ctx.key) /\ db' = [db EXCEPT ![w] = e]
  BY <1>1, <1>2, <1>3 DEF ReceiveOk, ReceiveContext
<1>6. N = Reply(w, a, sl)
  BY <1>1, <1>2, <1>3 DEF Reply, ReceiveContext
<1>7. HasRoom(d, a) /\ CanDraw(d, sl.id)
  BY <1>5 DEF CanReceive
<1>8. Joins(g, w, d, sl)
  BY <1>1, <1>7, JoinsIn
<1>9. NewKeyed(w, d, sl.id, ctx)
  BY <1>2, BuiltContexts
<1>10. DOMAIN sl = SlateFields
  BY DEF Incoming, Formed
<1>11. Cosigns(g, w, d, sl, ctx)
  <2>1. PICK x : x = sl
    OBVIOUS
  <2>2. DOMAIN x = SlateFields /\ x.parts = sl.parts /\ CanCosign(x, ctx.key)
    BY <1>5, <1>10, <2>1
  <2>3. Cosigns(g, w, db[w], sl, ctx)
    BY <1>1, <1>9, <2>2, CosignsIn
  <2>. QED  BY <1>1, <2>3
<1>12. CanGrow(g, w, d, s, o, ctx.outs) /\ PayDb(h, w, e) /\ SlateOK(h, N)
  BY <1>2, <1>3, <1>4, <1>7, <1>8, <1>11, ReceivePays
<1>13. Grows(g, h, w) /\ AgreedAs(h, agreed) /\ Grounded(g, h)
  BY <1>3, <1>4, <1>12, JoinGhost
<1>14. Formed(N)
  <2>1. ctx.key \notin Keys(sl) /\ ctx.initKey = ctx.key /\ OfferOK(g, sl) /\ DOMAIN sl.offset = {}
    BY <1>11 DEF Cosigns
  <2>2. PICK F : F = {sl}
    OBVIOUS
  <2>3. sl.state \in {"S1", "I1"}
    <3>1. ~DrawnKey(db, ctx.key)
      BY <1>1, <1>9, NextIsUndrawn DEF NewKeyed, Incoming
    <3>2. Seen(db, seen) /\ GoodSlate(db, seen, sl)
      BY DEF Inv, SeenOK, Seen, Incoming
    <3>. QED  BY <1>5, <1>10, <3>1, <3>2, CosignNeedsOffer
  <2>4. Same(sl, sl) /\ sl \in F /\ Formed(sl) /\ sl.id \in Slates
    BY <2>2 DEF Same, Incoming
  <2>5. Fresh(N, ctx.key, F)
    BY <1>3, <2>1, <2>3, <2>4, ReplyIsFresh
  <2>. QED  BY <2>5, FreshIsFormed
<1>15. Opened(g, h, w, agreed, e, N)
  BY <1>12, <1>13, <1>14 DEF Opened
<1>. QED  BY <1>5, <1>6, <1>15

(* A step that joins a slate and writes the answer as a message.           *)
LEMMA JoinedWritten ==
    ASSUME Inv, NEW g, PayInv(g), NEW h, NEW w \in Wallets, NEW a, NEW d, NEW N, NEW dest,
           Opened(g, h, w, agreed, d, N), db' = [db EXCEPT ![w] = d],
           Publish(Message(w, a, N, dest), N), UNCHANGED <<tor, pool, chain, agreed>>
    PROVE  Agrees'
<1>1. Grows(g, h, w) /\ AgreedAs(h, agreed') /\ Grounded(g, h) /\ PayDb(h, w, d) /\ SlateOK(h, N)
  BY DEF Opened
<1>. QED  BY <1>1, OpenedWritten

(* A step that joins a slate and gives the answer to Tor.                  *)
LEMMA JoinedSent ==
    ASSUME Inv, NEW g, PayInv(g), NEW h, NEW w \in Wallets, NEW d, NEW N,
           Opened(g, h, w, agreed, d, N), db' = [db EXCEPT ![w] = d],
           TorOK(h, tor) => TorOK(h, tor'), UNCHANGED <<msgs, pool, chain, agreed>>
    PROVE  Agrees'
<1>1. Grows(g, h, w) /\ AgreedAs(h, agreed') /\ Grounded(g, h) /\ PayDb(h, w, d)
  BY DEF Opened
<1>2. MsgsOK(h, msgs) /\ TorOK(h, tor)
  BY <1>1, PayInvParts, MsgsStay, TorStays
<1>3. MsgsOK(h, msgs') /\ TorOK(h, tor') /\ PoolOK(h, pool, pool') /\ chain' = chain
  BY <1>2 DEF PoolOK
<1>4. PayInv(h)'
  BY <1>1, <1>3, LedgerStep
<1>. QED  BY <1>4 DEF Agrees

(* receive_tx that refuses the slate after it saved the output.            *)
LEMMA ReceiveFailPaid ==
    ASSUME MaxCtx <= 2, Inv, NEW g, PayInv(g), NEW w \in Wallets, NEW a \in Accts, NEW sl, Incoming(g, sl),
           ReceiveFails(w, a, sl), UNCHANGED <<msgs, tor, pool, chain, agreed>>
    PROVE  Agrees'
<1>1. PICK d : d = db[w]
  OBVIOUS
<1>2. PICK ctx : ctx = build_recipient_output(w, d, a, sl)
  OBVIOUS
<1>3. PICK s, o, e : s = sl.id /\ o = <<>> /\ e = ReceivedDb(d, a, sl, ctx)
  OBVIOUS
<1>4. PICK h : h = Grown(g, w, s, o, ctx.outs)
  OBVIOUS
<1>5. CanReceive(d, a, sl) /\ db' = [db EXCEPT ![w] = e]
  BY <1>1, <1>2, <1>3 DEF ReceiveFails, ReceiveContext
<1>6. HasRoom(d, a) /\ CanDraw(d, sl.id)
  BY <1>5 DEF CanReceive
<1>7. Joins(g, w, d, sl)
  BY <1>1, <1>6, JoinsIn
<1>8. CanGrow(g, w, d, s, o, ctx.outs) /\ PayDb(h, w, e)
  BY <1>2, <1>3, <1>4, <1>6, <1>7, ReceivedPays
<1>9. Grows(g, h, w) /\ AgreedAs(h, agreed) /\ Grounded(g, h)
  BY <1>3, <1>4, <1>8, JoinGhost
<1>10. MsgsOK(h, msgs) /\ TorOK(h, tor)
  BY <1>9, PayInvParts, MsgsStay, TorStays
<1>11. /\ MsgsOK(h, msgs') /\ TorOK(h, tor') /\ PoolOK(h, pool, pool') /\ chain' = chain
       /\ AgreedAs(h, agreed')
  BY <1>9, <1>10 DEF PoolOK
<1>12. PayInv(h)'
  BY <1>5, <1>8, <1>9, <1>11, LedgerStep
<1>. QED  BY <1>12 DEF Agrees

(* The receive command.                                                    *)
LEMMA ReceivePaid ==
    ASSUME MaxCtx <= 2, Inv, NEW g, PayInv(g), NEW w \in Wallets, NEW a \in Accts, NEW m \in msgs,
           receive(w, a, m)
    PROVE  Agrees'
<1>1. PICK sl, dest : sl = get_slate(m, Address0(w, a)) /\ dest = get_sender(m, Address0(w, a))
  OBVIOUS
<1>2. Incoming(g, sl)
  BY <1>1, MessageIn DEF receive
<1>3. UNCHANGED <<pool, chain, agreed>>
  BY DEF receive
<1>4. CASE /\ ReceiveOk(w, a, sl)
           /\ Publish(Message(w, a, Reply(w, a, sl), dest), Reply(w, a, sl)) /\ UNCHANGED tor
  <2>1. PICK h, d : db' = [db EXCEPT ![w] = d] /\ Opened(g, h, w, agreed, d, Reply(w, a, sl))
    BY <1>2, <1>4, ReceiveJoins
  <2>2. PICK N : N = Reply(w, a, sl)
    OBVIOUS
  <2>3. Opened(g, h, w, agreed, d, N) /\ Publish(Message(w, a, N, dest), N)
    BY <1>4, <2>1, <2>2
  <2>. QED  BY <1>3, <1>4, <2>1, <2>3, JoinedWritten
<1>5. CASE /\ ReceiveOk(w, a, sl)
           /\ tor' = [tor EXCEPT ![w] = TorCmd("reply", a, Reply(w, a, sl), dest)] /\ UNCHANGED msgs
  <2>1. PICK h, d : db' = [db EXCEPT ![w] = d] /\ Opened(g, h, w, agreed, d, Reply(w, a, sl))
    BY <1>2, <1>5, ReceiveJoins
  <2>2. PICK N : N = Reply(w, a, sl)
    OBVIOUS
  <2>3. Opened(g, h, w, agreed, d, N) /\ SlateOK(h, N)
    BY <2>1, <2>2 DEF Opened
  <2>4. TorOK(h, tor) => TorOK(h, tor')
    BY <1>5, <2>2, <2>3, InvParts, TorBegins
  <2>. QED  BY <1>3, <1>5, <2>1, <2>3, <2>4, JoinedSent
<1>6. CASE ReceiveFails(w, a, sl) /\ UNCHANGED <<msgs, tor>>
  BY <1>2, <1>3, <1>6, ReceiveFailPaid
<1>. QED  BY <1>1, <1>4, <1>5, <1>6 DEF receive

(* receive_tx of the foreign API.                                          *)
LEMMA ForeignReceivePaid ==
    ASSUME MaxCtx <= 2, Inv, NEW g, PayInv(g), NEW w \in Wallets, NEW a \in Accts, NEW v \in Wallets,
           foreign_receive_tx(w, a, v)
    PROVE  Agrees'
<1>1. PICK sl : sl = over_tor(tor[v].sl)
  OBVIOUS
<1>2. tor[v] # NoCmd
  BY DEF foreign_receive_tx, Waiting
<1>3. Incoming(g, sl)
  BY <1>1, <1>2, TorIn
<1>4. UNCHANGED <<msgs, pool, chain, agreed>> /\ ReceiveOk(w, a, sl) /\ Answer(v, Reply(w, a, sl))
  BY <1>1 DEF foreign_receive_tx
<1>5. PICK h, d : db' = [db EXCEPT ![w] = d] /\ Opened(g, h, w, agreed, d, Reply(w, a, sl))
  BY <1>3, <1>4, ReceiveJoins
<1>6. PICK N : N = Reply(w, a, sl)
  OBVIOUS
<1>7. Opened(g, h, w, agreed, d, N) /\ SlateOK(h, N)
  BY <1>5, <1>6 DEF Opened
<1>8. tor' = [tor EXCEPT ![v].answer = <<over_tor(N)>>]
  BY <1>4, <1>6 DEF Answer
<1>9. TorOK(h, tor) => TorOK(h, tor')
  BY <1>2, <1>7, <1>8, InvParts, TorAnswers
<1>. QED  BY <1>4, <1>5, <1>7, <1>9, JoinedSent

-----------------------------------------------------------------------------
(* Commands that pay and finalize.                                         *)

(* process_invoice_tx leaves books and answer as they should be.           *)
LEMMA PayJoins ==
    ASSUME MaxCtx <= 2, Inv, NEW g, PayInv(g), NEW w \in Wallets, NEW a \in Accts, NEW sl, Incoming(g, sl),
           CanPay(db[w], a, sl), NEW c \in Selectable(db[w], a, sl.amount),
           NEW ctx, ctx = build_send_tx(w, db[w], a, sl, c), CanCosign([sl EXCEPT !.fee = Fee], ctx.key),
           NEW e, e = pay_db(db[w], sl, ctx), NEW N, N = pay_slate(db[w], sl, ctx)
    PROVE  (\E h : Opened(g, h, w, agreed, e, N)) /\ e.ctx[N.id] # NoContext
<1>1. PICK d : d = db[w]
  OBVIOUS
<1>2. PICK s, o, C : s = sl.id /\ o = <<>> /\ C = Change(w, d, c, sl.amount)
  OBVIOUS
<1>3. PICK h : h = Grown(g, w, s, o, ctx.outs)
  OBVIOUS
<1>4. CanDraw(d, sl.id)
  BY <1>1 DEF CanPay
<1>5. Joins(g, w, d, sl)
  BY <1>1, <1>4, JoinsIn
<1>6. NewKeyed(w, d, sl.id, ctx)
  BY <1>1, BuiltContexts
<1>7. PICK x : x = [sl EXCEPT !.fee = Fee]
  OBVIOUS
<1>8. DOMAIN sl = SlateFields
  BY DEF Incoming, Formed
<1>9. DOMAIN x = SlateFields /\ x.parts = sl.parts /\ CanCosign(x, ctx.key)
  BY <1>7, <1>8 DEF SlateFields
<1>10. Cosigns(g, w, d, sl, ctx)
  <2>1. Cosigns(g, w, db[w], sl, ctx)
    BY <1>1, <1>6, <1>9, CosignsIn
  <2>. QED  BY <1>1, <2>1
<1>11. PayDb(g, w, d) /\ sl.amount \in Nat /\ s \in Slates
  BY <1>2, <1>5 DEF Joins
<1>12. Selected(w, d, c, sl.amount)
  BY <1>1, <1>11, SelectedIs
<1>13. /\ NewOuts(w, d, C) /\ Coins(w, C) /\ Total(C) \in Nat
       /\ c.value = sl.amount + Fee + Total(C) /\ Coins(w, {c})
  BY <1>2, <1>11, <1>12, SelectedChange
<1>14. ctx.ins = {c} /\ ctx.outs = C /\ ctx.late = FALSE
  <2>1. Holds(ctx, {c}, Change(w, d, c, sl.amount), sl.amount, Fee, FALSE)
    BY <1>1, SendHolds
  <2>. QED  BY <1>2, <2>1 DEF Holds
<1>15. CanGrow(g, w, d, s, o, ctx.outs)
  BY <1>2, <1>11, <1>13, <1>14 DEF CanGrow, PayDb
<1>16. Grows(g, h, w) /\ AgreedAs(h, agreed) /\ Grounded(g, h) /\ GrownAs(g, h, w, s, <<>>, ctx.outs)
  BY <1>2, <1>3, <1>15, JoinGhost
<1>17. Spends(g, h, w, d, sl, ctx, c)
  BY <1>2, <1>5, <1>10, <1>13, <1>14, <1>16 DEF Spends
<1>18. SlateOK(h, N) /\ N.id = sl.id
  BY <1>1, <1>17, PaymentIsOK
<1>19. PayDb(h, w, e) /\ e.ctx[s] # NoContext
  BY <1>1, <1>2, <1>3, <1>15, <1>17, PayPays
<1>20. Formed(N)
  <2>1. ctx.key \notin Keys(sl) /\ ctx.initKey = ctx.key /\ DOMAIN sl.offset = {} /\ DOMAIN ctx = ContextFields
    BY <1>10 DEF Cosigns
  <2>2. PICK F : F = {sl}
    OBVIOUS
  <2>3. sl.state \in {"S1", "I1"}
    <3>1. ~DrawnKey(db, ctx.key)
      BY <1>1, <1>6, NextIsUndrawn DEF NewKeyed, Incoming
    <3>2. Seen(db, seen) /\ GoodSlate(db, seen, sl)
      BY DEF Inv, SeenOK, Seen, Incoming
    <3>. QED  BY <1>9, <3>1, <3>2, CosignNeedsOffer
  <2>4. Same(sl, sl) /\ sl \in F /\ Formed(sl) /\ sl.id \in Slates
    BY <2>2 DEF Same, Incoming
  <2>5. Fresh(N, ctx.key, F)
    BY <1>1, <2>1, <2>3, <2>4, PaymentIsFresh
  <2>. QED  BY <2>5, FreshIsFormed
<1>21. Opened(g, h, w, agreed, e, N)
  BY <1>16, <1>18, <1>19, <1>20 DEF Opened
<1>. QED  BY <1>2, <1>18, <1>19, <1>21

(* Locking what was drawn leaves them so.                                  *)
LEMMA OpenedLocked ==
    ASSUME NEW g, NEW h, NEW w \in Wallets, NEW A, NEW d, NEW N, Opened(g, h, w, A, d, N), d.ctx[N.id] # NoContext
    PROVE  Opened(g, h, w, A, tx_lock_outputs(w, d, N), N)
<1>1. PICK e : e = tx_lock_outputs(w, d, N)
  OBVIOUS
<1>2. PayDb(h, w, d) /\ SlateOK(h, N) /\ Formed(N)
  BY DEF Opened
<1>3. PayDb(h, w, e)
  BY <1>1, <1>2, LockDb
<1>4. Opened(g, h, w, A, e, N)
  BY <1>3 DEF Opened
<1>. QED  BY <1>1, <1>4

(* The pay command.                                                        *)
LEMMA PayPaid ==
    ASSUME MaxCtx <= 2, Inv, NEW g, PayInv(g), NEW w \in Wallets, NEW a \in Accts, NEW m \in msgs,
           process_invoice(w, a, m)
    PROVE  Agrees'
<1>1. PICK sl, dest : sl = get_slate(m, Address0(w, a)) /\ dest = get_sender(m, Address0(w, a))
  OBVIOUS
<1>2. Incoming(g, sl)
  BY <1>1, MessageIn DEF process_invoice
<1>3. UNCHANGED <<pool, chain, agreed>> /\ CanPay(db[w], a, sl)
  BY <1>1 DEF process_invoice
<1>4. PICK c \in Selectable(db[w], a, sl.amount) :
         LET ctx == build_send_tx(w, db[w], a, sl, c)
             d == pay_db(db[w], sl, ctx)
             out == pay_slate(db[w], sl, ctx)
         IN  /\ CanCosign([sl EXCEPT !.fee = Fee], ctx.key)
             /\ \/ /\ db' = [db EXCEPT ![w] = tx_lock_outputs(w, d, out)]
                   /\ Publish(Message(w, a, out, dest), out) /\ UNCHANGED tor
                \/ /\ db' = [db EXCEPT ![w] = d]
                   /\ tor' = [tor EXCEPT ![w] = TorCmd("pay", a, out, dest)] /\ UNCHANGED msgs
  BY <1>1 DEF process_invoice
<1>5. PICK ctx : ctx = build_send_tx(w, db[w], a, sl, c)
  OBVIOUS
<1>6. PICK e, N : e = pay_db(db[w], sl, ctx) /\ N = pay_slate(db[w], sl, ctx)
  OBVIOUS
<1>7. /\ CanCosign([sl EXCEPT !.fee = Fee], ctx.key)
      /\ \/ /\ db' = [db EXCEPT ![w] = tx_lock_outputs(w, e, N)]
            /\ Publish(Message(w, a, N, dest), N) /\ UNCHANGED tor
         \/ /\ db' = [db EXCEPT ![w] = e]
            /\ tor' = [tor EXCEPT ![w] = TorCmd("pay", a, N, dest)] /\ UNCHANGED msgs
  BY <1>4, <1>5, <1>6
<1>8. (\E h : Opened(g, h, w, agreed, e, N)) /\ e.ctx[N.id] # NoContext
  BY <1>2, <1>3, <1>5, <1>6, <1>7, PayJoins
<1>9. PICK h : Opened(g, h, w, agreed, e, N)
  BY <1>8
<1>10. CASE /\ db' = [db EXCEPT ![w] = tx_lock_outputs(w, e, N)]
            /\ Publish(Message(w, a, N, dest), N) /\ UNCHANGED tor
  <2>1. PICK f : f = tx_lock_outputs(w, e, N)
    OBVIOUS
  <2>2. Opened(g, h, w, agreed, f, N) /\ db' = [db EXCEPT ![w] = f]
    BY <1>8, <1>9, <1>10, <2>1, OpenedLocked
  <2>. QED  BY <1>3, <1>10, <2>2, JoinedWritten
<1>11. CASE /\ db' = [db EXCEPT ![w] = e]
            /\ tor' = [tor EXCEPT ![w] = TorCmd("pay", a, N, dest)] /\ UNCHANGED msgs
  <2>1. SlateOK(h, N)
    BY <1>9 DEF Opened
  <2>2. TorOK(h, tor) => TorOK(h, tor')
    BY <1>11, <2>1, InvParts, TorBegins
  <2>. QED  BY <1>3, <1>9, <1>11, <2>2, JoinedSent
<1>. QED  BY <1>7, <1>10, <1>11

(* finalize_tx of an incoming slate, for the whole invariant.              *)
LEMMA FinishesIn ==
    ASSUME 0 \notin Amounts, Inv, NEW g, PayInv(g), NEW w \in Wallets, NEW d, PayDb(g, w, d), Good(w, d),
           NEW a, NEW sl, Incoming(g, sl), NEW r \in finalize_tx(w, d, a, sl)
    PROVE  \E h : FinalizedAs(g, h, w, r) /\ AgreedAs(h, agreed) /\ Grounded(g, h) /\ Grows(g, h, w)
<1>1. PICK D, S : D = db /\ S = seen
  OBVIOUS
<1>2. Typed(g) /\ AgreedAs(g, agreed)
  BY PayInvParts
<1>3. Finalizes(D, S, g, w, d, sl)
  BY <1>1, <1>2 DEF Finalizes, Incoming
<1>4. PICK h : FinalizedAs(g, h, w, r)
  BY <1>3, FinalizePays
<1>5. Advances(g, h, w)
  BY <1>4 DEF FinalizedAs
<1>6. AgreedAs(h, agreed) /\ Grounded(g, h) /\ Grows(g, h, w)
  BY <1>2, <1>5 DEF Advances, AgreedAs, Grounded
<1>. QED  BY <1>4, <1>6

(* Posting a known transaction.                                            *)
LEMMA PostedIsOK ==
    ASSUME NEW h, NEW tx, Known(h, tx)
    PROVE  PoolOK(h, pool, Posted(tx))
BY DEF PoolOK, Posted

(* The finalize command.                                                   *)
LEMMA FinalizePaid ==
    ASSUME 0 \notin Amounts, Inv, NEW g, PayInv(g), NEW w \in Wallets, NEW a \in Accts, NEW m \in msgs, NEW nopost,
           finalize(w, a, m, nopost)
    PROVE  Agrees'
<1>1. PICK sl, d : sl = get_slate(m, Address0(w, a)) /\ d = db[w]
  OBVIOUS
<1>2. Incoming(g, sl)
  BY <1>1, MessageIn DEF finalize
<1>3. UNCHANGED <<tor, chain, agreed>>
  BY DEF finalize
<1>4. PICK r \in finalize_tx(w, d, a, sl) :
          /\ db' = [db EXCEPT ![w] = r.d]
          /\ IF r.ok
             THEN /\ Publish(Message(w, a, r.sl, <<>>), r.sl)
                  /\ pool' = IF nopost THEN pool ELSE Posted(r.sl.tx)
             ELSE UNCHANGED <<msgs, seen, pool>>
  BY <1>1 DEF finalize
<1>5. PayDb(g, w, d) /\ Good(w, d) /\ MsgsOK(g, msgs) /\ TorOK(g, tor)
  BY <1>1, PayInvParts, InvParts
<1>6. PICK h : FinalizedAs(g, h, w, r) /\ AgreedAs(h, agreed) /\ Grounded(g, h) /\ Grows(g, h, w)
  BY <1>2, <1>5, FinishesIn
<1>7. PayDb(h, w, r.d) /\ (r.ok => SlateOK(h, r.sl) /\ Known(h, r.sl.tx))
  BY <1>6 DEF FinalizedAs
<1>8. MsgsOK(h, msgs') /\ PoolOK(h, pool, pool')
  <2>1. CASE r.ok
    <3>1. PICK N, dest : N = r.sl /\ dest = <<>>
      OBVIOUS
    <3>2. Publish(Message(w, a, N, dest), N) /\ SlateOK(h, N) /\ Known(h, N.tx)
      BY <1>4, <1>7, <2>1, <3>1
    <3>3. MsgsOK(h, msgs')
      BY <1>5, <1>6, <3>2, Written
    <3>4. pool' = pool \/ pool' = Posted(N.tx)
      BY <1>4, <2>1, <3>1
    <3>5. PoolOK(h, pool, pool')
      BY <3>2, <3>4, PostedIsOK DEF PoolOK
    <3>. QED  BY <3>3, <3>5
  <2>2. CASE ~r.ok
    <3>1. UNCHANGED <<msgs, pool>>
      BY <1>4, <2>2
    <3>. QED  BY <1>5, <1>6, <3>1, MsgsStay DEF PoolOK
  <2>. QED  BY <2>1, <2>2
<1>9. TorOK(h, tor') /\ chain' = chain /\ AgreedAs(h, agreed')
  BY <1>3, <1>5, <1>6, TorStays
<1>10. PayInv(h)'
  <2>1. PICK e : e = r.d
    OBVIOUS
  <2>2. db' = [db EXCEPT ![w] = e] /\ PayDb(h, w, e)
    BY <1>4, <1>7, <2>1
  <2>. QED  BY <1>6, <1>8, <1>9, <2>2, LedgerStep
<1>. QED  BY <1>10 DEF Agrees

(* finalize_tx of the foreign API.                                         *)
LEMMA ForeignFinalizePaid ==
    ASSUME 0 \notin Amounts, Inv, NEW g, PayInv(g), NEW w \in Wallets, NEW a \in Accts, NEW v \in Wallets,
           foreign_finalize_tx(w, a, v)
    PROVE  Agrees'
<1>1. PICK sl, d : sl = over_tor(tor[v].sl) /\ d = db[w]
  OBVIOUS
<1>2. tor[v] # NoCmd
  BY DEF foreign_finalize_tx, Waiting
<1>3. Incoming(g, sl)
  BY <1>1, <1>2, TorIn
<1>4. UNCHANGED <<msgs, chain, agreed>>
  BY DEF foreign_finalize_tx
<1>5. PICK r \in finalize_tx(w, d, a, sl) :
          /\ db' = [db EXCEPT ![w] = r.d]
          /\ IF r.ok THEN Answer(v, r.sl) /\ pool' = Posted(r.sl.tx)
                     ELSE UNCHANGED <<tor, pool>>
  BY <1>1 DEF foreign_finalize_tx
<1>6. PayDb(g, w, d) /\ Good(w, d) /\ MsgsOK(g, msgs) /\ TorOK(g, tor)
  BY <1>1, PayInvParts, InvParts
<1>7. PICK h : FinalizedAs(g, h, w, r) /\ AgreedAs(h, agreed) /\ Grounded(g, h) /\ Grows(g, h, w)
  BY <1>3, <1>6, FinishesIn
<1>8. PayDb(h, w, r.d) /\ (r.ok => SlateOK(h, r.sl) /\ Known(h, r.sl.tx))
  BY <1>7 DEF FinalizedAs
<1>9. MsgsOK(h, msgs') /\ TorOK(h, tor)
  BY <1>4, <1>6, <1>7, MsgsStay, TorStays
<1>10. TorOK(h, tor') /\ PoolOK(h, pool, pool')
  <2>1. CASE r.ok
    <3>1. PICK N : N = r.sl
      OBVIOUS
    <3>2. tor' = [tor EXCEPT ![v].answer = <<over_tor(N)>>] /\ pool' = Posted(N.tx)
          /\ SlateOK(h, N) /\ Known(h, N.tx)
      BY <1>5, <1>8, <2>1, <3>1 DEF Answer
    <3>3. TorOK(h, tor')
      BY <1>2, <1>9, <3>2, InvParts, TorAnswers
    <3>4. PoolOK(h, pool, pool')
      BY <3>2, PostedIsOK
    <3>. QED  BY <3>3, <3>4
  <2>2. CASE ~r.ok
    BY <1>5, <1>9, <2>2 DEF PoolOK
  <2>. QED  BY <2>1, <2>2
<1>11. chain' = chain /\ AgreedAs(h, agreed')
  BY <1>4, <1>7
<1>12. PayInv(h)'
  <2>1. PICK e : e = r.d
    OBVIOUS
  <2>2. db' = [db EXCEPT ![w] = e] /\ PayDb(h, w, e)
    BY <1>5, <1>8, <2>1
  <2>. QED  BY <1>7, <1>9, <1>10, <1>11, <2>2, LedgerStep
<1>. QED  BY <1>12 DEF Agrees

-----------------------------------------------------------------------------
(* The other commands.                                                     *)

(* tx_lock_outputs by the owner API.                                       *)
LEMMA ApiLockPaid ==
    ASSUME Inv, NEW g, PayInv(g), NEW w \in Wallets, NEW a \in Accts, NEW s, api_tx_lock_outputs(w, a, s)
    PROVE  Agrees'
<1>1. PICK m \in {x \in msgs : CanDecode(x)} :
          LET sl == get_slate(m, m.data.sender)
          IN  /\ sl.id = s
              /\ db' = [db EXCEPT ![w] = tx_lock_outputs(w, db[w], sl)]
  BY DEF api_tx_lock_outputs
<1>2. PICK sl, e : sl = get_slate(m, m.data.sender) /\ e = tx_lock_outputs(w, db[w], sl)
  OBVIOUS
<1>3. /\ sl.id = s /\ db' = [db EXCEPT ![w] = e] /\ db[w].ctx[s] # NoContext
      /\ UNCHANGED <<msgs, tor, pool, chain, agreed>>
  BY <1>1, <1>2 DEF api_tx_lock_outputs
<1>4. SlateOK(g, sl)
  BY <1>2, PayInvParts, ReadIsOK
<1>5. Formed(sl)
  BY <1>2, DecodedFields DEF get_slate
<1>6. PayDb(g, w, db[w])
  BY PayInvParts
<1>7. PayDb(g, w, e)
  BY <1>2, <1>3, <1>4, <1>5, <1>6, LockDb
<1>8. MsgsOK(g, msgs') /\ TorOK(g, tor') /\ PoolOK(g, pool, pool')
  BY <1>3, PayInvParts DEF PoolOK
<1>9. PayInv(g)'
  BY <1>3, <1>7, <1>8, SameGhost
<1>. QED  BY <1>9 DEF Agrees

(* The send command gets its answer, locks and finalizes.                  *)
LEMMA SendAnsweredPaid ==
    ASSUME 0 \notin Amounts, Inv, NEW g, PayInv(g), NEW w \in Wallets, send_answered(w)
    PROVE  Agrees'
<1>1. PICK sl, d, e, a : /\ sl = tor[w].answer[1] /\ d = db[w] /\ e = tx_lock_outputs(w, d, sl)
                         /\ a = tor[w].acct
  OBVIOUS
<1>2. tor[w] # NoCmd /\ tor[w].answer # <<>> /\ CanLock(d, sl) /\ UNCHANGED <<msgs, chain, agreed>>
      /\ tor' = [tor EXCEPT ![w] = NoCmd]
  BY <1>1 DEF send_answered
<1>3. Incoming(g, sl)
  BY <1>1, <1>2, AnswerIn
<1>4. PayDb(g, w, d) /\ Good(w, d) /\ MsgsOK(g, msgs) /\ TorOK(g, tor)
  BY <1>1, PayInvParts, InvParts
<1>5. d.ctx[sl.id] # NoContext /\ SlateOK(g, sl) /\ Formed(sl)
  BY <1>2, <1>3 DEF CanLock, Incoming
<1>6. PayDb(g, w, e)
  BY <1>1, <1>4, <1>5, LockDb
<1>7. Good(w, e)
  <2>1. {"ctx", "draws"} \subseteq DOMAIN d
    BY <1>4 DEF Good, WalletOK
  <2>2. Kept(d, e)
    BY <1>1, <2>1, LockKeeps
  <2>3. Quiet(d, e)
    BY <1>4, <2>2, KeptIsQuiet
  <2>. QED  BY <1>4, <2>3, QuietIsGood
<1>8. PICK r \in finalize_tx(w, e, a, sl) :
         /\ db' = [db EXCEPT ![w] = r.d]
         /\ pool' = IF r.ok THEN Posted(r.sl.tx) ELSE pool
  BY <1>1 DEF send_answered
<1>9. PICK h : FinalizedAs(g, h, w, r) /\ AgreedAs(h, agreed) /\ Grounded(g, h) /\ Grows(g, h, w)
  BY <1>3, <1>6, <1>7, FinishesIn
<1>10. PayDb(h, w, r.d) /\ (r.ok => Known(h, r.sl.tx))
  BY <1>9 DEF FinalizedAs
<1>11. PoolOK(h, pool, pool')
  <2>1. CASE r.ok
    <3>1. PICK tx : tx = r.sl.tx
      OBVIOUS
    <3>2. Known(h, tx) /\ pool' = Posted(tx)
      BY <1>8, <1>10, <2>1, <3>1
    <3>. QED  BY <3>2, PostedIsOK
  <2>2. CASE ~r.ok
    BY <1>8, <2>2 DEF PoolOK
  <2>. QED  BY <2>1, <2>2
<1>12. MsgsOK(h, msgs') /\ TorOK(h, tor)
  BY <1>2, <1>4, <1>9, MsgsStay, TorStays
<1>13. TorOK(h, tor')
  BY <1>2, <1>12, InvParts, TorEnds
<1>14. chain' = chain /\ AgreedAs(h, agreed')
  BY <1>2, <1>9
<1>15. PayInv(h)'
  <2>1. PICK f : f = r.d
    OBVIOUS
  <2>2. db' = [db EXCEPT ![w] = f] /\ PayDb(h, w, f)
    BY <1>8, <1>10, <2>1
  <2>. QED  BY <1>9, <1>11, <1>12, <1>13, <1>14, <2>2, LedgerStep
<1>. QED  BY <1>15 DEF Agrees

(* The receive and pay commands get theirs.                                *)
LEMMA ReplyAnsweredPaid ==
    ASSUME Inv, NEW g, PayInv(g), NEW w \in Wallets, reply_answered(w)
    PROVE  Agrees'
<1>1. PICK sl, d, a, e : /\ sl = tor[w].answer[1] /\ d = db[w] /\ a = tor[w].acct
                         /\ e = IF Found(d, sl.id, AllTypes) = {} THEN d ELSE update_tx_slate_state(d, a, sl)
  OBVIOUS
<1>2. /\ tor[w] # NoCmd /\ tor[w].answer # <<>> /\ UNCHANGED <<msgs, pool, chain, agreed>>
      /\ tor' = [tor EXCEPT ![w] = NoCmd] /\ db' = [db EXCEPT ![w] = e]
  BY <1>1 DEF reply_answered
<1>3. Incoming(g, sl)
  BY <1>1, <1>2, AnswerIn
<1>4. PayDb(g, w, d) /\ MsgsOK(g, msgs) /\ TorOK(g, tor)
  BY <1>1, PayInvParts
<1>5. PayDb(g, w, e)
  <2>1. CASE Found(d, sl.id, AllTypes) = {}
    BY <1>1, <1>4, <2>1
  <2>2. CASE Found(d, sl.id, AllTypes) # {}
    <3>1. Book(g, w, d) /\ sl.id \in Slates /\ e = update_tx_slate_state(d, a, sl)
      BY <1>1, <1>3, <1>4, <2>2 DEF PayDb, Incoming
    <3>2. Book(g, w, e) /\ Calm(d, e)
      BY <2>2, <3>1, UpdateBook
    <3>. QED  BY <1>4, <3>2, CalmKeeps
  <2>. QED  BY <2>1, <2>2
<1>6. TorOK(g, tor')
  BY <1>2, <1>4, InvParts, TorEnds
<1>7. MsgsOK(g, msgs') /\ PoolOK(g, pool, pool')
  BY <1>2, <1>4 DEF PoolOK
<1>8. PayInv(g)'
  BY <1>2, <1>5, <1>6, <1>7, SameGhost
<1>. QED  BY <1>8 DEF Agrees

(* Tor fails and the slate is written as a message.                        *)
LEMMA TorFailedPaid ==
    ASSUME Inv, NEW g, PayInv(g), NEW w \in Wallets, tor_failed(w)
    PROVE  Agrees'
<1>1. PICK N, d, a, dest, e : /\ N = tor[w].sl /\ d = db[w] /\ a = tor[w].acct /\ dest = tor[w].dest
                              /\ e = tx_lock_outputs(w, d, N)
  OBVIOUS
<1>2. /\ tor[w] # NoCmd /\ UNCHANGED <<pool, chain, agreed>>
      /\ tor' = [tor EXCEPT ![w] = NoCmd]
      /\ \/ UNCHANGED db /\ Publish(Message(w, a, N, dest), N)
         \/ CanLock(d, N) /\ db' = [db EXCEPT ![w] = e] /\ Publish(Message(w, a, N, dest), N)
         \/ UNCHANGED <<db, msgs>>
  BY <1>1 DEF tor_failed
<1>3. Incoming(g, N)
  BY <1>1, <1>2, TorIn
<1>4. SlateOK(g, N) /\ Formed(N)
  BY <1>3 DEF Incoming
<1>5. PayDb(g, w, d) /\ MsgsOK(g, msgs) /\ TorOK(g, tor)
  BY <1>1, PayInvParts
<1>6. TorOK(g, tor')
  BY <1>2, <1>5, InvParts, TorEnds
<1>7. PoolOK(g, pool, pool') /\ chain' = chain /\ agreed' = agreed
  BY <1>2 DEF PoolOK
<1>8. Publish(Message(w, a, N, dest), N) => MsgsOK(g, msgs')
  BY <1>4, <1>5, GrowsNot, Written
<1>9. MsgsOK(g, msgs')
  BY <1>2, <1>5, <1>8
<1>10. CASE UNCHANGED db
  BY <1>6, <1>7, <1>9, <1>10, SameDb DEF Agrees
<1>11. CASE CanLock(d, N) /\ db' = [db EXCEPT ![w] = e]
  <2>1. d.ctx[N.id] # NoContext
    BY <1>11 DEF CanLock
  <2>2. PayDb(g, w, e)
    BY <1>1, <1>4, <1>5, <2>1, LockDb
  <2>3. PayInv(g)'
    BY <1>6, <1>7, <1>9, <1>11, <2>2, SameGhost
  <2>. QED  BY <2>3 DEF Agrees
<1>. QED  BY <1>2, <1>10, <1>11

(* A slate's transaction that the node would take settles that slate.      *)
LEMMA ReadyIsKnown ==
    ASSUME NEW g, NEW sl, SlateOK(g, sl), sl.tx # NoTx, ValidTx(sl.tx)
    PROVE  Known(g, sl.tx)
<1>1. ~Unsigned(sl.tx)
  BY DEF Unsigned, ValidTx
<1>2. DoneOK(g, sl) /\ sl.id \in Slates
  BY <1>1 DEF SlateOK
<1>. QED  BY <1>2 DEF DoneOK, Known

(* The post command.                                                       *)
LEMMA PostPaid ==
    ASSUME Inv, NEW g, PayInv(g), NEW w \in Wallets, NEW a \in Accts, NEW m \in msgs, post(w, a, m)
    PROVE  Agrees'
<1>1. PICK sl : sl = get_slate(m, Address0(w, a))
  OBVIOUS
<1>2. /\ sl.tx # NoTx /\ Accepts(sl.tx) /\ pool' = pool \cup {sl.tx} /\ Readable(m, Address0(w, a))
      /\ UNCHANGED <<db, msgs, tor, chain, agreed>>
  BY <1>1 DEF post
<1>3. Incoming(g, sl)
  BY <1>1, <1>2, MessageIn
<1>4. ValidTx(sl.tx) /\ SlateOK(g, sl)
  BY <1>2, <1>3 DEF Accepts, Incoming
<1>5. Known(g, sl.tx)
  BY <1>2, <1>4, ReadyIsKnown
<1>6. PoolOK(g, pool, pool') /\ MsgsOK(g, msgs') /\ TorOK(g, tor')
  BY <1>2, <1>5, PayInvParts DEF PoolOK
<1>. QED  BY <1>2, <1>6, SameDb DEF Agrees

(* The repost command: what is stored and signed settles a slate.          *)
LEMMA RepostPaid ==
    ASSUME Inv, NEW g, PayInv(g), NEW w \in Wallets, NEW id, repost(w, id)
    PROVE  Agrees'
<1>1. PICK tx, d : tx = get_stored_tx(d, id) /\ d = db[w]
  OBVIOUS
<1>2. /\ tx # NoTx /\ tx.signed /\ Accepts(tx) /\ pool' = pool \cup {tx}
      /\ UNCHANGED <<db, msgs, tor, chain, agreed>>
  BY <1>1 DEF repost
<1>3. Book(g, w, d)
  BY <1>1, PayInvParts DEF PayDb
<1>4. PICK s \in Slates : tx = d.files[s]
  <2>1. PICK P : P = {p \in Pos : p[2] = id /\ d.log[p] # NoEntry}
    OBVIOUS
  <2>2. P # {} /\ tx = d.files[d.log[FirstOf(P)].slate]
    BY <1>1, <1>2, <2>1 DEF get_stored_tx
  <2>3. FirstOf(P) \in P
    BY <2>1, <2>2, FirstIsIn
  <2>4. d.log[FirstOf(P)].slate \in Slates
    BY <1>3, <2>1, <2>3 DEF Book
  <2>. QED  BY <2>2, <2>4
<1>5. Filed(g, s, tx) /\ ~Unsigned(tx)
  BY <1>2, <1>3, <1>4 DEF Book, Unsigned
<1>6. Known(g, tx)
  BY <1>5 DEF Filed, Known
<1>7. PoolOK(g, pool, pool') /\ MsgsOK(g, msgs') /\ TorOK(g, tor')
  BY <1>2, <1>6, PayInvParts DEF PoolOK
<1>. QED  BY <1>2, <1>7, SameDb DEF Agrees

(* The cancel command.                                                     *)
LEMMA CancelPaid ==
    ASSUME Inv, NEW g, PayInv(g), NEW w \in Wallets, NEW p \in Pos, cancel(w, p)
    PROVE  Agrees'
<1>1. PICK d, e : d = db[w] /\ e = cancel_tx_and_outputs(d, p)
  OBVIOUS
<1>2. /\ d.log[p] # NoEntry /\ db' = [db EXCEPT ![w] = e]
      /\ UNCHANGED <<msgs, tor, pool, chain, agreed>>
  BY <1>1 DEF cancel
<1>3. PayDb(g, w, d) /\ Book(g, w, d)
  BY <1>1, PayInvParts DEF PayDb
<1>4. Book(g, w, e) /\ Calm(d, e)
  BY <1>1, <1>2, <1>3, CancelBook
<1>5. PayDb(g, w, e)
  BY <1>3, <1>4, CalmKeeps
<1>6. PoolOK(g, pool, pool') /\ MsgsOK(g, msgs') /\ TorOK(g, tor')
  BY <1>2, PayInvParts DEF PoolOK
<1>7. PayInv(g)'
  BY <1>2, <1>5, <1>6, SameGhost
<1>. QED  BY <1>7 DEF Agrees

(* A message is damaged.                                                   *)
LEMMA DamagePaid ==
    ASSUME Inv, NEW g, PayInv(g), NEW m \in msgs, damage(m)
    PROVE  Agrees'
<1>1. PICK x : x = Mangled(m.data)
  OBVIOUS
<1>2. /\ CanDecode(m) /\ msgs' = msgs \cup {[m EXCEPT !.data = x]}
      /\ UNCHANGED <<db, tor, pool, chain, agreed>>
  BY <1>1 DEF damage
<1>3. MsgsOK(g, msgs')
  BY <1>2, PayInvParts, MsgsDamaged
<1>4. PoolOK(g, pool, pool') /\ TorOK(g, tor')
  BY <1>2, PayInvParts DEF PoolOK
<1>. QED  BY <1>2, <1>3, <1>4, SameDb DEF Agrees

-----------------------------------------------------------------------------
(* The chain.                                                              *)

(* A block adds outputs and spends what was unspent.                       *)
LEMMA Mining ==
    ASSUME ChainOK, NEW tx, Mine(tx)
    PROVE  /\ \E S : chain' \in Seq(S)
           /\ OnChain' = OnChain \cup {tx}
           /\ Made' = Made \cup tx.outs /\ Spent' = Spent \cup tx.ins
           /\ tx.ins \subseteq Made \ Spent
<1>1. PICK S : chain \in Seq(S)
  BY DEF ChainOK
<1>2. PICK T : T = S \cup {tx}
  OBVIOUS
<1>3. chain \in Seq(T) /\ tx \in T /\ chain' = Append(chain, tx)
  <2>1. chain \in Seq(T)
    BY <1>1, <1>2
  <2>. QED  BY <1>2, <2>1 DEF Mine
<1>4. /\ Len(chain) \in Nat /\ DOMAIN chain = 1 .. Len(chain)
      /\ DOMAIN chain' = 1 .. Len(chain) + 1 /\ chain'[Len(chain) + 1] = tx
      /\ \A i \in 1 .. Len(chain) : chain'[i] = chain[i]
      /\ chain' \in Seq(T)
  BY <1>3
<1>5. OnChain' = OnChain \cup {tx}
  <2>1. OnChain' = {chain'[i] : i \in DOMAIN chain'}
    BY DEF OnChain, ToSet
  <2>2. OnChain = {chain[i] : i \in DOMAIN chain}
    BY DEF OnChain, ToSet
  <2>3. \A x : x \in OnChain' <=> \E i \in 1 .. Len(chain) + 1 : x = chain'[i]
    BY <1>4, <2>1
  <2>4. \A x : x \in OnChain <=> \E i \in 1 .. Len(chain) : x = chain[i]
    BY <1>4, <2>2
  <2>5. \A i : i \in 1 .. Len(chain) + 1 <=> i \in 1 .. Len(chain) \/ i = Len(chain) + 1
    BY <1>4
  <2>. QED  BY <1>4, <2>3, <2>4, <2>5
<1>6. Made' = Made \cup tx.outs
  <2>1. Made' = (UNION {Funds[w] : w \in Wallets}) \cup (UNION {t.outs : t \in OnChain'})
    BY DEF Made
  <2>. QED  BY <1>5, <2>1 DEF Made
<1>7. Spent' = Spent \cup tx.ins
  <2>1. Spent' = UNION {t.ins : t \in OnChain'}
    BY DEF Spent
  <2>. QED  BY <1>5, <2>1 DEF Spent
<1>8. tx.ins \subseteq Made \ Spent
  BY DEF Mine, Accepts, Unspent, Made
<1>. QED  BY <1>4, <1>5, <1>6, <1>7, <1>8

(* A transaction on the chain settles its slate.                           *)
Paid(g, s, tx, payer, payee, r) ==
    /\ s \in Slates /\ payer \in Wallets /\ payee \in Wallets /\ r \in Wallets \X {s} \X Nat
    /\ g.offer[s] # <<>> /\ g.done[s] # NoTx /\ Content(tx) = g.done[s]
    /\ Settles(g, s, tx, payer, payee, r)

(* A known transaction settles its slate.                                  *)
LEMMA KnownIsPaid ==
    ASSUME NEW g, PayInv(g), NEW tx, Known(g, tx)
    PROVE  \E s, payer, payee, r : Paid(g, s, tx, payer, payee, r)
<1>1. PICK s \in Slates : g.done[s] # NoTx /\ Content(tx) = g.done[s]
  BY DEF Known
<1>2. Settled(g, s)
  BY <1>1, PayInvParts
<1>3. PICK D : D = g.done[s]
  OBVIOUS
<1>4. PICK payer \in Wallets, payee \in Wallets, r \in Wallets \X {s} \X Nat :
          Settles(g, s, D, payer, payee, r)
  BY <1>2, <1>3 DEF Settled
<1>5. D.ins = tx.ins /\ D.outs = tx.outs /\ D.excess = tx.excess
  BY <1>1, <1>3 DEF Content
<1>6. Settles(g, s, tx, payer, payee, r)
  BY <1>4, <1>5 DEF Settles
<1>7. g.offer[s] # <<>>
  BY <1>2 DEF Settled
<1>. QED  BY <1>1, <1>4, <1>6, <1>7 DEF Paid

(* What that says of its coins and keys.                                   *)
LEMMA PaidFields ==
    ASSUME NEW g, NEW s, NEW tx, NEW payer, NEW payee, NEW r, Paid(g, s, tx, payer, payee, r)
    PROVE  /\ Coins(payer, tx.ins) /\ tx.ins # {} /\ IsFiniteSet(tx.outs) /\ tx.outs \subseteq AnyCoin
           /\ From(g, s, tx.outs) /\ tx.excess = {First(g, s), r} /\ r[2] = s
BY DEF Paid, Settles

(* Two transactions of one slate spend the same coins.                     *)
LEMMA PaidOnce ==
    ASSUME NEW g, NEW s, NEW t, NEW tx, NEW p, NEW q, NEW r, NEW u, NEW v, NEW x,
           Paid(g, s, t, p, q, r), Paid(g, s, tx, u, v, x)
    PROVE  t.ins = tx.ins /\ tx.ins # {}
<1>1. Content(t) = Content(tx)
  BY DEF Paid
<1>2. t.ins = tx.ins
  BY <1>1 DEF Content
<1>. QED  BY <1>2, PaidFields

(* A transaction that is mined spends what was not spent, and what it      *)
(* makes was not there.                                                    *)
LEMMA MinedIsNew ==
    ASSUME NEW g, PayInv(g), NEW tx, tx.ins \subseteq Made \ Spent,
           NEW s, NEW payer, NEW payee, NEW r, Paid(g, s, tx, payer, payee, r)
    PROVE  /\ tx.outs \cap Made = {}
           /\ \A t \in OnChain : \A p, q, x : ~ Paid(g, s, t, p, q, x)
<1>1. ASSUME NEW t \in OnChain, NEW p, NEW q, NEW x, Paid(g, s, t, p, q, x) PROVE FALSE
  <2>1. t.ins = tx.ins /\ tx.ins # {}
    BY <1>1, PaidOnce
  <2>2. t.ins \subseteq Spent
    BY DEF Spent
  <2>. QED  BY <2>1, <2>2
<1>2. ASSUME NEW c \in tx.outs, c \in Made PROVE FALSE
  <2>1. g.home[c.own][c.child] = s /\ s \in Slates
    BY PaidFields DEF From, Paid
  <2>2. ASSUME NEW w \in Wallets, c \in Funds[w] PROVE FALSE
    <3>1. KeysOK(g, w, db[w])
      BY PayInvParts DEF PayDb
    <3>2. g.home[w][c.child] = <<>>
      BY <2>2, <3>1 DEF KeysOK
    <3>3. c.own = w
      BY <2>2, ExchangeAssumption
    <3>. QED  BY <2>1, <3>2, <3>3, NotEmpty
  <2>3. ASSUME NEW t \in OnChain, c \in t.outs PROVE FALSE
    <3>1. Known(g, t)
      BY PayInvParts
    <3>2. PICK s2, p, q, x : Paid(g, s2, t, p, q, x)
      BY <3>1, KnownIsPaid
    <3>3. g.home[c.own][c.child] = s2
      BY <2>3, <3>2, PaidFields DEF From
    <3>4. Paid(g, s, t, p, q, x)
      BY <2>1, <3>2, <3>3
    <3>. QED  BY <1>1, <3>4
  <2>4. (\E w \in Wallets : c \in Funds[w]) \/ (\E t \in OnChain : c \in t.outs)
    BY <1>2 DEF Made
  <2>. QED  BY <2>2, <2>3, <2>4
<1>. QED  BY <1>1, <1>2

(* A block keeps the invariant.                                            *)
LEMMA MinePaid ==
    ASSUME NEW g, PayInv(g), NEW tx \in pool, Mine(tx)
    PROVE  PayInv(g)'
<1>1. ChainOK /\ Known(g, tx)
  BY PayInvParts
<1>2. /\ \E S : chain' \in Seq(S)
      /\ OnChain' = OnChain \cup {tx}
      /\ Made' = Made \cup tx.outs /\ Spent' = Spent \cup tx.ins
      /\ tx.ins \subseteq Made \ Spent
  BY <1>1, Mining
<1>3. IsFiniteSet(tx.outs) /\ tx.outs \subseteq AnyCoin
  BY <1>1, KnownIsPaid, PaidFields
<1>4. ASSUME NEW w \in Wallets
      PROVE  IsFiniteSet(Part(Made', w)) /\ Part(Made', w) \subseteq Purse(w)
  <2>1. Part(Made', w) = Part(Made, w) \cup Part(tx.outs, w)
    BY <1>2 DEF Part
  <2>2. IsFiniteSet(Part(Made, w)) /\ Part(Made, w) \subseteq Purse(w)
    BY <1>1 DEF ChainOK
  <2>3. Part(tx.outs, w) \subseteq tx.outs
    BY DEF Part
  <2>4. IsFiniteSet(Part(tx.outs, w))
    BY <1>3, <2>3, FS_Subset
  <2>5. Part(tx.outs, w) \subseteq Purse(w)
    BY <1>3 DEF Part, AnyCoin, Purse
  <2>6. IsFiniteSet(Part(Made, w) \cup Part(tx.outs, w))
    BY <2>2, <2>4, FS_Union
  <2>. QED  BY <2>1, <2>2, <2>5, <2>6
<1>5. ChainOK'
  <2>1. Spent' \subseteq Made'
    BY <1>1, <1>2 DEF ChainOK
  <2>. QED  BY <1>2, <1>4, <2>1 DEF ChainOK, Part
<1>6. UNCHANGED <<db, msgs, tor, agreed>> /\ pool' \subseteq pool
  BY DEF Mine
<1>7. Ghost(g)'
  BY <1>6 DEF PayInv, Ghost
<1>8. \A t \in pool' \cup OnChain' : Known(g, t)
  BY <1>1, <1>2, <1>6, PayInvParts
<1>9. (\A w \in Wallets : PayDb(g, w, db'[w])) /\ MsgsOK(g, msgs') /\ TorOK(g, tor')
  BY <1>6, PayInvParts
<1>. QED  BY <1>5, <1>7, <1>8, <1>9 DEF PayInv

-----------------------------------------------------------------------------
(* A block settles a slate.                                                *)

(* SlateOf, Payer and Payee read slate and parties off the transaction.    *)
LEMMA PaidNames ==
    ASSUME NEW g, NEW s, NEW tx, NEW payer, NEW payee, NEW r, Paid(g, s, tx, payer, payee, r)
    PROVE  SlateOf(tx) = s /\ Payer(tx) = payer /\ Payee(tx) = payee
<1>1. /\ tx.excess = {First(g, s), r} /\ r[2] = s /\ {payer, payee} = {g.offer[s][1], r[1]}
      /\ Coins(payer, tx.ins) /\ tx.ins # {}
  BY DEF Paid, Settles
<1>2. First(g, s)[2] = s /\ First(g, s)[1] = g.offer[s][1]
  BY DEF First
<1>3. SlateOf(tx) = s
  <2>1. PICK k : k = CHOOSE x \in tx.excess : TRUE
    OBVIOUS
  <2>2. k \in tx.excess
    BY <1>1, <2>1
  <2>3. k[2] = s
    BY <1>1, <1>2, <2>2
  <2>. QED  BY <2>1, <2>3 DEF SlateOf
<1>4. Payer(tx) = payer
  <2>1. PICK c : c = CHOOSE x \in tx.ins : TRUE
    OBVIOUS
  <2>2. c \in tx.ins
    BY <1>1, <2>1
  <2>3. c.own = payer
    BY <1>1, <2>2 DEF Coins, Purse
  <2>. QED  BY <2>1, <2>3 DEF Payer
<1>5. {k[1] : k \in tx.excess} = {payer, payee}
  <2>1. {k[1] : k \in tx.excess} = {First(g, s)[1], r[1]}
    BY <1>1
  <2>. QED  BY <1>1, <1>2, <2>1
<1>6. Payee(tx) = payee
  <2>1. PICK Q : Q = {payer, payee} \ {payer}
    OBVIOUS
  <2>2. Payee(tx) = IF Q = {} THEN payer ELSE CHOOSE w \in Q : TRUE
    BY <1>4, <1>5, <2>1 DEF Payee
  <2>3. CASE payer = payee
    BY <2>1, <2>2, <2>3
  <2>4. CASE payer # payee
    <3>1. Q = {payee}
      BY <2>1, <2>4
    <3>. QED  BY <2>2, <3>1
  <2>. QED  BY <2>3, <2>4
<1>. QED  BY <1>3, <1>4, <1>6

(* What a wallet owns is its part of what was made and not spent.          *)
LEMMA OwnedIs ==
    ASSUME NEW w
    PROVE  Owned(w) = Total(Part(Made \ Spent, w))
BY DEF Owned, Unspent, Made, Part

(* How that part changes with a block.                                     *)
LEMMA PartMoves ==
    ASSUME NEW M, NEW S, NEW I, NEW U, NEW w \in Wallets, I \subseteq M \ S, U \cap M = {}, S \subseteq M,
           IsFiniteSet(Part(M, w)), Part(M, w) \subseteq Purse(w),
           IsFiniteSet(U), U \subseteq AnyCoin
    PROVE  /\ Total(Part((M \cup U) \ (S \cup I), w)) =
                  (Total(Part(M \ S, w)) - Total(Part(I, w))) + Total(Part(U, w))
           /\ Total(Part(M \ S, w)) \in Nat /\ Total(Part(I, w)) \in Nat /\ Total(Part(U, w)) \in Nat
<1>1. PICK A, B, C, E : /\ A = Part(M \ S, w) /\ B = Part(I, w) /\ C = Part(U, w)
                        /\ E = Part((M \cup U) \ (S \cup I), w)
  OBVIOUS
<1>2. A \subseteq Part(M, w) /\ B \subseteq A /\ C \subseteq U
  BY <1>1 DEF Part
<1>3. IsFiniteSet(A) /\ IsFiniteSet(C)
  BY <1>2, FS_Subset
<1>4. \A c \in A : c.value \in Nat
  BY <1>2 DEF Purse
<1>5. \A c \in C : c.value \in Nat
  BY <1>2 DEF AnyCoin
<1>6. Valued(A) /\ Valued(C)
  BY <1>3, <1>4, <1>5 DEF Valued
<1>7. /\ Valued(A \ B) /\ Total(B) \in Nat /\ Total(A \ B) \in Nat
      /\ Total(A) = Total(B) + Total(A \ B)
  BY <1>2, <1>6, TotalPart
<1>8. E = (A \ B) \cup C
  BY <1>1 DEF Part
<1>9. (A \ B) \cap C = {}
  BY <1>1 DEF Part
<1>10. Total(E) = Total(A \ B) + Total(C)
  <2>1. PICK F : F = A \ B
    OBVIOUS
  <2>. QED  BY <1>6, <1>7, <1>8, <1>9, <2>1, TotalUnion
<1>11. Total(C) \in Nat /\ Total(A) \in Nat
  BY <1>6, TotalNat
<1>12. Total(E) = (Total(A) - Total(B)) + Total(C)
  BY <1>7, <1>10, <1>11
<1>. QED  BY <1>1, <1>7, <1>11, <1>12

(* A mined transaction is the first of its slate.                          *)
LEMMA TxOfMined ==
    ASSUME NEW g, PayInv(g), NEW tx, OnChain' = OnChain \cup {tx}, tx.ins \subseteq Made \ Spent,
           NEW s, NEW payer, NEW payee, NEW r, Paid(g, s, tx, payer, payee, r)
    PROVE  /\ SettledOnChain[s] = <<>>
           /\ SettledOnChain' = [SettledOnChain EXCEPT ![s] = <<payer, payee>>]
<1>1. SlateOf(tx) = s /\ Payer(tx) = payer /\ Payee(tx) = payee /\ s \in Slates
  BY PaidNames DEF Paid
<1>2. \A t \in OnChain : SlateOf(t) # s
  <2> SUFFICES ASSUME NEW t \in OnChain, SlateOf(t) = s PROVE FALSE
    OBVIOUS
  <2>1. Known(g, t)
    BY PayInvParts
  <2>2. PICK s2, p, q, x : Paid(g, s2, t, p, q, x)
    BY <2>1, KnownIsPaid
  <2>3. s2 = s
    BY <2>2, PaidNames
  <2>. QED  BY <2>2, <2>3, MinedIsNew
<1>3. \A t : TxOf(t)' = {x \in OnChain' : SlateOf(x) = t}
  BY DEF TxOf, SlateOf
<1>4. TxOf(s) = {} /\ TxOf(s)' = {tx}
  BY <1>1, <1>2, <1>3 DEF TxOf
<1>5. \A t \in Slates : t # s => TxOf(t)' = TxOf(t)
  BY <1>1, <1>3 DEF TxOf
<1> DEFINE Name(X) == IF X = {} THEN <<>>
                      ELSE LET x == CHOOSE y \in X : TRUE IN <<Payer(x), Payee(x)>>
<1>6. SettledOnChain = [t \in Slates |-> Name(TxOf(t))]
  BY DEF SettledOnChain
<1>7. SettledOnChain' = [t \in Slates |-> Name(TxOf(t)')]
  BY DEF SettledOnChain, Payer, Payee
<1>8. Name({}) = <<>> /\ Name({tx}) = <<payer, payee>>
  <2>1. (CHOOSE y \in {tx} : TRUE) = tx
    OBVIOUS
  <2>. QED  BY <1>1, <2>1
<1> HIDE DEF Name
<1>9. SettledOnChain[s] = <<>>
  BY <1>1, <1>4, <1>6, <1>8
<1>10. SettledOnChain' = [SettledOnChain EXCEPT ![s] = <<payer, payee>>]
  BY <1>1, <1>4, <1>5, <1>6, <1>7, <1>8
<1>. QED  BY <1>9, <1>10

(* A mined transaction settles an offer.                                   *)
LEMMA MineSettles ==
    ASSUME NEW g, PayInv(g), NEW tx \in pool, Mine(tx)
    PROVE  \E s \in Slates, payer, payee \in Wallets : Promise!Settle(s, payer, payee)
<1>1. ChainOK /\ Known(g, tx) /\ AgreedAs(g, agreed)
  BY PayInvParts
<1>2. /\ OnChain' = OnChain \cup {tx}
      /\ Made' = Made \cup tx.outs /\ Spent' = Spent \cup tx.ins
      /\ tx.ins \subseteq Made \ Spent
  BY <1>1, Mining
<1>3. PICK s, payer, payee, r : Paid(g, s, tx, payer, payee, r)
  BY <1>1, KnownIsPaid
<1>4. s \in Slates /\ payer \in Wallets /\ payee \in Wallets /\ agreed[s] = g.offer[s] /\ agreed[s] # <<>>
  BY <1>1, <1>3 DEF Paid, AgreedAs
<1>5. /\ SettledOnChain[s] = <<>>
      /\ SettledOnChain' = [SettledOnChain EXCEPT ![s] = <<payer, payee>>]
  BY <1>2, <1>3, TxOfMined
<1>6. agreed[s][1] = IF agreed[s][2] = "send" THEN payer ELSE payee
  BY <1>3, <1>4 DEF Paid, Settles, IsSend
<1>7. ASSUME NEW w \in Wallets
      PROVE  Owned(w)' = Owned(w) + (IF w = payee THEN agreed[s][3] ELSE 0)
                                  - (IF w = payer THEN agreed[s][3] + Fee ELSE 0)
  <2>1. tx.outs \cap Made = {} /\ IsFiniteSet(tx.outs) /\ tx.outs \subseteq AnyCoin
    BY <1>2, <1>3, MinedIsNew, PaidFields
  <2>2. IsFiniteSet(Part(Made, w)) /\ Part(Made, w) \subseteq Purse(w) /\ Spent \subseteq Made
    BY <1>1 DEF ChainOK
  <2>3. PICK M, S, I, U : M = Made /\ S = Spent /\ I = tx.ins /\ U = tx.outs
    OBVIOUS
  <2>4. /\ Total(Part((M \cup U) \ (S \cup I), w)) =
               (Total(Part(M \ S, w)) - Total(Part(I, w))) + Total(Part(U, w))
        /\ Total(Part(M \ S, w)) \in Nat /\ Total(Part(I, w)) \in Nat /\ Total(Part(U, w)) \in Nat
    <3>1. /\ I \subseteq M \ S /\ U \cap M = {} /\ S \subseteq M
          /\ IsFiniteSet(Part(M, w)) /\ Part(M, w) \subseteq Purse(w)
          /\ IsFiniteSet(U) /\ U \subseteq AnyCoin
      BY <1>2, <2>1, <2>2, <2>3
    <3>. QED  BY <3>1, PartMoves
  <2>5. Owned(w) = Total(Part(M \ S, w))
    BY <2>3, OwnedIs
  <2>6. Owned(w)' = Total(Part((M \cup U) \ (S \cup I), w))
    <3>1. Owned(w)' = Total(Part(Made' \ Spent', w))
      BY DEF Owned, Unspent, Made, Part
    <3>. QED  BY <1>2, <2>3, <3>1
  <2>7. Total(Part(U, w)) = Total(Part(I, w)) + (IF w = payee THEN agreed[s][3] ELSE 0)
                                              - (IF w = payer THEN agreed[s][3] + Fee ELSE 0)
    BY <1>3, <1>4, <2>3 DEF Paid, Settles, Agreed
  <2>8. agreed[s][3] \in Nat /\ Fee \in Nat
    <3>1. OfferType(s, agreed[s])
      BY <1>1, <1>4 DEF AgreedAs
    <3>. QED  BY <1>4, <3>1, NotEmpty, SlateAssumption DEF OfferType
  <2>9. PICK x, y, z, v : /\ x = Total(Part(M \ S, w)) /\ y = Total(Part(I, w)) /\ z = Total(Part(U, w))
                          /\ v = agreed[s][3]
    OBVIOUS
  <2>10. /\ x \in Nat /\ y \in Nat /\ z \in Nat /\ v \in Nat /\ Fee \in Nat
         /\ z = y + (IF w = payee THEN v ELSE 0) - (IF w = payer THEN v + Fee ELSE 0)
         /\ Owned(w) = x /\ Owned(w)' = (x - y) + z
    BY <2>4, <2>5, <2>6, <2>7, <2>8, <2>9
  <2>11. Owned(w)' = x + (IF w = payee THEN v ELSE 0) - (IF w = payer THEN v + Fee ELSE 0)
    BY <2>10
  <2>. QED  BY <2>9, <2>10, <2>11
<1>8. agreed' = agreed
  BY DEF Mine
<1>9. Promise!Settle(s, payer, payee)
  BY <1>4, <1>5, <1>6, <1>7, <1>8 DEF Promise!Settle
<1>. QED  BY <1>4, <1>9

-----------------------------------------------------------------------------
(* Initial state, every step, and the theorems.                            *)

(* The ghost at the start.                                                 *)
Unknown ==
    [offer |-> [s \in Slates |-> <<>>],
     home |-> [w \in Wallets |-> [n \in Nat |-> <<>>]],
     done |-> [s \in Slates |-> NoTx]]

(* A wallet starts with good books.                                        *)
LEMMA InitBooks ==
    ASSUME NEW g, g = Unknown, NEW w \in Wallets, NEW d, d = InitDb(w)
    PROVE  PayDb(g, w, d)
<1>1. /\ IsFiniteSet(Funds[w]) /\ Funds[w] \subseteq Coin
      /\ \A c \in Funds[w] : c.own = w /\ c.child <= Cardinality(Funds[w])
  BY ExchangeAssumption
<1>2. Cardinality(Funds[w]) \in Nat
  BY <1>1, FS_CardinalityType
<1>3. Funds[w] \subseteq Purse(w)
  BY <1>1, SlateAssumption DEF Coin, Purse
<1>4. /\ DOMAIN d = DbFields /\ d.next = Cardinality(Funds[w]) + 1 /\ DOMAIN d.coins = Funds[w]
      /\ d.log = [p \in Pos |-> NoEntry] /\ d.nextTx = [a \in Accts |-> 1]
      /\ d.ctx = [s \in Slates |-> NoContext] /\ d.draws = [s \in Slates |-> 0]
      /\ d.files = [s \in Slates |-> NoTx]
  BY DEF InitDb, DbFields
<1>5. Book(g, w, d)
  <2>1. \A s \in Slates : Filed(g, s, d.files[s])
    BY <1>4 DEF Filed, Unsigned
  <2>2. \A a \in Accts : d.nextTx[a] \in Nat \ {0}
    BY <1>4
  <2>. QED  BY <1>3, <1>4, <2>1, <2>2 DEF Book
<1>6. KeysOK(g, w, d)
  <2>1. d.next \in Nat \ {0}
    BY <1>2, <1>4
  <2>2. \A c \in Funds[w] : c.child < d.next /\ c.child \in Nat
    BY <1>1, <1>2, <1>3, <1>4 DEF Purse
  <2>3. \A n \in Nat : g.home[w][n] = <<>>
    BY DEF Unknown
  <2>. QED  BY <2>1, <2>2, <2>3 DEF KeysOK
<1>7. ASSUME NEW s \in Slates PROVE HeadOK(g, w, d, s)
  <2>1. d.ctx[s] = NoContext /\ d.draws[s] = 0 /\ g.offer[s] = <<>>
    BY <1>4 DEF Unknown
  <2>2. \A p \in Pos : d.log[p].slate = <<>>
    BY <1>4 DEF NoEntry
  <2>3. ~Received(d, s)
    BY <2>2, NotEmpty DEF Received, Found
  <2>. QED  BY <2>1, <2>3 DEF HeadOK
<1>. QED  BY <1>5, <1>6, <1>7 DEF PayDb

(* The chain starts with what the wallets have.                            *)
LEMMA InitMade ==
    ASSUME Init
    PROVE  /\ OnChain = {} /\ Spent = {} /\ ChainOK
           /\ \A w \in Wallets : Part(Made, w) = Funds[w]
<1>1. chain = <<>>
  BY DEF Init
<1>2. OnChain = {}
  BY <1>1 DEF OnChain, ToSet
<1>3. Spent = {}
  BY <1>2 DEF Spent
<1>4. ASSUME NEW w \in Wallets
      PROVE  Part(Made, w) = Funds[w] /\ IsFiniteSet(Funds[w]) /\ Funds[w] \subseteq Purse(w)
  <2>1. \A v \in Wallets : \A c \in Funds[v] : c.own = v
    BY ExchangeAssumption
  <2>2. Made = UNION {Funds[v] : v \in Wallets}
    BY <1>2 DEF Made
  <2>3. Part(Made, w) = Funds[w]
    BY <2>1, <2>2 DEF Part
  <2>4. IsFiniteSet(Funds[w]) /\ Funds[w] \subseteq Coin
    BY ExchangeAssumption
  <2>. QED  BY <2>1, <2>3, <2>4, SlateAssumption DEF Coin, Purse
<1>5. \E S : chain \in Seq(S)
  <2>1. <<>> \in Seq({})
    OBVIOUS
  <2>. QED  BY <1>1, <2>1
<1>6. ChainOK
  BY <1>3, <1>4, <1>5 DEF ChainOK
<1>. QED  BY <1>2, <1>3, <1>4, <1>6

(* The invariant holds at the start.                                       *)
LEMMA InitAgrees ==
    ASSUME Init
    PROVE  Agrees
<1>1. PICK g : g = Unknown
  OBVIOUS
<1>2. Ghost(g)
  <2>1. agreed = [s \in Slates |-> <<>>]
    BY DEF Init
  <2>2. \A s \in Slates : g.offer[s] = <<>> /\ g.done[s] = NoTx
    BY <1>1 DEF Unknown
  <2>. QED  BY <2>1, <2>2 DEF Ghost
<1>3. \A w \in Wallets : PayDb(g, w, db[w])
  BY <1>1, InitBooks DEF Init
<1>4. MsgsOK(g, msgs) /\ TorOK(g, tor)
  BY DEF Init, MsgsOK, TorOK
<1>5. ChainOK /\ \A tx \in pool \cup OnChain : Known(g, tx)
  BY InitMade DEF Init
<1>. QED  BY <1>2, <1>3, <1>4, <1>5 DEF PayInv, Agrees

(* So does the ledger's initial state.                                     *)
LEMMA InitPromise ==
    ASSUME Init
    PROVE  Promise!Init
<1>1. agreed = [s \in Slates |-> <<>>]
  BY DEF Init
<1>2. SettledOnChain = [s \in Slates |-> <<>>]
  BY InitMade DEF SettledOnChain, TxOf
<1>3. \A w \in Wallets : Owned(w) = Total(Funds[w])
  <2> SUFFICES ASSUME NEW w \in Wallets PROVE Owned(w) = Total(Funds[w])
    OBVIOUS
  <2>1. Made \ Spent = Made /\ Part(Made, w) = Funds[w]
    BY InitMade
  <2>. QED  BY <2>1, OwnedIs
<1>. QED  BY <1>1, <1>2, <1>3 DEF Promise!Init

(* A wallet draws at most two contexts for a slate, and an amount is not   *)
(* zero. Without either the code can settle a slate the other way round    *)
(* (see README).                                                           *)
Bounded == MaxCtx <= 2 /\ 0 \notin Amounts

(* Commands that start a slate keep the invariant.                         *)
LEMMA StartPaid ==
    ASSUME Inv, NEW g, PayInv(g), NEW w \in Wallets, NEW a \in Accts, Start(w, a)
    PROVE  Agrees'
<1>1. PICK s \in Slates, amount \in Amounts, dest \in Dests :
        \/ \E ttl \in Ttls, late \in BOOLEAN, proof \in {<<>>, dest} :
              \/ send(w, a, s, amount, ttl, dest, late, proof)
              \/ api_init_send_tx(w, a, s, amount, ttl, dest, late, proof)
              \/ send_tor(w, a, s, amount, ttl, dest, late, proof)
        \/ issue_invoice_tx(w, a, s, amount, dest)
        \/ api_tx_lock_outputs(w, a, s)
  BY DEF Start
<1>2. CASE \E ttl \in Ttls, late \in BOOLEAN, proof \in {<<>>, dest} :
              send(w, a, s, amount, ttl, dest, late, proof)
  BY <1>2, SendPaid
<1>3. CASE \E ttl \in Ttls, late \in BOOLEAN, proof \in {<<>>, dest} :
              api_init_send_tx(w, a, s, amount, ttl, dest, late, proof)
  BY <1>3, ApiInitPaid
<1>4. CASE \E ttl \in Ttls, late \in BOOLEAN, proof \in {<<>>, dest} :
              send_tor(w, a, s, amount, ttl, dest, late, proof)
  BY <1>4, SendTorPaid
<1>5. CASE issue_invoice_tx(w, a, s, amount, dest)
  BY <1>5, InvoicePaid
<1>6. CASE api_tx_lock_outputs(w, a, s)
  BY <1>6, ApiLockPaid
<1>. QED  BY <1>1, <1>2, <1>3, <1>4, <1>5, <1>6

(* So do commands that continue one.                                       *)
LEMMA ContinuePaid ==
    ASSUME Bounded, Inv, NEW g, PayInv(g), NEW w \in Wallets, NEW a \in Accts, Continue(w, a)
    PROVE  Agrees'
<1>0. MaxCtx <= 2 /\ 0 \notin Amounts
  BY DEF Bounded
<1>1. CASE \E m \in msgs : receive(w, a, m)
  BY <1>0, <1>1, ReceivePaid
<1>2. CASE \E m \in msgs : process_invoice(w, a, m)
  BY <1>0, <1>2, PayPaid
<1>3. CASE \E m \in msgs : post(w, a, m)
  BY <1>3, PostPaid
<1>4. CASE \E m \in msgs, nopost \in BOOLEAN : finalize(w, a, m, nopost)
  BY <1>0, <1>4, FinalizePaid
<1>5. CASE \E v \in Wallets : foreign_receive_tx(w, a, v)
  BY <1>0, <1>5, ForeignReceivePaid
<1>6. CASE \E v \in Wallets : foreign_finalize_tx(w, a, v)
  BY <1>0, <1>6, ForeignFinalizePaid
<1>. QED  BY <1>1, <1>2, <1>3, <1>4, <1>5, <1>6 DEF Continue

(* So does every step.                                                     *)
LEMMA NextAgrees ==
    ASSUME Bounded, Inv, Agrees, [Next]_vars
    PROVE  Agrees'
<1>0. 0 \notin Amounts
  BY DEF Bounded
<1>1. PICK g : PayInv(g)
  BY DEF Agrees
<1>2. CASE UNCHANGED vars
  <2>1. UNCHANGED <<db, msgs, tor, pool, chain, agreed>>
    BY <1>2 DEF vars
  <2>2. MsgsOK(g, msgs') /\ TorOK(g, tor') /\ PoolOK(g, pool, pool')
    BY <1>1, <2>1, PayInvParts DEF PoolOK
  <2>. QED  BY <1>1, <2>1, <2>2, SameDb DEF Agrees
<1>3. CASE \E w \in Wallets, a \in Accts : Start(w, a)
  BY <1>1, <1>3, StartPaid
<1>4. CASE \E w \in Wallets, a \in Accts : Continue(w, a)
  BY <1>1, <1>4, ContinuePaid
<1>5. CASE \E w \in Wallets : send_answered(w)
  BY <1>0, <1>1, <1>5, SendAnsweredPaid
<1>6. CASE \E w \in Wallets : reply_answered(w)
  BY <1>1, <1>6, ReplyAnsweredPaid
<1>7. CASE \E w \in Wallets : tor_failed(w)
  BY <1>1, <1>7, TorFailedPaid
<1>8. CASE \E w \in Wallets, i \in 1 .. MaxEntries : repost(w, i)
  BY <1>1, <1>8, RepostPaid
<1>9. CASE \E w \in Wallets, p \in Pos : cancel(w, p)
  BY <1>1, <1>9, CancelPaid
<1>10. CASE \E tx \in pool : Mine(tx)
  BY <1>1, <1>10, MinePaid DEF Agrees
<1>11. CASE \E m \in msgs : damage(m)
  BY <1>1, <1>11, DamagePaid
<1>. QED  BY <1>2, <1>3, <1>4, <1>5, <1>6, <1>7, <1>8, <1>9, <1>10, <1>11 DEF Next

(* A step that offers.                                                     *)
Offers ==
    \E s \in Slates, w \in Wallets, kind \in {"send", "invoice"}, amount \in Amounts :
        agreed[s] = <<>> /\ Agree(s, w, kind, amount)

(* A step that mines no block leaves the chain alone and changes offers as *)
(* Ledger does.                                                            *)
LEMMA StepOffers ==
    ASSUME Next
    PROVE  (\E tx \in pool : Mine(tx)) \/ (chain' = chain /\ (agreed' = agreed \/ Offers))
<1>1. ASSUME NEW w \in Wallets, NEW a \in Accts, Start(w, a)
      PROVE  chain' = chain /\ (agreed' = agreed \/ Offers)
  <2>1. PICK s \in Slates, amount \in Amounts, dest \in Dests :
          \/ \E ttl \in Ttls, late \in BOOLEAN, proof \in {<<>>, dest} :
                \/ send(w, a, s, amount, ttl, dest, late, proof)
                \/ api_init_send_tx(w, a, s, amount, ttl, dest, late, proof)
                \/ send_tor(w, a, s, amount, ttl, dest, late, proof)
          \/ issue_invoice_tx(w, a, s, amount, dest)
          \/ api_tx_lock_outputs(w, a, s)
    BY <1>1 DEF Start
  <2>2. ASSUME NEW ttl, NEW late, NEW proof,
               \/ send(w, a, s, amount, ttl, dest, late, proof)
               \/ api_init_send_tx(w, a, s, amount, ttl, dest, late, proof)
               \/ send_tor(w, a, s, amount, ttl, dest, late, proof)
        PROVE  chain' = chain /\ agreed[s] = <<>> /\ Agree(s, w, "send", amount)
    BY <2>2 DEF send, api_init_send_tx, send_tor, CanInit
  <2>3. issue_invoice_tx(w, a, s, amount, dest) =>
           chain' = chain /\ agreed[s] = <<>> /\ Agree(s, w, "invoice", amount)
    BY DEF issue_invoice_tx
  <2>4. api_tx_lock_outputs(w, a, s) => chain' = chain /\ agreed' = agreed
    BY DEF api_tx_lock_outputs
  <2>. QED  BY <2>1, <2>2, <2>3, <2>4 DEF Offers
<1>2. ASSUME NEW w \in Wallets, NEW a \in Accts, Continue(w, a)
      PROVE  chain' = chain /\ agreed' = agreed
  BY <1>2 DEF Continue, receive, process_invoice, post, finalize, foreign_receive_tx, foreign_finalize_tx
<1>3. ASSUME NEW w \in Wallets, send_answered(w) \/ reply_answered(w) \/ tor_failed(w)
      PROVE  chain' = chain /\ agreed' = agreed
  BY <1>3 DEF send_answered, reply_answered, tor_failed
<1>4. ASSUME NEW w \in Wallets, NEW i, repost(w, i) \/ cancel(w, i)
      PROVE  chain' = chain /\ agreed' = agreed
  BY <1>4 DEF repost, cancel
<1>5. ASSUME NEW m, damage(m)
      PROVE  chain' = chain /\ agreed' = agreed
  BY <1>5 DEF damage
<1>. QED  BY <1>1, <1>2, <1>3, <1>4, <1>5 DEF Next

(* The ledger seen in the chain stays when the chain does.                 *)
LEMMA LedgerStays ==
    ASSUME chain' = chain
    PROVE  SettledOnChain' = SettledOnChain /\ \A w : Owned(w)' = Owned(w)
BY DEF SettledOnChain, TxOf, OnChain, Payer, Payee, SlateOf, Owned, Unspent, Spent

(* Every step is a step of Ledger or changes nothing in it.                *)
LEMMA NextKeepsPromise ==
    ASSUME Agrees, [Next]_vars
    PROVE  [Promise!Next]_<<agreed, SettledOnChain, [w \in Wallets |-> Owned(w)]>>
<1>1. PICK g : PayInv(g)
  BY DEF Agrees
<1>2. ASSUME NEW tx \in pool, Mine(tx) PROVE Promise!Next
  <2>1. \E s \in Slates, payer, payee \in Wallets : Promise!Settle(s, payer, payee)
    BY <1>1, <1>2, MineSettles
  <2>. QED  BY <2>1 DEF Promise!Next
<1>3. ASSUME chain' = chain, agreed' = agreed
      PROVE  UNCHANGED <<agreed, SettledOnChain, [w \in Wallets |-> Owned(w)]>>
  BY <1>3, LedgerStays
<1>4. ASSUME chain' = chain, Offers PROVE Promise!Next
  <2>1. PICK s \in Slates, w \in Wallets, kind \in {"send", "invoice"}, amount \in Amounts :
          agreed[s] = <<>> /\ agreed' = [agreed EXCEPT ![s] = <<w, kind, amount>>]
    BY <1>4 DEF Offers, Agree
  <2>2. SettledOnChain' = SettledOnChain /\ [v \in Wallets |-> Owned(v)]' = [v \in Wallets |-> Owned(v)]
    BY <1>4, LedgerStays
  <2>3. Promise!Offer(s, w, kind, amount)
    BY <2>1, <2>2 DEF Promise!Offer
  <2>. QED  BY <2>3 DEF Promise!Next
<1>5. CASE Next
  BY <1>2, <1>3, <1>4, <1>5, StepOffers
<1>6. CASE UNCHANGED vars
  BY <1>3, <1>6 DEF vars
<1>. QED  BY <1>5, <1>6

(* In every state the offers, the wallets' books, every slate in flight    *)
(* and every signed transaction fit together: what is signed for a slate   *)
(* moves what was agreed (Spec => []Agrees).                               *)
THEOREM BooksAgree ==
    ASSUME Bounded
    PROVE  Spec => []Agrees
<1>1. Init => Agrees
  BY InitAgrees
<1>2. Inv /\ Agrees /\ [Next]_vars => Agrees'
  BY NextAgrees
<1>3. Spec => []Inv
  BY Inductive
<1>. QED  BY <1>1, <1>2, <1>3, PTL DEF Spec

(* The exchange of slates implements the ledger: whatever is lost,         *)
(* damaged, repeated, reordered, retried, cancelled or reposted, and by    *)
(* whatever mix of messages and Tor, the chain moves exactly the amount    *)
(* agreed from payer to payee, and at most once for a slate; for any       *)
(* number of wallets, slates, accounts, coins and amounts.                 *)
THEOREM ExchangePaysAsAgreed ==
    ASSUME Bounded
    PROVE  Spec => PaysAsAgreed
<1>1. Init => Promise!Init
  BY InitPromise
<1>2. Agrees /\ [Next]_vars => [Promise!Next]_<<agreed, SettledOnChain, [w \in Wallets |-> Owned(w)]>>
  BY NextKeepsPromise
<1>3. Spec => []Agrees
  BY BooksAgree
<1>. QED  BY <1>1, <1>2, <1>3, PTL DEF Spec, PaysAsAgreed, Promise!Spec

=============================================================================
