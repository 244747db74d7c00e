-------------------------- MODULE SelectionProofs --------------------------
(***************************************************************************)
(* Coin selection, for any coins, amounts, limits, weights and fees.       *)
(*                                                                         *)
(* Total is a recursive function; facts about it come from a function that *)
(* sums the prefixes (Sums), and induction over lengths is replaced by     *)
(* least counterexamples (LeastNat).                                       *)
(*                                                                         *)
(* RefusesOnlyShort needs that a selection of as many coins as there are   *)
(* is all of them (Within), though one branch of select_coins returns them *)
(* in reverse.  RetryFits needs that the largest of the first coins are a  *)
(* window of the sorted coins, and that the first window that reaches      *)
(* their total has exactly that total (SelectWindow): the retry then needs *)
(* no change, so the weight that was checked without change still fits.    *)
(***************************************************************************)
EXTENDS Selection, FiniteSetTheorems, WellFoundedInduction, TLAPS

-----------------------------------------------------------------------------
(* Sums of sequences.                                                      *)

(* Every nonempty set of naturals has a least element: what stands in for  *)
(* induction over lengths.                                                 *)
LEMMA LeastNat ==
    ASSUME NEW S, S \subseteq Nat, S # {}
    PROVE  \E n \in S : \A m \in S : n <= m
<1>1. PICK n \in S : \A m \in S : ~(<<m, n>> \in OpToRel(<, Nat))
  BY NatLessThanWellFounded, WFMin
<1>2. \A m, k \in Nat : m < k => <<m, k>> \in OpToRel(<, Nat)
  BY DEF OpToRel
<1>3. \A m \in S : ~(m < n)
  BY <1>1, <1>2
<1>. QED  BY <1>3

(* The sums of the first n values of s.                                    *)
Sums(f, s) ==
    /\ f \in [0 .. Len(s) -> Nat] /\ f[0] = 0
    /\ \A n \in 1 .. Len(s) : f[n] = f[n - 1] + s[n]

(* Every sequence has them.                                                *)
LEMMA SumsExist ==
    ASSUME NEW s \in Seq(Nat)
    PROVE  \E f : Sums(f, s)
<1> DEFINE Upto(n, f) == /\ f \in [0 .. n -> Nat] /\ f[0] = 0
                         /\ \A k \in 1 .. n : f[k] = f[k - 1] + s[k]
           Bad == {n \in 0 .. Len(s) : ~ \E f : Upto(n, f)}
<1>1. CASE Bad = {}
  <2>1. Len(s) \in 0 .. Len(s)
    OBVIOUS
  <2>. QED  BY <1>1, <2>1 DEF Sums
<1>2. CASE Bad # {}
  <2>1. PICK n \in Bad : \A m \in Bad : n <= m
    <3> HIDE DEF Bad
    <3>1. Bad \subseteq Nat
      BY DEF Bad
    <3>. QED  BY <1>2, <3>1, LeastNat
  <2>2. n # 0
    <3>1. Upto(0, [k \in 0 .. 0 |-> 0])
      OBVIOUS
    <3>. QED  BY <3>1
  <2>3. n - 1 \in 0 .. Len(s) /\ n - 1 \notin Bad
    <3>1. n \in 1 .. Len(s)
      BY <2>1, <2>2
    <3> HIDE DEF Bad
    <3>. QED  BY <2>1, <3>1
  <2>4. PICK f : Upto(n - 1, f)
    BY <2>3
  <2> DEFINE g == [k \in 0 .. n |-> IF k = n THEN f[n - 1] + s[n] ELSE f[k]]
  <2>5. Upto(n, g)
    <3>1. n \in 1 .. Len(s) /\ s[n] \in Nat /\ f[n - 1] \in Nat
      BY <2>1, <2>2, <2>4
    <3>2. g \in [0 .. n -> Nat] /\ g[0] = 0
      BY <3>1, <2>4
    <3>3. ASSUME NEW k \in 1 .. n PROVE g[k] = g[k - 1] + s[k]
      <4>1. g[k - 1] = f[k - 1]
        BY <3>1
      <4>2. k # n => g[k] = f[k] /\ f[k] = f[k - 1] + s[k]
        BY <3>1, <2>4
      <4>. QED  BY <4>1, <4>2, <3>1
    <3>. QED  BY <3>2, <3>3
  <2>. QED  BY <2>1, <2>5
<1>. QED  BY <1>1, <1>2

(* Total is the last of them.                                              *)
LEMMA TotalIs ==
    ASSUME NEW s \in Seq(Nat), NEW f, Sums(f, s)
    PROVE  Total(s) = f[Len(s)]
<1> DEFINE IsSum(g) == g = [n \in 0 .. Len(s) |-> IF n = 0 THEN 0 ELSE g[n - 1] + s[n]]
           sum == CHOOSE g : IsSum(g)
<1>1. IsSum(f)
  <2>1. f = [n \in 0 .. Len(s) |-> f[n]]
    BY DEF Sums
  <2>2. \A n \in 0 .. Len(s) : f[n] = IF n = 0 THEN 0 ELSE f[n - 1] + s[n]
    BY DEF Sums
  <2>. QED  BY <2>1, <2>2
<1>2. IsSum(sum)
  <2> HIDE DEF IsSum
  <2>. QED  BY <1>1
<1>3. Total(s) = sum[Len(s)]
  BY DEF Total
<1> HIDE DEF sum
<1> DEFINE Bad == {n \in 0 .. Len(s) : sum[n] # f[n]}
<1>4. CASE Bad = {}
  BY <1>3, <1>4
<1>5. CASE Bad # {}
  <2>1. PICK n \in Bad : \A m \in Bad : n <= m
    <3> HIDE DEF Bad
    <3>1. Bad \subseteq Nat
      BY DEF Bad
    <3>. QED  BY <1>5, <3>1, LeastNat
  <2>2. n # 0
    BY <1>2, <2>1 DEF Sums
  <2>3. n - 1 \in 0 .. Len(s) /\ n - 1 \notin Bad
    BY <2>1, <2>2
  <2>4. sum[n] = sum[n - 1] + s[n] /\ f[n] = f[n - 1] + s[n]
    BY <1>2, <2>1, <2>2 DEF Sums
  <2>. QED  BY <2>1, <2>3, <2>4
<1>. QED  BY <1>4, <1>5

(* They are natural numbers.                                               *)
LEMMA SumsVal ==
    ASSUME NEW s \in Seq(Nat), NEW f, Sums(f, s), NEW n \in 0 .. Len(s)
    PROVE  f[n] \in Nat
BY DEF Sums

(* Each adds one value.                                                    *)
LEMMA SumsStep ==
    ASSUME NEW s \in Seq(Nat), NEW f, Sums(f, s), NEW n \in 1 .. Len(s)
    PROVE  f[n - 1] \in Nat /\ s[n] \in Nat /\ f[n] = f[n - 1] + s[n]
<1>1. n - 1 \in 0 .. Len(s)
  OBVIOUS
<1>2. f[n - 1] \in Nat
  BY <1>1, SumsVal
<1>. QED  BY <1>2 DEF Sums

(* They grow.                                                              *)
LEMMA SumsGrow ==
    ASSUME NEW s \in Seq(Nat), NEW f, Sums(f, s),
           NEW i \in 0 .. Len(s), NEW j \in 0 .. Len(s), i <= j
    PROVE  f[i] <= f[j]
<1> DEFINE Bad == {n \in i .. Len(s) : f[n] < f[i]}
<1>0. f[i] \in Nat /\ f[j] \in Nat
  BY SumsVal
<1>1. CASE Bad = {}
  <2>1. j \in i .. Len(s) /\ j \notin Bad
    BY <1>1
  <2>. QED  BY <1>0, <2>1
<1>2. CASE Bad # {}
  <2>1. PICK n \in Bad : \A m \in Bad : n <= m
    <3> HIDE DEF Bad
    <3>1. Bad \subseteq Nat
      BY DEF Bad
    <3>. QED  BY <1>2, <3>1, LeastNat
  <2>2. n \in i .. Len(s) /\ n # i /\ f[n] < f[i]
    BY <1>0, <2>1
  <2>3. n - 1 \in i .. Len(s) /\ n - 1 \notin Bad
    <3>1. n \in i + 1 .. Len(s)
      BY <2>2
    <3> HIDE DEF Bad
    <3>. QED  BY <2>1, <3>1
  <2>4. f[n - 1] \in Nat /\ s[n] \in Nat /\ f[n] = f[n - 1] + s[n]
    <3>1. n \in 1 .. Len(s)
      BY <2>2, <2>3
    <3>. QED  BY <3>1, SumsStep
  <2>5. ~(f[n - 1] < f[i])
    BY <2>3
  <2>6. ~(f[n] < f[i])
    BY <1>0, <2>4, <2>5
  <2>. QED  BY <2>2, <2>6
<1>. QED  BY <1>1, <1>2

(* The total of a part of a sequence is a difference of two of them.       *)
LEMMA PartSum ==
    ASSUME NEW s \in Seq(Nat), NEW f, Sums(f, s),
           NEW i \in 1 .. Len(s) + 1, NEW j \in i - 1 .. Len(s)
    PROVE  /\ SubSeq(s, i, j) \in Seq(Nat) /\ Len(SubSeq(s, i, j)) = j - i + 1
           /\ Total(SubSeq(s, i, j)) = f[j] - f[i - 1]
           /\ Total(SubSeq(s, i, j)) \in Nat
<1> DEFINE t == SubSeq(s, i, j)
           g == [n \in 0 .. Len(t) |-> f[i - 1 + n] - f[i - 1]]
<1>1. t \in Seq(Nat) /\ Len(t) = j - i + 1 /\ \A n \in 1 .. Len(t) : t[n] = s[i - 1 + n]
  OBVIOUS
<1> HIDE DEF t
<1>2. ASSUME NEW n \in 0 .. Len(t) PROVE i - 1 + n \in 0 .. Len(s) /\ i - 1 \in 0 .. Len(s)
  BY <1>1
<1>3. ASSUME NEW n \in 0 .. Len(t) PROVE g[n] \in Nat
  <2>1. f[i - 1] \in Nat /\ f[i - 1 + n] \in Nat
    BY <1>2, SumsVal
  <2>2. f[i - 1] <= f[i - 1 + n]
    BY <1>2, SumsGrow
  <2>. QED  BY <2>1, <2>2
<1>4. ASSUME NEW n \in 1 .. Len(t) PROVE g[n] = g[n - 1] + t[n]
  <2>1. i - 1 + n \in 1 .. Len(s)
    BY <1>1
  <2> DEFINE m == i - 1 + n
  <2>2. f[m - 1] \in Nat /\ s[m] \in Nat /\ f[m] = f[m - 1] + s[m]
    <3> HIDE DEF m
    <3>. QED  BY <2>1, SumsStep DEF m
  <2>3. n \in 0 .. Len(t) /\ n - 1 \in 0 .. Len(t) /\ m - 1 = i - 1 + (n - 1)
    BY <1>1
  <2>4. g[n - 1] = f[m - 1] - f[i - 1] /\ g[n] = f[m] - f[i - 1]
    BY <2>3
  <2>5. f[i - 1] \in Nat /\ t[n] = s[m]
    BY <1>1, <1>2, <2>3, SumsVal
  <2> HIDE DEF m, g
  <2>6. f[m] - f[i - 1] = (f[m - 1] - f[i - 1]) + s[m]
    BY <2>2, <2>5
  <2>. QED  BY <2>4, <2>5, <2>6
<1>5. g[0] = 0
  <2>1. 0 \in 0 .. Len(t) /\ i - 1 + 0 = i - 1
    BY <1>1
  <2>2. g[0] = f[i - 1] - f[i - 1] /\ f[i - 1] \in Nat
    BY <2>1, <1>2, SumsVal
  <2>. QED  BY <2>2
<1>6. Sums(g, t)
  BY <1>3, <1>4, <1>5 DEF Sums
<1>7. Total(t) = g[Len(t)]
  BY <1>1, <1>6, TotalIs
<1>8. g[Len(t)] = f[j] - f[i - 1] /\ g[Len(t)] \in Nat
  <2>1. Len(t) \in 0 .. Len(t) /\ i - 1 + Len(t) = j
    BY <1>1
  <2>. QED  BY <2>1, <1>3
<1>. QED  BY <1>1, <1>7, <1>8 DEF t

(* Totals are natural numbers.                                             *)
LEMMA TotalNat == ASSUME NEW s \in Seq(Nat) PROVE Total(s) \in Nat
<1>1. PICK f : Sums(f, s)
  BY SumsExist
<1>. QED  BY <1>1, TotalIs DEF Sums

(* The total of nothing.                                                   *)
LEMMA TotalEmpty == Total(<<>>) = 0
<1> DEFINE s == <<>>
<1>1. s \in Seq(Nat) /\ Len(s) = 0
  OBVIOUS
<1> HIDE DEF s
<1>2. PICK f : Sums(f, s)
  BY <1>1, SumsExist
<1>3. Total(s) = f[0] /\ f[0] = 0
  BY <1>1, <1>2, TotalIs DEF Sums
<1>. QED  BY <1>3 DEF s

(* The total of one value.                                                 *)
LEMMA TotalOne == ASSUME NEW v \in Nat PROVE Total(<<v>>) = v
<1> DEFINE s == <<v>>
<1>1. s \in Seq(Nat) /\ Len(s) = 1 /\ s[1] = v
  OBVIOUS
<1> HIDE DEF s
<1>2. PICK f : Sums(f, s)
  BY <1>1, SumsExist
<1>3. Total(s) = f[1] /\ f[0] = 0
  BY <1>1, <1>2, TotalIs DEF Sums
<1>4. f[1] = f[0] + v
  <2>1. 1 \in 1 .. Len(s)
    BY <1>1
  <2>2. f[1] = f[1 - 1] + s[1]
    BY <1>1, <1>2, <2>1, SumsStep
  <2>. QED  BY <1>1, <2>2
<1>. QED  BY <1>3, <1>4 DEF s

(* Coins have a value, so a selection that is not empty is worth           *)
(* something.                                                              *)
LEMMA TotalPositive ==
    ASSUME NEW s \in Seq(Nat \ {0}), s # <<>>
    PROVE  Total(s) \in Nat \ {0}
<1>1. s \in Seq(Nat) /\ Len(s) \in Nat \ {0}
  OBVIOUS
<1>2. PICK f : Sums(f, s)
  BY <1>1, SumsExist
<1>3. Len(s) \in 1 .. Len(s) /\ s[Len(s)] \in Nat \ {0}
  BY <1>1
<1>4. f[Len(s) - 1] \in Nat /\ f[Len(s)] = f[Len(s) - 1] + s[Len(s)]
  BY <1>1, <1>2, <1>3, SumsStep
<1>5. Total(s) = f[Len(s)]
  BY <1>1, <1>2, TotalIs
<1>. QED  BY <1>3, <1>4, <1>5

(* The sums of the last n values are those of the reversed sequence.       *)
LEMMA ReverseSums ==
    ASSUME NEW s \in Seq(Nat), NEW f, Sums(f, s)
    PROVE  /\ Reverse(s) \in Seq(Nat) /\ Len(Reverse(s)) = Len(s)
           /\ Sums([n \in 0 .. Len(s) |-> f[Len(s)] - f[Len(s) - n]], Reverse(s))
<1> DEFINE t == Reverse(s)
           g == [n \in 0 .. Len(s) |-> f[Len(s)] - f[Len(s) - n]]
<1>1. t \in Seq(Nat) /\ Len(t) = Len(s) /\ \A n \in 1 .. Len(s) : t[n] = s[Len(s) - n + 1]
  BY DEF Reverse
<1> HIDE DEF t
<1>2. ASSUME NEW n \in 0 .. Len(s) PROVE g[n] \in Nat
  <2>1. Len(s) - n \in 0 .. Len(s) /\ Len(s) \in 0 .. Len(s) /\ Len(s) - n <= Len(s)
    OBVIOUS
  <2>2. f[Len(s) - n] <= f[Len(s)] /\ f[Len(s) - n] \in Nat /\ f[Len(s)] \in Nat
    BY <2>1, SumsGrow, SumsVal
  <2>. QED  BY <2>2
<1>3. ASSUME NEW n \in 1 .. Len(s) PROVE g[n] = g[n - 1] + t[n]
  <2> DEFINE m == Len(s) - n + 1
  <2>1. m \in 1 .. Len(s) /\ m - 1 = Len(s) - n /\ m = Len(s) - (n - 1)
    OBVIOUS
  <2>2. f[m] = f[m - 1] + s[m] /\ f[m - 1] \in Nat /\ s[m] \in Nat /\ f[Len(s)] \in Nat
    <3> HIDE DEF m
    <3>1. Len(s) \in 0 .. Len(s)
      OBVIOUS
    <3>. QED  BY <2>1, <3>1, SumsStep, SumsVal
  <2>3. g[n] = f[Len(s)] - f[m - 1] /\ g[n - 1] = f[Len(s)] - f[m]
    BY <2>1
  <2>4. t[n] = s[m]
    BY <1>1
  <2> HIDE DEF m, g
  <2>. QED  BY <2>2, <2>3, <2>4
<1>4. g[0] = 0
  BY DEF Sums
<1>5. Sums(g, t)
  BY <1>1, <1>2, <1>3, <1>4 DEF Sums
<1>. QED  BY <1>1, <1>5 DEF t

(* The order of coins does not change their total.                         *)
LEMMA TotalReverse ==
    ASSUME NEW s \in Seq(Nat)
    PROVE  Total(Reverse(s)) = Total(s)
<1>1. PICK f : Sums(f, s)
  BY SumsExist
<1>2. Total(s) = f[Len(s)] /\ f[Len(s)] \in Nat /\ f[0] = 0
  BY <1>1, TotalIs DEF Sums
<1> DEFINE g == [n \in 0 .. Len(s) |-> f[Len(s)] - f[Len(s) - n]]
<1>3. Reverse(s) \in Seq(Nat) /\ Len(Reverse(s)) = Len(s) /\ Sums(g, Reverse(s))
  BY <1>1, ReverseSums
<1>4. Total(Reverse(s)) = g[Len(s)]
  <2> HIDE DEF g
  <2>. QED  BY <1>3, TotalIs
<1>5. g[Len(s)] = f[Len(s)] - f[0]
  OBVIOUS
<1>. QED  BY <1>2, <1>4, <1>5

-----------------------------------------------------------------------------
(* Coin selection.                                                         *)

(* Every nonempty set of naturals up to N has a greatest element.          *)
LEMMA GreatestNat ==
    ASSUME NEW N \in Nat, NEW S, S \subseteq 0 .. N, S # {}
    PROVE  \E n \in S : \A m \in S : m <= n
<1> DEFINE T == {N - n : n \in S}
<1>1. T \subseteq Nat /\ T # {}
  <2>1. ASSUME NEW n \in S PROVE N - n \in Nat
    OBVIOUS
  <2>2. PICK n : n \in S
    OBVIOUS
  <2>. QED  BY <2>1, <2>2
<1>2. PICK t \in T : \A u \in T : t <= u
  <2> HIDE DEF T
  <2>. QED  BY <1>1, LeastNat
<1>3. PICK n \in S : t = N - n
  BY <1>2
<1>4. ASSUME NEW m \in S PROVE m <= n
  BY <1>2, <1>3
<1>. QED  BY <1>4

(* TakeWhile takes a prefix that reaches the amount.                       *)
LEMMA Taken ==
    ASSUME NEW s \in Seq(Nat), NEW amount \in Nat, Total(s) >= amount
    PROVE  \E n \in 0 .. Len(s) :
              TakeWhile(amount, s) = SubSeq(s, 1, n) /\ Total(SubSeq(s, 1, n)) >= amount
<1> DEFINE A == {m \in 0 .. Len(s) : Total(SubSeq(s, 1, m)) >= amount}
           P(m) == /\ Total(SubSeq(s, 1, m)) >= amount
                   /\ \A k \in 0 .. m - 1 : Total(SubSeq(s, 1, k)) < amount
<1>1. SubSeq(s, 1, Len(s)) = s
  OBVIOUS
<1>2. A \subseteq Nat /\ A # {}
  <2>1. Len(s) \in 0 .. Len(s)
    OBVIOUS
  <2>2. Len(s) \in A
    BY <1>1, <2>1
  <2>. QED  BY <2>2
<1>3. PICK m \in A : \A k \in A : m <= k
  <2> HIDE DEF A
  <2>. QED  BY <1>2, LeastNat
<1>4. PICK f : Sums(f, s)
  BY SumsExist
<1>5. P(m)
  <2>1. ASSUME NEW k \in 0 .. m - 1 PROVE Total(SubSeq(s, 1, k)) < amount
    <3>1. k \in 0 .. Len(s) /\ k \notin A
      <4>1. k \in 0 .. Len(s) /\ ~(m <= k)
        OBVIOUS
      <4> HIDE DEF A
      <4>. QED  BY <1>3, <4>1
    <3>2. Total(SubSeq(s, 1, k)) \in Nat
      <4>1. 1 \in 1 .. Len(s) + 1 /\ k \in 1 - 1 .. Len(s)
        BY <3>1
      <4>. QED  BY <1>4, <4>1, PartSum
    <3>3. ~(Total(SubSeq(s, 1, k)) >= amount)
      BY <3>1
    <3>. QED  BY <3>2, <3>3
  <2>. QED  BY <1>3, <2>1
<1> DEFINE n == CHOOSE i \in 0 .. Len(s) : P(i)
<1>6. n \in 0 .. Len(s) /\ P(n)
  <2>1. m \in 0 .. Len(s)
    OBVIOUS
  <2> HIDE DEF P
  <2>. QED  BY <1>5, <2>1
<1>7. TakeWhile(amount, s) = SubSeq(s, 1, n)
  BY DEF TakeWhile
<1> HIDE DEF n
<1>. QED  BY <1>6, <1>7

(* Values of coins, amounts asked for and counts.                          *)
Money == Nat \ {0}

(* A selection from s: no more coins than s, all of them if as many, and   *)
(* some if there are any.                                                  *)
Within(R, s) ==
    /\ R \in Seq(Money) /\ Len(R) <= Len(s)
    /\ Len(R) = Len(s) => Total(R) = Total(s)
    /\ s # <<>> => R # <<>>

(* A part of a sequence of coins is one, and it is the whole if it is as   *)
(* long.                                                                   *)
LEMMA Part ==
    ASSUME NEW s \in Seq(Money), NEW i \in 1 .. Len(s) + 1, NEW j \in i - 1 .. Len(s)
    PROVE  /\ SubSeq(s, i, j) \in Seq(Money) /\ Len(SubSeq(s, i, j)) = j - i + 1
           /\ Len(SubSeq(s, i, j)) = Len(s) => SubSeq(s, i, j) = s
<1>1. SubSeq(s, i, j) \in Seq(Money) /\ Len(SubSeq(s, i, j)) = j - i + 1
  BY DEF Money
<1>2. CASE j - i + 1 = Len(s)
  <2>1. i = 1 /\ j = Len(s)
    BY <1>2
  <2>. QED  BY <1>1, <2>1
<1>. QED  BY <1>1, <1>2

(* select_from selects from coins that reach the amount so that they still *)
(* do.                                                                     *)
LEMMA Prefix ==
    ASSUME NEW s \in Seq(Money), NEW amount \in Money, NEW all \in BOOLEAN, Total(s) >= amount
    PROVE  /\ Within(select_from(amount, all, s), s)
           /\ Total(select_from(amount, all, s)) >= amount
<1>1. s \in Seq(Nat)
  BY DEF Money
<1>2. CASE all
  BY <1>2 DEF select_from, Within
<1>3. CASE ~all
  <2>1. PICK n \in 0 .. Len(s) : /\ TakeWhile(amount, s) = SubSeq(s, 1, n)
                                 /\ Total(SubSeq(s, 1, n)) >= amount
    BY <1>1, Taken DEF Money
  <2> DEFINE R == SubSeq(s, 1, n)
  <2>2. R \in Seq(Money) /\ Len(R) <= Len(s) /\ (Len(R) = Len(s) => R = s)
    <3>1. 1 \in 1 .. Len(s) + 1 /\ n \in 1 - 1 .. Len(s)
      OBVIOUS
    <3>2. /\ R \in Seq(Money) /\ Len(R) = n - 1 + 1
          /\ Len(R) = Len(s) => R = s
      BY <3>1, Part
    <3> HIDE DEF R
    <3>. QED  BY <3>2
  <2>3. R # <<>>
    <3>1. Total(R) >= amount /\ ~(0 >= amount)
      BY <2>1 DEF Money
    <3> HIDE DEF R
    <3>. QED  BY <3>1, TotalEmpty
  <2>4. select_from(amount, all, s) = R
    BY <1>3, <2>1 DEF select_from
  <2> HIDE DEF R
  <2>. QED  BY <2>1, <2>2, <2>3, <2>4 DEF Within, R
<1>. QED  BY <1>2, <1>3

(* The largest coins are a selection.                                      *)
LEMMA Largest ==
    ASSUME NEW s \in Seq(Money), NEW n \in Nat, n <= Len(s), s # <<>> => n > 0
    PROVE  Within(SubSeq(Reverse(s), 1, n), s)
<1> DEFINE t == Reverse(s)
           R == SubSeq(t, 1, n)
<1>1. t \in Seq(Money) /\ Len(t) = Len(s)
  BY DEF Reverse
<1>2. Total(t) = Total(s)
  BY TotalReverse DEF Money
<1> HIDE DEF t
<1>3. /\ R \in Seq(Money) /\ Len(R) = n - 1 + 1
      /\ Len(R) = Len(t) => R = t
  <2>1. 1 \in 1 .. Len(t) + 1 /\ n \in 1 - 1 .. Len(t)
    BY <1>1
  <2>. QED  BY <1>1, <2>1, Part
<1> HIDE DEF R
<1>4. s # <<>> => R # <<>>
  BY <1>3
<1>5. Within(R, s)
  BY <1>1, <1>2, <1>3, <1>4 DEF Within
<1>. QED  BY <1>5 DEF R, t

(* A window of n coins has n coins.                                        *)
LEMMA Window ==
    ASSUME NEW s \in Seq(Money), NEW n \in Money, n <= Len(s), NEW i \in DOMAIN Windows(s, n)
    PROVE  /\ i \in 1 .. Len(s) - n + 1 /\ Windows(s, n)[i] = SubSeq(s, i, i + n - 1)
           /\ Windows(s, n)[i] \in Seq(Money) /\ Len(Windows(s, n)[i]) = n
<1>1. i \in 1 .. Len(s) - n + 1 /\ Windows(s, n)[i] = SubSeq(s, i, i + n - 1)
  BY DEF Windows
<1>2. i \in 1 .. Len(s) + 1 /\ i + n - 1 \in i - 1 .. Len(s) /\ (i + n - 1) - i + 1 = n
  BY <1>1 DEF Money
<1>3. SubSeq(s, i, i + n - 1) \in Seq(Money) /\ Len(SubSeq(s, i, i + n - 1)) = n
  BY <1>2, Part
<1>. QED  BY <1>1, <1>3

(* The windows that reach the amount.                                      *)
Fits(s, n, amount) == {i \in DOMAIN Windows(s, n) : Total(Windows(s, n)[i]) >= amount}

(* There is a first one if there is one.                                   *)
LEMMA FirstFit ==
    ASSUME NEW s \in Seq(Money), NEW n \in Money, n <= Len(s), NEW amount, Fits(s, n, amount) # {}
    PROVE  LET F == Fits(s, n, amount)
               i1 == CHOOSE i \in F : \A j \in F : i <= j
           IN  i1 \in F /\ \A j \in F : i1 <= j
<1> DEFINE F == Fits(s, n, amount)
<1>1. F \subseteq Nat
  BY DEF Fits, Windows, Money
<1> HIDE DEF F
<1>2. \E i \in F : \A j \in F : i <= j
  BY <1>1, LeastNat DEF F
<1>3. LET i1 == CHOOSE i \in F : \A j \in F : i <= j IN i1 \in F /\ \A j \in F : i1 <= j
  BY <1>2
<1>. QED  BY <1>3 DEF F

(* Whichever way select_coins takes, it returns a selection.               *)
LEMMA SelectCoins ==
    ASSUME NEW s \in Seq(Money), NEW amount \in Money, NEW limit \in Money, NEW all \in BOOLEAN
    PROVE  Within(select_coins(s, amount, limit, all), s)
<1> DEFINE R == select_coins(s, amount, limit, all)
           F == Fits(s, limit, amount)
           i1 == CHOOSE i \in F : \A j \in F : i <= j
           w == Windows(s, limit)
           n == IF limit < Len(s) THEN limit ELSE Len(s)
           a == select_from(amount, all, w[i1])
           b == select_from(amount, FALSE, s)
           c == select_from(amount, all, s)
           o == SubSeq(Reverse(s), 1, n)
           enough == Total(s) >= amount
<1>0. Len(s) \in Nat /\ limit \in Nat /\ limit > 0
  BY DEF Money
<1>5. R = CASE Len(s) > limit /\ F # {} -> a
            [] Len(s) > limit /\ F = {} /\ enough -> b
            [] Len(s) <= limit /\ enough -> c
            [] OTHER -> o
  BY DEF select_coins, Fits
<1>6. /\ Len(s) > limit /\ F # {} => R = a
      /\ Len(s) > limit /\ F = {} /\ enough => R = b
      /\ Len(s) <= limit /\ enough => R = c
      /\ ~(Len(s) > limit /\ F # {}) /\ ~enough => R = o
  <2> HIDE DEF R, F, a, b, c, o, enough
  <2>. QED  BY <1>0, <1>5
<1>1. CASE Len(s) > limit /\ F # {}
  <2>1. i1 \in F
    BY <1>0, <1>1, FirstFit
  <2>2. R = select_from(amount, all, w[i1])
    BY <1>1, <1>6
  <2> HIDE DEF i1
  <2>3. w[i1] \in Seq(Money) /\ Len(w[i1]) = limit /\ Total(w[i1]) >= amount
    BY <1>0, <1>1, <2>1, Window DEF Fits
  <2> HIDE DEF w, R
  <2>4. Within(R, w[i1])
    BY <2>2, <2>3, Prefix
  <2>5. w[i1] # <<>>
    BY <1>0, <2>3
  <2>. QED  BY <1>0, <1>1, <2>3, <2>4, <2>5 DEF Within, R
<1>2. CASE Len(s) > limit /\ F = {} /\ Total(s) >= amount
  <2>1. R = select_from(amount, FALSE, s)
    BY <1>2, <1>6
  <2>. QED  BY <1>2, <2>1, Prefix
<1>3. CASE Len(s) <= limit /\ Total(s) >= amount
  <2>1. R = select_from(amount, all, s)
    BY <1>3, <1>6
  <2>. QED  BY <1>3, <2>1, Prefix
<1>4. CASE ~(Len(s) > limit /\ F # {}) /\ ~(Total(s) >= amount)
  <2>1. R = SubSeq(Reverse(s), 1, n)
    BY <1>4, <1>6
  <2>2. n \in Nat /\ n <= Len(s) /\ (s # <<>> => n > 0)
    BY <1>0
  <2> HIDE DEF n, R
  <2>. QED  BY <2>1, <2>2, Largest DEF R
<1>. QED  BY <1>0, <1>1, <1>2, <1>3, <1>4

-----------------------------------------------------------------------------
(* Order.                                                                  *)

(* Eligible coins are sorted.                                              *)
LEMMA AscendingAll ==
    ASSUME NEW s \in Seq(Nat), Ascending(s),
           NEW i \in 1 .. Len(s), NEW j \in 1 .. Len(s), i <= j
    PROVE  s[i] <= s[j]
<1> DEFINE Bad == {n \in i .. Len(s) : s[n] < s[i]}
<1>0. \A n \in 1 .. Len(s) : s[n] \in Nat
  OBVIOUS
<1>1. CASE Bad = {}
  <2>1. j \in i .. Len(s) /\ j \notin Bad
    BY <1>1
  <2>. QED  BY <1>0, <2>1
<1>2. CASE Bad # {}
  <2>1. PICK n \in Bad : \A m \in Bad : n <= m
    <3> HIDE DEF Bad
    <3>1. Bad \subseteq Nat
      BY DEF Bad
    <3>. QED  BY <1>2, <3>1, LeastNat
  <2>2. n \in i .. Len(s) /\ n # i /\ s[n] < s[i]
    BY <1>0, <2>1
  <2>3. n - 1 \in i .. Len(s) /\ n - 1 \notin Bad
    <3>1. n \in i + 1 .. Len(s)
      BY <2>2
    <3> HIDE DEF Bad
    <3>. QED  BY <2>1, <3>1
  <2>4. n - 1 \in 1 .. Len(s) - 1 /\ (n - 1) + 1 = n
    BY <2>2, <2>3
  <2>5. s[n - 1] <= s[n]
    BY <2>4 DEF Ascending
  <2>6. ~(s[n - 1] < s[i]) /\ s[n - 1] \in Nat /\ s[n] \in Nat /\ s[i] \in Nat
    BY <1>0, <2>2, <2>3, <2>4
  <2>. QED  BY <2>2, <2>5, <2>6
<1>. QED  BY <1>1, <1>2

(* Sorting ascending coins by decreasing value reverses them: any other    *)
(* order would, by the pigeonhole principle, repeat a coin.                *)
LEMMA DecreasingIs ==
    ASSUME NEW s \in Seq(Nat), Ascending(s)
    PROVE  Decreasing(s) = Reverse(s)
<1> DEFINE L == Len(s)
           P(q) == /\ IsInjective(q)
                   /\ \A i, j \in DOMAIN s : i < j => s[q[i]] >= s[q[j]]
           p == CHOOSE q \in [DOMAIN s -> DOMAIN s] : P(q)
           r == [i \in 1 .. L |-> L - i + 1]
<1>0. L \in Nat /\ DOMAIN s = 1 .. L /\ \A i \in 1 .. L : s[i] \in Nat
  OBVIOUS
<1>1. \A i, j \in 1 .. L : i <= j => s[i] <= s[j]
  BY AscendingAll
<1>2. Decreasing(s) = [i \in DOMAIN s |-> s[p[i]]]
  BY DEF Decreasing
<1> HIDE DEF L
<1>3. r \in [DOMAIN s -> DOMAIN s] /\ P(r)
  <2>1. r \in [DOMAIN s -> DOMAIN s]
    BY <1>0
  <2>2. IsInjective(r)
    BY <1>0 DEF IsInjective
  <2>3. ASSUME NEW i \in DOMAIN s, NEW j \in DOMAIN s, i < j PROVE s[r[i]] >= s[r[j]]
    <3>1. r[i] \in 1 .. L /\ r[j] \in 1 .. L /\ r[j] <= r[i]
      BY <1>0, <2>3
    <3> HIDE DEF r
    <3>2. s[r[j]] <= s[r[i]] /\ s[r[i]] \in Nat /\ s[r[j]] \in Nat
      BY <1>0, <1>1, <3>1
    <3>. QED  BY <3>2
  <2>. QED  BY <2>1, <2>2, <2>3
<1>4. p \in [DOMAIN s -> DOMAIN s] /\ P(p)
  <2> HIDE DEF P, r
  <2>. QED  BY <1>3
<1> HIDE DEF p, r
<1>6. ASSUME NEW i \in 1 .. L PROVE p[i] \in 1 .. L /\ s[p[i]] \in Nat
  BY <1>0, <1>4
<1>7. ASSUME NEW i \in 1 .. L, NEW j \in 1 .. L, i <= j PROVE s[p[i]] >= s[p[j]]
  <2>1. CASE i = j
    BY <1>6, <2>1
  <2>2. CASE i < j
    BY <1>0, <1>4, <2>2
  <2>. QED  BY <1>7, <2>1, <2>2
<1>5. ASSUME NEW i \in 1 .. L PROVE s[p[i]] = s[L - i + 1]
  <2> DEFINE k == L - i + 1
  <2>0. k \in 1 .. L /\ p[i] \in 1 .. L /\ s[k] \in Nat /\ s[p[i]] \in Nat
    <3>1. k \in 1 .. L
      BY <1>0
    <3>. QED  BY <1>0, <1>6, <3>1
  <2> HIDE DEF k
  <2>1. ASSUME s[p[i]] > s[k] PROVE FALSE
    <3> DEFINE S == 1 .. i
               T == k + 1 .. L
               h == [x \in S |-> p[x]]
    <3>1. ASSUME NEW x \in S PROVE p[x] \in T
      <4>0. x \in 1 .. L /\ x <= i
        BY <1>0
      <4>1. p[x] \in 1 .. L /\ s[p[x]] \in Nat
        BY <1>6, <4>0
      <4>2. s[p[x]] >= s[p[i]]
        BY <1>7, <4>0
      <4>3. ~(p[x] <= k)
        <5>1. ~(s[p[x]] <= s[k])
          BY <2>0, <2>1, <4>1, <4>2
        <5>. QED  BY <1>1, <2>0, <4>1, <5>1
      <4>. QED  BY <1>0, <2>0, <4>1, <4>3
    <3>2. /\ IsFiniteSet(S) /\ Cardinality(S) = i
          /\ IsFiniteSet(T) /\ Cardinality(T) = i - 1
      <4>1. 1 \in Int /\ i \in Int /\ k + 1 \in Int /\ L \in Int /\ i >= 1
        BY <1>0, <2>0
      <4>2. IsFiniteSet(S) /\ Cardinality(S) = IF 1 > i THEN 0 ELSE i - 1 + 1
        BY <4>1, FS_Interval
      <4>3. IsFiniteSet(T) /\ Cardinality(T) = IF k + 1 > L THEN 0 ELSE L - (k + 1) + 1
        BY <4>1, FS_Interval
      <4>. QED  BY <1>0, <4>1, <4>2, <4>3 DEF k
    <3>3. h \in [S -> T] /\ Cardinality(T) < Cardinality(S)
      BY <3>1, <3>2
    <3>4. PICK x \in S, y \in S : x # y /\ h[x] = h[y]
      <4> HIDE DEF S, T, h
      <4>. QED  BY <3>2, <3>3, FS_PigeonHole
    <3>5. x \in DOMAIN p /\ y \in DOMAIN p /\ p[x] = p[y]
      BY <1>0, <1>4, <3>4
    <3>. QED  BY <1>4, <3>4, <3>5 DEF IsInjective
  <2>2. ASSUME s[p[i]] < s[k] PROVE FALSE
    <3> DEFINE S == i .. L
               T == 1 .. k - 1
               h == [x \in S |-> p[x]]
    <3>1. ASSUME NEW x \in S PROVE p[x] \in T
      <4>0. x \in 1 .. L /\ i <= x
        BY <1>0
      <4>1. p[x] \in 1 .. L /\ s[p[x]] \in Nat
        BY <1>6, <4>0
      <4>2. s[p[i]] >= s[p[x]]
        BY <1>7, <4>0
      <4>3. ~(k <= p[x])
        <5>1. ~(s[k] <= s[p[x]])
          BY <2>0, <2>2, <4>1, <4>2
        <5>. QED  BY <1>1, <2>0, <4>1, <5>1
      <4>. QED  BY <1>0, <2>0, <4>1, <4>3
    <3>2. /\ IsFiniteSet(S) /\ Cardinality(S) = L - i + 1
          /\ IsFiniteSet(T) /\ Cardinality(T) = L - i
      <4>1. 1 \in Int /\ i \in Int /\ k - 1 \in Int /\ L \in Int /\ i <= L
        BY <1>0, <2>0
      <4>2. IsFiniteSet(S) /\ Cardinality(S) = IF i > L THEN 0 ELSE L - i + 1
        BY <4>1, FS_Interval
      <4>3. IsFiniteSet(T) /\ Cardinality(T) = IF 1 > k - 1 THEN 0 ELSE k - 1 - 1 + 1
        BY <4>1, FS_Interval
      <4>. QED  BY <1>0, <4>1, <4>2, <4>3 DEF k
    <3>3. h \in [S -> T] /\ Cardinality(T) < Cardinality(S)
      BY <3>1, <3>2, <1>0
    <3>4. PICK x \in S, y \in S : x # y /\ h[x] = h[y]
      <4> HIDE DEF S, T, h
      <4>. QED  BY <3>2, <3>3, FS_PigeonHole
    <3>5. x \in DOMAIN p /\ y \in DOMAIN p /\ p[x] = p[y]
      BY <1>0, <1>4, <3>4
    <3>. QED  BY <1>4, <3>4, <3>5 DEF IsInjective
  <2>. QED  BY <2>0, <2>1, <2>2 DEF k
<1>. QED  BY <1>0, <1>2, <1>5 DEF Reverse, L

-----------------------------------------------------------------------------
(* Selecting exactly.                                                      *)

(* A part is worth less than the whole.                                    *)
LEMMA PartIsLess ==
    ASSUME NEW s \in Seq(Money), NEW i \in 1 .. Len(s) + 1, NEW j \in i - 1 .. Len(s),
           j - i + 1 # Len(s)
    PROVE  Total(SubSeq(s, i, j)) < Total(s)
<1>0. s \in Seq(Nat) /\ Len(s) \in Nat
  BY DEF Money
<1>1. PICK f : Sums(f, s)
  BY <1>0, SumsExist
<1>2. /\ Total(SubSeq(s, i, j)) = f[j] - f[i - 1] /\ Total(s) = f[Len(s)]
  BY <1>0, <1>1, PartSum, TotalIs
<1>3. /\ 0 \in 0 .. Len(s) /\ i - 1 \in 0 .. Len(s) /\ j \in 0 .. Len(s) /\ Len(s) \in 0 .. Len(s)
  BY <1>0
<1>4. f[i - 1] \in Nat /\ f[j] \in Nat /\ f[Len(s)] \in Nat /\ f[0] = 0
  BY <1>0, <1>1, <1>3, SumsVal DEF Sums
<1>5. CASE j < Len(s)
  <2>1. j + 1 \in 1 .. Len(s) /\ j + 1 \in 0 .. Len(s) /\ j + 1 <= Len(s) /\ j + 1 - 1 = j
    BY <1>3, <1>5
  <2>2. f[j + 1] = f[j] + s[j + 1]
    BY <1>0, <1>1, <2>1, SumsStep
  <2>3. s[j + 1] \in Nat /\ s[j + 1] > 0
    BY <2>1 DEF Money
  <2>4. f[j + 1] <= f[Len(s)]
    BY <1>0, <1>1, <1>3, <2>1, SumsGrow
  <2>. QED  BY <1>2, <1>4, <2>2, <2>3, <2>4
<1>6. CASE j = Len(s)
  <2>1. i - 1 \in 1 .. Len(s) /\ 1 \in 1 .. Len(s) /\ 1 \in 0 .. Len(s) /\ 1 <= i - 1
    BY <1>0, <1>6
  <2>2. f[1] = f[1 - 1] + s[1]
    BY <1>0, <1>1, <2>1, SumsStep
  <2>3. s[1] \in Nat /\ s[1] > 0
    BY <2>1 DEF Money
  <2>4. f[1] <= f[i - 1]
    BY <1>0, <1>1, <1>3, <2>1, SumsGrow
  <2>5. f[i - 1] > 0
    BY <1>4, <2>2, <2>3, <2>4
  <2>. QED  BY <1>2, <1>4, <1>6, <2>5
<1>. QED  BY <1>3, <1>5, <1>6

(* Asked for all there is, select_coins selects all, whatever the limit.   *)
LEMMA SelectAll ==
    ASSUME NEW s \in Seq(Money), s # <<>>, NEW limit \in Money, NEW all \in BOOLEAN
    PROVE  select_coins(s, Total(s), limit, all) = s
<1> DEFINE amount == Total(s)
<1>0. amount \in Money /\ s \in Seq(Nat) /\ Len(s) \in Nat /\ limit \in Nat /\ limit > 0
  BY TotalPositive DEF Money
<1>1. ASSUME NEW a \in BOOLEAN PROVE select_from(amount, a, s) = s
  <2>1. CASE a
    BY <2>1 DEF select_from
  <2>2. CASE ~a
    <3>1. PICK n \in 0 .. Len(s) : /\ TakeWhile(amount, s) = SubSeq(s, 1, n)
                                   /\ Total(SubSeq(s, 1, n)) >= amount
      <4>1. amount \in Nat /\ Total(s) >= amount
        BY <1>0 DEF Money
      <4> HIDE DEF amount
      <4>. QED  BY <1>0, <4>1, Taken
    <3>2. 1 \in 1 .. Len(s) + 1 /\ n \in 1 - 1 .. Len(s) /\ n - 1 + 1 = n
      BY <1>0
    <3>3. Total(SubSeq(s, 1, n)) \in Nat
      BY <1>0, <3>2, SumsExist, PartSum
    <3>4. n = Len(s)
      <4>1. SUFFICES ASSUME n # Len(s) PROVE FALSE
        OBVIOUS
      <4>2. Total(SubSeq(s, 1, n)) < amount
        BY <3>2, <4>1, PartIsLess
      <4> HIDE DEF amount
      <4>. QED  BY <1>0, <3>1, <3>3, <4>2 DEF Money
    <3>5. SubSeq(s, 1, Len(s)) = s
      OBVIOUS
    <3>. QED  BY <2>2, <3>1, <3>4, <3>5 DEF select_from
  <2>. QED  BY <2>1, <2>2
<1> DEFINE R == select_coins(s, amount, limit, all)
           F == Fits(s, limit, amount)
           i1 == CHOOSE i \in F : \A j \in F : i <= j
           w == Windows(s, limit)
           n == IF limit < Len(s) THEN limit ELSE Len(s)
           a == select_from(amount, all, w[i1])
           b == select_from(amount, FALSE, s)
           c == select_from(amount, all, s)
           o == SubSeq(Reverse(s), 1, n)
           enough == Total(s) >= amount
<1>2. R = CASE Len(s) > limit /\ F # {} -> a
            [] Len(s) > limit /\ F = {} /\ enough -> b
            [] Len(s) <= limit /\ enough -> c
            [] OTHER -> o
  BY DEF select_coins, Fits
<1>3. enough /\ b = s /\ c = s
  <2>1. enough
    BY <1>0 DEF Money
  <2>. QED  BY <1>1, <2>1
<1>4. Len(s) > limit => F = {}
  <2>1. SUFFICES ASSUME Len(s) > limit, NEW i \in F PROVE FALSE
    OBVIOUS
  <2>2. i \in DOMAIN w /\ Total(w[i]) >= amount
    BY DEF Fits
  <2>3. i \in 1 .. Len(s) - limit + 1 /\ w[i] = SubSeq(s, i, i + limit - 1) /\ w[i] \in Seq(Nat)
    <3>1. w[i] \in Seq(Money) /\ i \in 1 .. Len(s) - limit + 1 /\ w[i] = SubSeq(s, i, i + limit - 1)
      BY <1>0, <2>1, <2>2, Window
    <3>2. w[i] \in Seq(Nat)
      <4> HIDE DEF w
      <4>. QED  BY <3>1 DEF Money
    <3>. QED  BY <3>1, <3>2
  <2>4. /\ i \in 1 .. Len(s) + 1 /\ i + limit - 1 \in i - 1 .. Len(s)
        /\ (i + limit - 1) - i + 1 # Len(s)
    BY <1>0, <2>1, <2>3
  <2>5. Total(SubSeq(s, i, i + limit - 1)) < amount
    BY <2>4, PartIsLess
  <2>6. Total(w[i]) < amount /\ Total(w[i]) \in Nat
    BY <2>3, <2>5, TotalNat
  <2> HIDE DEF amount, w
  <2>. QED  BY <1>0, <2>2, <2>6 DEF Money
<1>5. R = s
  <2> HIDE DEF R, F, a, b, c, o, enough
  <2>. QED  BY <1>0, <1>2, <1>3, <1>4
<1>. QED  BY <1>5

(* Moving a window along ascending coins adds at least what it drops.      *)
LEMMA Slide ==
    ASSUME NEW a \in Nat, NEW b \in Nat, NEW x \in Nat, NEW y \in Nat, x <= y
    PROVE  a - b <= (a + y) - (b + x)
OBVIOUS

(* Later windows are worth no less.                                        *)
LEMMA WindowsGrow ==
    ASSUME NEW s \in Seq(Nat), Ascending(s), NEW n \in Nat, NEW f, Sums(f, s),
           NEW i \in 1 .. Len(s) - n + 1, NEW j \in 1 .. Len(s) - n + 1, i <= j
    PROVE  f[i + n - 1] - f[i - 1] <= f[j + n - 1] - f[j - 1]
<1> DEFINE L == Len(s)
           W(k) == f[k + n - 1] - f[k - 1]
           Bad == {k \in i .. L - n + 1 : W(k) < W(i)}
<1>0. L \in Nat
  OBVIOUS
<1>1. ASSUME NEW k \in 1 .. L - n + 1 PROVE W(k) \in Int
  <2>1. k + n - 1 \in 0 .. L /\ k - 1 \in 0 .. L
    BY <1>0
  <2>2. f[k + n - 1] \in Nat /\ f[k - 1] \in Nat
    BY <2>1, SumsVal
  <2>. QED  BY <2>2
<1>2. ASSUME NEW k \in 1 .. L - n PROVE W(k) <= W(k + 1)
  <2>1. k + n \in 1 .. L /\ k \in 1 .. L /\ k <= k + n /\ k + 1 + n - 1 = k + n /\ k + 1 - 1 = k
    BY <1>0
  <2>2. f[k + n - 1] \in Nat /\ s[k + n] \in Nat /\ f[k + n] = f[k + n - 1] + s[k + n]
    BY <2>1, SumsStep
  <2>3. f[k - 1] \in Nat /\ s[k] \in Nat /\ f[k] = f[k - 1] + s[k]
    BY <2>1, SumsStep
  <2>4. s[k] <= s[k + n]
    BY <2>1, AscendingAll
  <2>5. W(k + 1) = f[k + n] - f[k]
    BY <2>1
  <2>6. f[k + n - 1] - f[k - 1] <= f[k + n] - f[k]
    <3>1. f[k + n - 1] - f[k - 1] <= (f[k + n - 1] + s[k + n]) - (f[k - 1] + s[k])
      BY <2>2, <2>3, <2>4, Slide
    <3>. QED  BY <2>2, <2>3, <3>1
  <2>. QED  BY <2>5, <2>6
<1>3. CASE Bad = {}
  <2>1. j \in i .. L - n + 1 /\ j \notin Bad
    <3>1. j \in i .. L - n + 1
      BY <1>0
    <3> HIDE DEF Bad
    <3>. QED  BY <1>3, <3>1
  <2>2. ~(W(j) < W(i)) /\ W(j) \in Int /\ W(i) \in Int
    BY <1>1, <2>1
  <2> HIDE DEF Bad
  <2>. QED  BY <2>2
<1>4. CASE Bad # {}
  <2>1. PICK k \in Bad : \A m \in Bad : k <= m
    <3> HIDE DEF Bad
    <3>1. Bad \subseteq Nat
      BY <1>0 DEF Bad
    <3>. QED  BY <1>4, <3>1, LeastNat
  <2>2. k \in i .. L - n + 1 /\ W(k) < W(i) /\ W(i) \in Int
    BY <1>1, <2>1
  <2> HIDE DEF W
  <2>3. k # i
    BY <2>2
  <2>4. k - 1 \in i .. L - n + 1 /\ k - 1 \in 1 .. L - n /\ (k - 1) + 1 = k /\ k \in 1 .. L - n + 1
        /\ k - 1 \in 1 .. L - n + 1
    BY <1>0, <2>2, <2>3
  <2>5. k - 1 \notin Bad
    <3> HIDE DEF Bad
    <3>. QED  BY <2>1, <2>4
  <2>6. ~(W(k - 1) < W(i)) /\ W(k - 1) <= W(k) /\ W(k - 1) \in Int /\ W(k) \in Int
    <3>1. W(k - 1) <= W((k - 1) + 1)
      BY <1>2, <2>4
    <3>2. ~(W(k - 1) < W(i))
      BY <2>4, <2>5
    <3>. QED  BY <1>1, <2>4, <3>1, <3>2
  <2>. QED  BY <2>2, <2>6
<1>. QED  BY <1>3, <1>4

(* Asked for what a window is worth, with its length as the limit and all  *)
(* coins wanted, select_coins finds a window of that worth.                *)
LEMMA SelectWindow ==
    ASSUME NEW s \in Seq(Money), Ascending(s), NEW n \in Money, NEW m \in n .. Len(s)
    PROVE  LET amount == Total(SubSeq(s, m - n + 1, m))
               R == select_coins(s, amount, n, TRUE)
           IN  R \in Seq(Money) /\ Len(R) = n /\ Total(R) = amount
<1> DEFINE amount == Total(SubSeq(s, m - n + 1, m))
           R == select_coins(s, amount, n, TRUE)
           F == Fits(s, n, amount)
           i1 == CHOOSE i \in F : \A j \in F : i <= j
           w == Windows(s, n)
           k == IF n < Len(s) THEN n ELSE Len(s)
<1> SUFFICES R \in Seq(Money) /\ Len(R) = n /\ Total(R) = amount
  OBVIOUS
<1> DEFINE a == select_from(amount, TRUE, w[i1])
           b == select_from(amount, FALSE, s)
           c == select_from(amount, TRUE, s)
           o == SubSeq(Reverse(s), 1, k)
           enough == Total(s) >= amount
<1>0. s \in Seq(Nat) /\ Len(s) \in Nat /\ n \in Nat /\ n > 0 /\ m \in Nat /\ n <= m /\ m <= Len(s)
  BY DEF Money
<1>1. R = CASE Len(s) > n /\ F # {} -> a
            [] Len(s) > n /\ F = {} /\ enough -> b
            [] Len(s) <= n /\ enough -> c
            [] OTHER -> o
  BY DEF select_coins, Fits
<1>2. PICK f : Sums(f, s)
  BY <1>0, SumsExist
<1> DEFINE j == m - n + 1
<1>3. /\ j \in 1 .. Len(s) + 1 /\ m \in j - 1 .. Len(s) /\ m - j + 1 = n /\ j + n - 1 = m
      /\ j \in 1 .. Len(s) - n + 1
  BY <1>0
<1>4. amount = f[m] - f[j - 1] /\ amount \in Nat
  <2> HIDE DEF j
  <2>. QED  BY <1>0, <1>2, <1>3, PartSum DEF j
<1>5. CASE Len(s) > n
  <2>1. j \in DOMAIN w /\ w[j] = SubSeq(s, j, m)
    BY <1>0, <1>3 DEF Windows
  <2>2. j \in F
    <3>1. Total(w[j]) = amount
      BY <2>1
    <3>2. Total(w[j]) >= amount
      <4> HIDE DEF amount, w
      <4>. QED  BY <1>4, <3>1
    <3>. QED  BY <2>1, <3>2 DEF Fits
  <2>3. i1 \in F /\ i1 <= j
    BY <1>0, <1>5, <2>2, FirstFit
  <2>4. R = w[i1]
    <3>1. a = w[i1]
      BY DEF select_from
    <3> HIDE DEF R, F, a, b, c, o, enough, i1, w
    <3>2. F # {}
      BY <2>2
    <3>. QED  BY <1>0, <1>1, <1>5, <3>1, <3>2
  <2> HIDE DEF i1, F, R, amount, j
  <2>5. i1 \in DOMAIN w /\ Total(w[i1]) >= amount
    BY <2>3 DEF Fits, F
  <2>6. /\ i1 \in 1 .. Len(s) - n + 1 /\ w[i1] = SubSeq(s, i1, i1 + n - 1)
        /\ w[i1] \in Seq(Money) /\ Len(w[i1]) = n
    BY <1>0, <2>5, Window
  <2>7. i1 \in 1 .. Len(s) + 1 /\ i1 + n - 1 \in i1 - 1 .. Len(s)
    BY <1>0, <2>6
  <2>8. Total(w[i1]) = f[i1 + n - 1] - f[i1 - 1] /\ Total(w[i1]) \in Nat
    BY <1>0, <1>2, <2>6, <2>7, PartSum
  <2>9. f[i1 + n - 1] - f[i1 - 1] <= f[j + n - 1] - f[j - 1]
    BY <1>0, <1>2, <1>3, <2>3, <2>6, WindowsGrow
  <2>10. Total(w[i1]) <= amount
    BY <1>3, <1>4, <2>8, <2>9
  <2>11. Total(w[i1]) = amount
    BY <1>4, <2>5, <2>8, <2>10
  <2>. QED  BY <2>4, <2>6, <2>11 DEF R, amount
<1>6. CASE Len(s) = n
  <2>1. j = 1 /\ m = Len(s)
    BY <1>0, <1>6
  <2>2. SubSeq(s, 1, Len(s)) = s
    OBVIOUS
  <2>3. amount = Total(s)
    BY <2>1, <2>2
  <2>4. enough
    BY <2>3, <1>4
  <2>5. c = s
    BY DEF select_from
  <2>6. R = s
    <3> HIDE DEF R, F, a, b, c, o, enough
    <3>. QED  BY <1>0, <1>1, <1>6, <2>4, <2>5
  <2>. QED  BY <1>6, <2>3, <2>6
<1>7. Len(s) > n \/ Len(s) = n
  BY <1>0
<1> HIDE DEF R, amount
<1>. QED  BY <1>5, <1>6, <1>7

-----------------------------------------------------------------------------
(* Weights, fees and what can be sent.                                     *)

(* Weights and fees grow with the outputs.                                 *)
LEMMA FeeFacts ==
    ASSUME NEW i \in Nat, NEW o \in Nat, NEW q \in Nat, o <= q
    PROVE  /\ weight(i, o) \in Nat /\ weight(i, q) \in Nat
           /\ tx_fee(i, o) \in Nat /\ tx_fee(i, q) \in Nat
           /\ weight(i, o) <= weight(i, q) /\ tx_fee(i, o) <= tx_fee(i, q)
<1>1. InWeight \in Nat /\ OutWeight \in Nat /\ KernWeight \in Nat /\ FeeBase \in Nat
  BY SelectionAssumption
<1>2. \A a, b, c \in Nat : a * c \in Nat /\ (a <= b => a * c <= b * c)
  OBVIOUS
<1> DEFINE x == o * OutWeight
           y == q * OutWeight
           z == i * InWeight
<1>3. x \in Nat /\ y \in Nat /\ z \in Nat /\ x <= y
  BY <1>1, <1>2
<1>4. weight(i, o) = z + x + KernWeight /\ weight(i, q) = z + y + KernWeight
  BY DEF weight
<1> HIDE DEF x, y, z
<1>5. weight(i, o) \in Nat /\ weight(i, q) \in Nat /\ weight(i, o) <= weight(i, q)
  BY <1>1, <1>3, <1>4
<1>6. /\ weight(i, o) * FeeBase \in Nat /\ weight(i, q) * FeeBase \in Nat
      /\ weight(i, o) * FeeBase <= weight(i, q) * FeeBase
  BY <1>1, <1>2, <1>5
<1>. QED  BY <1>5, <1>6 DEF tx_fee

(* Weights and fees are natural numbers.                                   *)
LEMMA FeeNat ==
    ASSUME NEW i \in Nat, NEW o \in Nat
    PROVE  weight(i, o) \in Nat /\ tx_fee(i, o) \in Nat
<1>1. o <= o
  OBVIOUS
<1>. QED  BY <1>1, FeeFacts

(* What BigAmountError reports can be sent: a window of the coins that is  *)
(* worth more than its fee, and fits.                                      *)
Offer(s, b) ==
    /\ b.inputs \in Nat
    /\ b.inputs > 0 =>
          /\ b.amount \in Nat /\ b.amount > tx_fee(b.inputs, 1)
          /\ weight(b.inputs, 1) <= MaxWeight
          /\ \E m \in b.inputs .. Len(s) :
                b.amount = Total(SubSeq(s, m - b.inputs + 1, m))

(* max_spendable_amount looks at the coins that fit the weight.            *)
LEMMA FittingMax ==
    ASSUME NEW s \in Seq(Nat), NEW outs
    PROVE  LET n == CHOOSE n \in Fitting(s, outs) : \A m \in Fitting(s, outs) : m <= n
           IN  n \in 0 .. Len(s) /\ \A m \in 1 .. n : weight(m, outs) <= MaxWeight
<1>1. Fitting(s, outs) \subseteq 0 .. Len(s) /\ 0 \in Fitting(s, outs)
  BY DEF Fitting
<1>2. \E n \in Fitting(s, outs) : \A m \in Fitting(s, outs) : m <= n
  <2>1. Len(s) \in Nat /\ Fitting(s, outs) # {}
    BY <1>1
  <2>. QED  BY <1>1, <2>1, GreatestNat
<1> DEFINE n == CHOOSE n \in Fitting(s, outs) : \A m \in Fitting(s, outs) : m <= n
<1>3. n \in Fitting(s, outs)
  BY <1>2
<1> HIDE DEF n
<1>4. n \in 0 .. Len(s) /\ \A m \in 1 .. n : weight(m, outs) <= MaxWeight
  BY <1>3 DEF Fitting
<1>. QED  BY <1>4 DEF n

(* The largest n of the first k coins are a window.                        *)
LEMMA LargestOf ==
    ASSUME NEW s \in Seq(Nat), NEW k \in 0 .. Len(s), NEW n \in 0 .. k
    PROVE  LET t == Reverse(SubSeq(s, 1, k))
           IN  /\ Total(SubSeq(t, 1, n)) = Total(SubSeq(s, k - n + 1, k))
               /\ Total(SubSeq(t, 1, n)) \in Nat
<1> DEFINE r == SubSeq(s, 1, k)
           t == Reverse(r)
<1>1. r \in Seq(Nat) /\ Len(r) = k
  OBVIOUS
<1> HIDE DEF r
<1>2. PICK f : Sums(f, r)
  BY <1>1, SumsExist
<1> DEFINE g == [i \in 0 .. Len(r) |-> f[Len(r)] - f[Len(r) - i]]
<1>3. t \in Seq(Nat) /\ Len(t) = k /\ Sums(g, t)
  BY <1>1, <1>2, ReverseSums
<1>4. 1 \in 1 .. k + 1 /\ n \in 1 - 1 .. k /\ k - n + 1 \in 1 .. k + 1 /\ k \in (k - n + 1) - 1 .. k
      /\ (k - n + 1) - 1 = k - n /\ 1 - 1 = 0
  OBVIOUS
<1>5. /\ Total(SubSeq(t, 1, n)) = g[n] - g[1 - 1]
      /\ Total(SubSeq(t, 1, n)) \in Nat
  <2> HIDE DEF t, g
  <2>. QED  BY <1>3, <1>4, PartSum
<1>6. Total(SubSeq(r, k - n + 1, k)) = f[k] - f[(k - n + 1) - 1]
  BY <1>1, <1>2, <1>4, PartSum
<1>7. g[n] = f[k] - f[k - n] /\ g[1 - 1] = 0
  <2>1. f[k] \in Nat
    BY <1>1, <1>2, SumsVal
  <2>. QED  BY <1>1, <1>3, <2>1 DEF Sums
<1>8. SubSeq(r, k - n + 1, k) = SubSeq(s, k - n + 1, k)
  BY <1>1, <1>4 DEF r
<1>9. f[k] \in Nat /\ f[k - n] \in Nat
  <2>1. k - n \in 0 .. k /\ k \in 0 .. k
    OBVIOUS
  <2>. QED  BY <1>1, <1>2, <2>1, SumsVal
<1> HIDE DEF t, g
<1>10. /\ Total(SubSeq(t, 1, n)) = Total(SubSeq(s, k - n + 1, k))
       /\ Total(SubSeq(t, 1, n)) \in Nat
  <2>1. g[n] - g[1 - 1] = f[k] - f[k - n]
    BY <1>7, <1>9
  <2>2. f[(k - n + 1) - 1] = f[k - n]
    BY <1>4
  <2>3. Total(SubSeq(r, k - n + 1, k)) = f[k] - f[k - n]
    BY <1>6, <2>2
  <2>. QED  BY <1>5, <1>8, <2>1, <2>3
<1>. QED  BY <1>10 DEF r, t

(* What max_spendable_amount reports can be sent.                          *)
LEMMA BestOffer ==
    ASSUME NEW s \in Seq(Money), Ascending(s), NEW outs \in Nat, outs >= 1, req.includes
    PROVE  Offer(s, max_spendable_amount(s, outs))
<1> DEFINE k == CHOOSE n \in Fitting(s, outs) : \A m \in Fitting(s, outs) : m <= n
           r == SubSeq(s, 1, k)
           desc == Decreasing(r)
           pays == {n \in 1 .. k : Total(SubSeq(desc, 1, n)) > tx_fee(n, 1)} \cup {0}
           best == CHOOSE n \in pays : \A m \in pays : m <= n
           b == max_spendable_amount(s, outs)
<1>0. s \in Seq(Nat)
  BY DEF Money
<1>1. k \in 0 .. Len(s) /\ \A m \in 1 .. k : weight(m, outs) <= MaxWeight
  BY <1>0, FittingMax
<1>2. b.inputs = best /\ b.amount = Total(SubSeq(desc, 1, best))
  BY DEF max_spendable_amount, BestOf
<1> HIDE DEF k, b
<1>3. desc = Reverse(r)
  <2>1. r \in Seq(Nat) /\ Ascending(r)
    BY <1>0, <1>1 DEF Ascending
  <2>. QED  BY <2>1, DecreasingIs
<1> HIDE DEF desc
<1>4. best \in pays
  <2>1. pays \subseteq 0 .. k /\ pays # {} /\ k \in Nat
    BY <1>1
  <2> HIDE DEF pays
  <2>2. \E n \in pays : \A m \in pays : m <= n
    BY <2>1, GreatestNat
  <2>. QED  BY <2>2
<1> HIDE DEF best
<1>5. best \in 0 .. k /\ (best > 0 => best \in 1 .. k /\ Total(SubSeq(desc, 1, best)) > tx_fee(best, 1))
  BY <1>1, <1>4
<1>6. /\ b.amount = Total(SubSeq(s, k - best + 1, k))
      /\ b.amount \in Nat
  BY <1>0, <1>1, <1>2, <1>3, <1>5, LargestOf
<1>7. ASSUME best > 0 PROVE weight(best, 1) <= MaxWeight
  <2>1. weight(best, outs) <= MaxWeight
    BY <1>1, <1>5, <1>7
  <2>2. weight(best, 1) <= weight(best, outs) /\ weight(best, 1) \in Nat /\ weight(best, outs) \in Nat
    <3>1. best \in Nat /\ 1 \in Nat /\ 1 <= outs
      BY <1>1, <1>5
    <3>. QED  BY <3>1, FeeFacts
  <2>. QED  BY <2>1, <2>2, SelectionAssumption
<1>8. k \in best .. Len(s)
  BY <1>1, <1>5
<1>. QED  BY <1>1, <1>2, <1>5, <1>6, <1>7, <1>8 DEF Offer, b

-----------------------------------------------------------------------------
(* The inductive invariant.                                                *)

(* A request is as the callers make it; the retry of an offer of nothing   *)
(* is not one.                                                             *)
ReqOK ==
    /\ req.coins \in Seq(Money) /\ Ascending(req.coins)
    /\ req.change \in Money /\ req.change \in ChangeCounts
    /\ {req.includes, req.all, req.max} \subseteq BOOLEAN
    /\ req.max => req.includes
    /\ retried \in BOOLEAN
    /\ DOMAIN req = {"coins", "amount", "includes", "limit", "change", "all", "max"}
    /\ pc # "panic" => req.amount \in Money /\ req.limit \in Money

(* The selection pays amount and fee, with change or exactly without.      *)
Covered ==
    /\ Total(sel) >= WithFee(fee)
    /\ \/ fee = tx_fee(Len(sel), req.change + 1)
       \/ fee = tx_fee(Len(sel), 1) /\ Total(sel) = WithFee(fee)

(* The selection under way.                                                *)
Chosen ==
    /\ pc \in {"more", "weigh", "bigAmount", "change"} =>
          Within(sel, req.coins) /\ sel # <<>> /\ fee \in Nat
    /\ pc = "more" => fee = tx_fee(Len(sel), req.change + 1)
    /\ pc \in {"weigh", "change"} => Covered
    /\ pc = "change" => /\ weight(Len(sel), OutputCount) <= MaxWeight
                        /\ req.includes => req.amount >= fee

(* What is built in the end pays the fee of its weight, keeps the limit    *)
(* and, with one change output, conserves value.                           *)
Built ==
    pc = "done" => /\ fee >= tx_fee(Len(sel), 1 + Len(change))
                   /\ weight(Len(sel), 1 + Len(change)) <= MaxWeight
                   /\ req.change = 1 => Total(sel) = Sent + fee + Total(change)

(* "Send the maximum" selects everything and fits exactly.                 *)
FirstTry ==
    ~retried /\ req.max =>
        /\ req.amount = Total(req.coins) /\ req.coins # <<>>
        /\ pc \notin {"more", "notEnoughFunds"}
        /\ pc = "weigh" => sel = req.coins /\ OutputCount = 1
        /\ pc = "bigAmount" => Offer(req.coins, big)

(* Its retry selects a window worth the offer, exactly.                    *)
Retry ==
    retried =>
        /\ req.max /\ req.all = TRUE /\ big.inputs \in Nat
        /\ big.inputs = 0 => pc = "panic"
        /\ big.inputs > 0 =>
              /\ pc \in {"select", "weigh", "change", "done", "divideByZero"}
              /\ Offer(req.coins, big)
              /\ req.amount = big.amount /\ req.limit = big.inputs
              /\ pc = "weigh" => /\ Len(sel) = big.inputs /\ Total(sel) = req.amount
                                 /\ fee = tx_fee(Len(sel), 1)

(* The inductive invariant.                                                *)
SelInv ==
    /\ ReqOK /\ Chosen /\ Built /\ FirstTry /\ Retry
    /\ RefusesOnlyShort
-----------------------------------------------------------------------------
(* The initial state and every step.                                       *)

(* What has to be covered grows with the fee.                              *)
LEMMA WithFeeFacts ==
    ASSUME req.amount \in Money, req.includes \in BOOLEAN, NEW a \in Nat, NEW b \in Nat, a <= b
    PROVE  /\ WithFee(a) \in Money /\ WithFee(b) \in Money
           /\ WithFee(a) <= WithFee(b)
BY DEF WithFee, Money

(* The two fees select_coins_and_fee compares.                             *)
LEMMA FeesOf ==
    ASSUME NEW s \in Seq(Money), req.change \in Money
    PROVE  LET exact == tx_fee(Len(s), 1)
               more == tx_fee(Len(s), req.change + 1)
           IN  exact \in Nat /\ more \in Nat /\ exact <= more
<1>1. Len(s) \in Nat /\ 1 \in Nat /\ req.change + 1 \in Nat /\ 1 <= req.change + 1
  BY DEF Money
<1>. QED  BY <1>1, FeeFacts

(* It holds of every request.                                              *)
LEMMA InitSel == Init => SelInv
<1> SUFFICES ASSUME Init PROVE SelInv
  OBVIOUS
<1>1. ASSUME NEW s \in Coins PROVE s \in Seq(Money) /\ Ascending(s)
  <2>1. PICK n \in 0 .. MaxCoins : s \in [1 .. n -> Values]
    BY DEF Coins
  <2>2. n \in Nat /\ Values \subseteq Money
    BY SelectionAssumption DEF Money
  <2>3. s \in Seq(Money)
    BY <2>1, <2>2
  <2>. QED  BY <2>3 DEF Coins
<1> DEFINE A == [coins: Coins, amount: Amounts, includes: BOOLEAN, limit: OutputLimits,
                 change: ChangeCounts, all: BOOLEAN, max: UseMax]
           B == [coins: Coins \ {<<>>}, amount: {0}, includes: {TRUE},
                 limit: OutputLimits, change: ChangeCounts, all: BOOLEAN, max: UseMax]
<1>2. \/ req \in A /\ ~req.max
      \/ \E r \in B : r.max /\ req = [r EXCEPT !.amount = Total(r.coins)]
  BY DEF Init, Requests
<1>3. /\ Amounts \subseteq Money /\ OutputLimits \subseteq Money /\ ChangeCounts \subseteq Money
      /\ UseMax \subseteq BOOLEAN
  BY SelectionAssumption DEF Money
<1>4. CASE req \in A /\ ~req.max
  <2>1. ReqOK
    BY <1>1, <1>3, <1>4 DEF ReqOK, Init
  <2>. QED  BY <1>4, <2>1 DEF SelInv, Chosen, Built, FirstTry, Retry, RefusesOnlyShort, Init
<1>5. ASSUME NEW r \in B, r.max, req = [r EXCEPT !.amount = Total(r.coins)] PROVE SelInv
  <2>1. r.coins \in Coins /\ r.coins # <<>>
    OBVIOUS
  <2>2. Total(r.coins) \in Money
    BY <1>1, <2>1, TotalPositive DEF Money
  <2>3. /\ req.coins = r.coins /\ req.amount = Total(r.coins) /\ req.includes = TRUE
        /\ req.limit \in OutputLimits /\ req.change \in ChangeCounts
        /\ req.all \in BOOLEAN /\ req.max = r.max /\ r.max \in UseMax
        /\ DOMAIN req = {"coins", "amount", "includes", "limit", "change", "all", "max"}
    BY <1>5
  <2>4. ReqOK
    BY <1>1, <1>3, <2>1, <2>2, <2>3 DEF ReqOK, Init
  <2>. QED  BY <2>1, <2>3, <2>4 DEF SelInv, Chosen, Built, FirstTry, Retry, RefusesOnlyShort, Init
<1>. QED  BY <1>2, <1>4, <1>5

(* The first selection keeps it.                                           *)
LEMMA SelectKeeps ==
    ASSUME SelInv, Select
    PROVE  SelInv'
<1> DEFINE s == req.coins
           R == select_coins(s, req.amount, req.limit, req.all)
           total == Total(R)
           exact == tx_fee(Len(R), 1)
           more == tx_fee(Len(R), req.change + 1)
<1>1. /\ s \in Seq(Money) /\ Ascending(s) /\ req.amount \in Money /\ req.limit \in Money
      /\ req.change \in Money /\ req.includes \in BOOLEAN /\ req.all \in BOOLEAN
      /\ pc = "select" /\ (req.max => req.includes)
  BY DEF SelInv, ReqOK, Select
<1>2. Within(R, s)
  BY <1>1, SelectCoins
<1>3. /\ sel' = R /\ UNCHANGED <<req, change, retried, big>>
      /\ fee' = IF total = WithFee(exact) THEN exact ELSE more
      /\ pc' = CASE total = 0 \/ (total < WithFee(exact) /\ Len(R) = Len(s)) -> "notEnoughFunds"
                 [] total = WithFee(exact) -> "weigh"
                 [] OTHER -> "more"
  BY DEF Select
<1> HIDE DEF R
<1>4. R \in Seq(Money) /\ R \in Seq(Nat) /\ total \in Nat /\ (R # <<>> => total \in Money)
  <2>1. R \in Seq(Money) /\ R \in Seq(Nat)
    BY <1>2 DEF Within, Money
  <2>. QED  BY <2>1, TotalNat, TotalPositive DEF Money
<1>5. exact \in Nat /\ more \in Nat /\ exact <= more
  BY <1>1, <1>4, FeesOf
<1> HIDE DEF exact, more, total
<1>6. WithFee(exact) \in Money /\ WithFee(more) \in Money /\ WithFee(exact) <= WithFee(more)
  BY <1>1, <1>5, WithFeeFacts
<1>7. \/ /\ pc' = "notEnoughFunds"
         /\ total = 0 \/ (total < WithFee(exact) /\ Len(R) = Len(s))
      \/ pc' = "weigh" /\ total = WithFee(exact) /\ total # 0 /\ fee' = exact
      \/ pc' = "more" /\ total # WithFee(exact) /\ total # 0 /\ fee' = more
  <2> DEFINE none == total = 0
             short == total < WithFee(exact) /\ Len(R) = Len(s)
             fits == total = WithFee(exact)
  <2>1. pc' = CASE none \/ short -> "notEnoughFunds" [] fits -> "weigh" [] OTHER -> "more"
    BY <1>3
  <2>2. ~(fits /\ short) /\ ~(fits /\ none)
    BY <1>6 DEF Money
  <2>3. fee' = IF fits THEN exact ELSE more
    BY <1>3
  <2>4. \/ pc' = "notEnoughFunds" /\ (none \/ short)
        \/ pc' = "weigh" /\ fits /\ ~none
        \/ pc' = "more" /\ ~fits /\ ~none
    <3>1. none \/ short => pc' = "notEnoughFunds"
      <4> HIDE DEF none, short, fits
      <4>. QED  BY <2>1, <2>2
    <3>2. ~none /\ fits => pc' = "weigh"
      <4> HIDE DEF none, short, fits
      <4>. QED  BY <2>1, <2>2
    <3>3. ~none /\ ~short /\ ~fits => pc' = "more"
      <4> HIDE DEF none, short, fits
      <4>. QED  BY <2>1
    <3> HIDE DEF none, short, fits
    <3>. QED  BY <3>1, <3>2, <3>3
  <2>. QED  BY <2>3, <2>4
<1>9. ReqOK'
  BY <1>1, <1>3, <1>7 DEF SelInv, ReqOK
<1>10. Chosen'
  <2>1. total # 0 => R # <<>>
    BY TotalEmpty DEF total
  <2>2. CASE pc' = "weigh"
    <3>1. Covered'
      BY <1>3, <1>6, <1>7, <2>2 DEF Covered, WithFee, total, exact, Money
    <3>. QED  BY <1>2, <1>3, <1>5, <1>7, <2>1, <2>2, <3>1 DEF Chosen
  <2>3. CASE pc' = "more"
    BY <1>2, <1>3, <1>5, <1>7, <2>1, <2>3 DEF Chosen, more
  <2>. QED  BY <1>7, <2>2, <2>3 DEF Chosen
<1>11. Built'
  BY <1>7 DEF Built
<1>12. FirstTry'
  <2>1. SUFFICES ASSUME ~retried, req.max
                 PROVE  /\ req.amount = Total(req.coins) /\ req.coins # <<>>
                        /\ pc' = "weigh" /\ sel' = req.coins /\ OutputCount' = 1
    BY <1>3 DEF FirstTry
  <2>2. req.amount = Total(s) /\ s # <<>>
    BY <2>1 DEF SelInv, FirstTry
  <2>3. R = s
    BY <1>1, <2>2, SelectAll DEF R
  <2>4. WithFee(exact) = req.amount /\ total = req.amount
    BY <1>1, <2>1, <2>2, <2>3 DEF WithFee, total
  <2>5. pc' = "weigh" /\ fee' = exact
    BY <1>1, <1>7, <2>4 DEF Money
  <2>6. OutputCount' = 1
    BY <1>1, <1>3, <2>1, <2>4, <2>5 DEF OutputCount, WithFee, total
  <2>. QED  BY <1>3, <2>2, <2>3, <2>5, <2>6
<1>13. Retry'
  <2>1. SUFFICES ASSUME retried
                 PROVE  Retry'
    BY <1>3 DEF Retry
  <2>2. /\ req.max /\ req.all = TRUE /\ big.inputs \in Nat /\ big.inputs > 0
        /\ Offer(s, big) /\ req.amount = big.amount /\ req.limit = big.inputs
    BY <1>1, <2>1 DEF SelInv, Retry
  <2>3. PICK m \in big.inputs .. Len(s) :
            req.amount = Total(SubSeq(s, m - big.inputs + 1, m))
    BY <2>2 DEF Offer
  <2>4. Len(R) = big.inputs /\ total = req.amount
    <3>1. R = select_coins(s, Total(SubSeq(s, m - big.inputs + 1, m)), big.inputs, TRUE)
      BY <2>2, <2>3 DEF R
    <3>2. big.inputs \in Money
      BY <2>2 DEF Money
    <3>. QED  BY <1>1, <2>3, <3>1, <3>2, SelectWindow DEF total
  <2>5. WithFee(exact) = req.amount
    BY <1>1, <2>2 DEF WithFee
  <2>6. pc' = "weigh" /\ fee' = exact
    BY <1>1, <1>7, <2>4, <2>5 DEF Money
  <2>. QED  BY <1>3, <2>2, <2>4, <2>6 DEF Retry, exact, total
<1>14. RefusesOnlyShort'
  <2>1. SUFFICES ASSUME pc' = "notEnoughFunds"
                 PROVE  Total(s) < WithFee(tx_fee(Len(s), req.change + 1))
    BY <1>3 DEF RefusesOnlyShort, WithFee
  <2>2. CASE total = 0
    <3>1. R = <<>> /\ s = <<>>
      BY <1>2, <1>4, <2>2 DEF Within, Money
    <3>2. Total(s) = 0 /\ R = s
      BY <3>1, TotalEmpty
    <3>. QED  BY <1>6, <3>2 DEF more, Money
  <2>3. CASE total < WithFee(exact) /\ Len(R) = Len(s)
    <3>1. Total(s) = total
      BY <1>2, <2>3 DEF Within, total
    <3>. QED  BY <1>4, <1>6, <2>3, <3>1 DEF more, Money
  <2>. QED  BY <1>7, <2>1, <2>2, <2>3
<1>. QED  BY <1>9, <1>10, <1>11, <1>12, <1>13, <1>14 DEF SelInv

(* So does a round of the loop.                                            *)
LEMMA SelectMoreKeeps ==
    ASSUME SelInv, SelectMore
    PROVE  SelInv'
<1> DEFINE s == req.coins
<1>1. /\ s \in Seq(Money) /\ req.amount \in Money /\ req.change \in Money
      /\ req.includes \in BOOLEAN /\ req.all \in BOOLEAN /\ pc = "more"
      /\ Within(sel, s) /\ sel # <<>> /\ fee \in Nat /\ fee = tx_fee(Len(sel), req.change + 1)
  BY DEF SelInv, ReqOK, Chosen, SelectMore
<1>2. UNCHANGED <<req, change, retried, big>> /\ pc' \in {"more", "weigh", "notEnoughFunds"}
  BY DEF SelectMore
<1>3. ReqOK' /\ Built'
  BY <1>2 DEF SelInv, ReqOK, Built, SelectMore
<1>4. FirstTry' /\ Retry'
  <2>1. ~(~retried /\ req.max)
    BY <1>1 DEF SelInv, FirstTry
  <2>2. retried => FALSE
    <3>1. ~(retried /\ big.inputs > 0) /\ ~(retried /\ big.inputs = 0) /\ (retried => big.inputs \in Nat)
      BY <1>1 DEF SelInv, Retry
    <3>. QED  BY <3>1
  <2>. QED  BY <1>2, <2>1, <2>2 DEF FirstTry, Retry
<1>5. Chosen'
  <2>1. CASE pc' = "weigh"
    <3>1. UNCHANGED <<sel, fee>> /\ ~Short
      BY <2>1, <1>1 DEF SelectMore
    <3>2. Total(sel) \in Nat /\ WithFee(fee) \in Money
      <4>1. sel \in Seq(Nat)
        BY <1>1 DEF Within, Money
      <4>. QED  BY <1>1, <4>1, TotalNat, WithFeeFacts
    <3>3. Covered
      BY <1>1, <3>1, <3>2 DEF Covered, Short, Money
    <3>4. Covered'
      BY <1>2, <3>1, <3>3 DEF Covered, WithFee
    <3>. QED  BY <1>1, <1>2, <2>1, <3>1, <3>4 DEF Chosen
  <2>2. CASE pc' = "more"
    <3>1. sel' = MoreCoins /\ fee' = MoreFee
      BY <2>2, <1>1 DEF SelectMore
    <3>2. WithFee(fee) \in Money /\ Len(s) \in Money
      <4>1. Len(sel) > 0 /\ Len(sel) <= Len(s)
        BY <1>1 DEF Within, Money
      <4>. QED  BY <1>1, <4>1, WithFeeFacts DEF Money
    <3>3. Within(MoreCoins, s)
      BY <1>1, <3>2, SelectCoins DEF MoreCoins
    <3>4. MoreCoins # <<>>
      BY <1>1, <3>3 DEF Within
    <3>5. MoreFee \in Nat
      BY <1>1, <3>3, FeesOf DEF Within, MoreFee
    <3>. QED  BY <1>2, <2>2, <3>1, <3>3, <3>4, <3>5 DEF Chosen, MoreFee
  <2>3. CASE pc' = "notEnoughFunds"
    BY <2>3 DEF Chosen
  <2>. QED  BY <1>2, <2>1, <2>2, <2>3
<1>6. RefusesOnlyShort'
  <2>1. SUFFICES ASSUME pc' = "notEnoughFunds"
                 PROVE  Total(s) < WithFee(tx_fee(Len(s), req.change + 1))
    BY <1>2 DEF RefusesOnlyShort, WithFee
  <2>2. Total(sel) < WithFee(fee) /\ Len(sel) = Len(s)
    BY <2>1 DEF SelectMore, Short, AllSelected
  <2>3. Total(sel) = Total(s)
    BY <1>1, <2>2 DEF Within
  <2>. QED  BY <1>1, <2>2, <2>3
<1>. QED  BY <1>3, <1>4, <1>5, <1>6 DEF SelInv

(* There is at least one output.                                           *)
LEMMA OutputCountIs ==
    ASSUME req.change \in Money
    PROVE  OutputCount \in Nat /\ OutputCount >= 1
BY DEF OutputCount, Money

(* So does the weight check.                                               *)
LEMMA WeighKeeps ==
    ASSUME SelInv, Weigh
    PROVE  SelInv'
<1> DEFINE s == req.coins
           heavy == weight(Len(sel), OutputCount) > MaxWeight
<1>1. /\ s \in Seq(Money) /\ Ascending(s) /\ req.amount \in Money /\ req.change \in Money
      /\ req.includes \in BOOLEAN /\ (req.max => req.includes) /\ pc = "weigh"
      /\ Within(sel, s) /\ sel # <<>> /\ fee \in Nat /\ Covered
  BY DEF SelInv, ReqOK, Chosen, Weigh
<1>2. UNCHANGED <<req, sel, fee, change, retried>>
  BY DEF Weigh
<1>3. \/ heavy /\ pc' = "bigAmount" /\ big' = max_spendable_amount(sel, OutputCount)
      \/ ~heavy /\ big' = big /\ pc' = "tooSmall" /\ req.includes /\ req.amount < fee
      \/ ~heavy /\ big' = big /\ pc' = "change" /\ ~(req.includes /\ req.amount < fee)
  BY DEF Weigh
<1> HIDE DEF heavy
<1>4. ReqOK' /\ Built' /\ RefusesOnlyShort'
  BY <1>1, <1>2, <1>3 DEF SelInv, ReqOK, Built, RefusesOnlyShort
<1>5. Covered' /\ OutputCount' = OutputCount
  BY <1>1, <1>2 DEF Covered, WithFee, OutputCount
<1>6. Chosen'
  <2>1. CASE pc' = "change"
    <3>1. weight(Len(sel), OutputCount) <= MaxWeight
      <4>1. Len(sel) \in Nat /\ OutputCount \in Nat
        BY <1>1, OutputCountIs DEF Within
      <4>2. weight(Len(sel), OutputCount) \in Nat /\ MaxWeight \in Nat
        BY <4>1, FeeNat, SelectionAssumption
      <4>. QED  BY <1>3, <2>1, <4>2 DEF heavy
    <3>2. req.includes => req.amount >= fee
      BY <1>1, <1>3, <2>1 DEF Money
    <3>. QED  BY <1>1, <1>2, <1>5, <2>1, <3>1, <3>2 DEF Chosen
  <2>2. CASE pc' # "change"
    BY <1>1, <1>2, <1>3, <2>2 DEF Chosen
  <2>. QED  BY <2>1, <2>2
<1>7. FirstTry'
  <2>1. SUFFICES ASSUME ~retried, req.max PROVE FirstTry'
    BY <1>2 DEF FirstTry
  <2>2. /\ req.amount = Total(s) /\ s # <<>> /\ sel = s /\ OutputCount = 1
    BY <1>1, <2>1 DEF SelInv, FirstTry
  <2>3. pc' = "bigAmount" => Offer(s, big')
    BY <1>1, <1>3, <2>1, <2>2, BestOffer
  <2>. QED  BY <1>2, <1>3, <2>2, <2>3 DEF FirstTry
<1>8. Retry'
  <2>1. SUFFICES ASSUME retried PROVE Retry'
    BY <1>2 DEF Retry
  <2>2. /\ req.max /\ req.all = TRUE /\ big.inputs \in Nat /\ big.inputs > 0
        /\ Offer(s, big) /\ req.amount = big.amount /\ req.limit = big.inputs
        /\ Len(sel) = big.inputs /\ Total(sel) = req.amount /\ fee = tx_fee(Len(sel), 1)
    BY <1>1, <2>1 DEF SelInv, Retry
  <2>3. OutputCount = 1
    BY <1>1, <2>2 DEF OutputCount, WithFee
  <2>4. ~heavy /\ req.amount > fee
    <3>1. weight(Len(sel), 1) <= MaxWeight /\ weight(Len(sel), 1) \in Nat /\ MaxWeight \in Nat
      <4>1. Len(sel) \in Nat /\ 1 \in Nat
        BY <2>2
      <4>2. weight(Len(sel), 1) \in Nat /\ MaxWeight \in Nat
        BY <4>1, FeeNat, SelectionAssumption
      <4>. QED  BY <2>2, <4>2 DEF Offer
    <3>. QED  BY <2>2, <2>3, <3>1 DEF heavy, Offer
  <2>5. pc' = "change" /\ big' = big
    BY <1>1, <1>3, <2>4 DEF Money
  <2>. QED  BY <1>2, <2>1, <2>2, <2>5 DEF Retry
<1>. QED  BY <1>4, <1>6, <1>7, <1>8 DEF SelInv

(* So does inputs_and_change.                                              *)
LEMMA ChangeKeeps ==
    ASSUME SelInv, inputs_and_change
    PROVE  SelInv'
<1> DEFINE amount == Total(sel) - Sent - fee
<1>1. /\ req.coins \in Seq(Money) /\ req.amount \in Money /\ req.change \in Money
      /\ req.includes \in BOOLEAN /\ pc = "change" /\ Within(sel, req.coins) /\ fee \in Nat
      /\ Covered /\ weight(Len(sel), OutputCount) <= MaxWeight
      /\ req.includes => req.amount >= fee
  BY DEF SelInv, ReqOK, Chosen, inputs_and_change
<1>2. /\ UNCHANGED <<req, sel, fee, retried, big>>
      /\ pc' = IF 0 < amount /\ amount < req.change THEN "divideByZero" ELSE "done"
      /\ change' = IF amount = 0 \/ amount < req.change THEN <<>> ELSE Parts(amount, req.change)
  BY DEF inputs_and_change
<1> HIDE DEF amount
<1>3. pc' \in {"divideByZero", "done"}
  BY <1>2
<1>4. ReqOK' /\ Chosen' /\ FirstTry' /\ Retry' /\ RefusesOnlyShort'
  BY <1>1, <1>2, <1>3 DEF SelInv, ReqOK, Chosen, FirstTry, Retry, RefusesOnlyShort
<1>5. Total(sel) \in Nat /\ sel \in Seq(Money) /\ WithFee(fee) \in Money
  <2>1. sel \in Seq(Money) /\ sel \in Seq(Nat)
    BY <1>1 DEF Within, Money
  <2>. QED  BY <1>1, <2>1, TotalNat, WithFeeFacts
<1>6. /\ Sent \in Int /\ Sent + fee = WithFee(fee) /\ amount = Total(sel) - WithFee(fee)
      /\ amount \in Nat /\ Sent' = Sent
  <2>1. Sent' = Sent
    BY <1>2 DEF Sent
  <2>2. Sent \in Int /\ Sent + fee = WithFee(fee)
    <3>1. req.amount \in Nat
      BY <1>1 DEF Money
    <3>. QED  BY <1>1, <3>1 DEF Sent, WithFee
  <2>3. amount = Total(sel) - WithFee(fee)
    BY <1>1, <1>5, <2>2 DEF amount
  <2>4. Total(sel) >= WithFee(fee) /\ WithFee(fee) \in Nat
    BY <1>1, <1>5 DEF Covered, Money
  <2>. QED  BY <1>5, <2>1, <2>2, <2>3, <2>4
<1>7. /\ fee = tx_fee(Len(sel), req.change + 1) \/ (fee = tx_fee(Len(sel), 1) /\ amount = 0)
      /\ tx_fee(Len(sel), 1) \in Nat /\ tx_fee(Len(sel), req.change + 1) \in Nat
      /\ tx_fee(Len(sel), 1) <= tx_fee(Len(sel), req.change + 1)
  <2>1. fee = tx_fee(Len(sel), req.change + 1) \/ (fee = tx_fee(Len(sel), 1) /\ amount = 0)
    BY <1>1, <1>5, <1>6 DEF Covered, Money
  <2>. QED  BY <1>1, <1>5, <2>1, FeesOf
<1>8. OutputCount = IF amount = 0 THEN 1 ELSE req.change + 1
  BY <1>5, <1>6 DEF OutputCount, Money
<1>9. ASSUME pc' = "done" PROVE /\ fee >= tx_fee(Len(sel), 1 + Len(change'))
                                /\ weight(Len(sel), 1 + Len(change')) <= MaxWeight
                                /\ req.change = 1 => Total(sel) = Sent + fee + Total(change')
  <2>1. CASE amount = 0
    <3>1. change' = <<>>
      BY <1>2, <2>1
    <3>2. Len(change') = 0 /\ Total(change') = 0 /\ 1 + Len(change') = 1
      BY <3>1, TotalEmpty
    <3>. QED  BY <1>1, <1>5, <1>6, <1>7, <1>8, <2>1, <3>2
  <2>2. CASE amount # 0
    <3>1. change' = Parts(amount, req.change) /\ amount >= req.change
      BY <1>1, <1>2, <1>6, <1>9, <2>2 DEF Money
    <3>2. Len(change') = req.change /\ 1 + Len(change') = req.change + 1
      BY <1>1, <3>1 DEF Parts, Money
    <3>3. fee = tx_fee(Len(sel), req.change + 1) /\ fee \in Nat
      BY <1>1, <1>7, <2>2
    <3>4. ASSUME req.change = 1 PROVE Total(change') = amount
      <4>1. amount \div 1 = amount /\ amount % amount = 0
        BY <1>6, <2>2
      <4>2. Parts(amount, 1) = <<amount>>
        <5>1. Parts(amount, 1) = [i \in 1 .. 1 |-> amount]
          BY <4>1, <1>6 DEF Parts
        <5>. QED  BY <5>1
      <4>. QED  BY <1>6, <3>1, <3>4, <4>2, TotalOne
    <3>. QED  BY <1>1, <1>5, <1>6, <1>8, <2>2, <3>2, <3>3, <3>4 DEF Money
  <2>. QED  BY <2>1, <2>2
<1>10. Built'
  BY <1>2, <1>6, <1>9 DEF Built
<1>. QED  BY <1>4, <1>10 DEF SelInv

(* So does the retry.                                                      *)
LEMMA RetryKeeps ==
    ASSUME SelInv, max_retry_args
    PROVE  SelInv'
<1>1. /\ pc = "bigAmount" /\ req.max /\ ~retried
      /\ req' = [req EXCEPT !.amount = big.amount, !.limit = big.inputs, !.all = TRUE]
      /\ retried' = TRUE /\ sel' = <<>> /\ fee' = 0 /\ UNCHANGED <<change, big>>
      /\ pc' = IF big.inputs = 0 THEN "panic" ELSE "select"
  BY DEF max_retry_args
<1>2. Offer(req.coins, big) /\ ReqOK
  BY <1>1 DEF SelInv, FirstTry
<1>3. /\ DOMAIN req = {"coins", "amount", "includes", "limit", "change", "all", "max"}
      /\ req'.coins = req.coins /\ req'.amount = big.amount /\ req'.limit = big.inputs
      /\ req'.all = TRUE /\ req'.change = req.change /\ req'.includes = req.includes
      /\ req'.max = req.max /\ DOMAIN req' = DOMAIN req
  BY <1>1, <1>2 DEF ReqOK
<1>4. big.inputs \in Nat /\ (big.inputs # 0 => big.amount \in Money /\ big.inputs \in Money)
  <2>1. big.inputs \in Nat /\ (big.inputs # 0 => big.amount \in Nat /\ big.amount > tx_fee(big.inputs, 1))
    BY <1>2 DEF Offer
  <2>2. tx_fee(big.inputs, 1) \in Nat
    BY <2>1, FeeNat
  <2>. QED  BY <2>1, <2>2 DEF Money
<1>5. ReqOK'
  BY <1>1, <1>2, <1>3, <1>4 DEF ReqOK
<1>6. Chosen' /\ Built' /\ FirstTry' /\ RefusesOnlyShort'
  BY <1>1 DEF Chosen, Built, FirstTry, RefusesOnlyShort
<1>7. Retry'
  BY <1>1, <1>2, <1>3, <1>4 DEF Retry, Offer
<1>. QED  BY <1>5, <1>6, <1>7 DEF SelInv

(* So does every step.                                                     *)
LEMMA StepSel == SelInv /\ [Next]_vars => SelInv'
<1> SUFFICES ASSUME SelInv, [Next]_vars PROVE SelInv'
  OBVIOUS
<1>1. CASE UNCHANGED vars
  BY <1>1 DEF vars, SelInv, ReqOK, Chosen, Covered, OutputCount, WithFee, Built, Sent,
              FirstTry, Retry, Offer, RefusesOnlyShort
<1>. QED  BY <1>1, SelectKeeps, SelectMoreKeeps, WeighKeeps, ChangeKeeps, RetryKeeps DEF Next

-----------------------------------------------------------------------------
(* The theorems.                                                           *)

(* NotEnoughFunds (select_coins_and_fee) is raised only if all eligible    *)
(* coins together do not cover the amount and the fee with change, for     *)
(* every sequence of coins, limit, number of change outputs, weights and   *)
(* fees.                                                                   *)
THEOREM RefusalsAreShort == Spec => []RefusesOnlyShort
<1>1. SelInv => RefusesOnlyShort
  BY DEF SelInv
<1>. QED  BY <1>1, InitSel, StepSel, PTL DEF Spec

(* max_retry_args retries "send the maximum" with an amount and a limit    *)
(* that succeed, for all coins and weights, if there is a set of coins     *)
(* worth more than its fee.                                                *)
THEOREM RetriesFit == Spec => []RetryFits
<1>1. SelInv => RetryFits
  BY DEF SelInv, Retry, RetryFits
<1>. QED  BY <1>1, InitSel, StepSel, PTL DEF Spec

(* The fee set during selection is enough for what inputs_and_change       *)
(* builds, and the weight limit is kept, with any number of change         *)
(* outputs.                                                                *)
THEOREM FeesSuffice ==
    Spec => [](pc = "done" => /\ fee >= tx_fee(Len(sel), 1 + Len(change))
                              /\ weight(Len(sel), 1 + Len(change)) <= MaxWeight)
<1>1. SelInv => (pc = "done" => /\ fee >= tx_fee(Len(sel), 1 + Len(change))
                                /\ weight(Len(sel), 1 + Len(change)) <= MaxWeight)
  BY DEF SelInv, Built
<1>. QED  BY <1>1, InitSel, StepSel, PTL DEF Spec

(* With one change output, inputs are what the recipient gets, the fee and *)
(* the change.  (With more, inputs_and_change loses the remainder.)        *)
THEOREM ValueIsConserved ==
    ASSUME ChangeCounts = {1}
    PROVE  Spec => []Conservation
<1>1. SelInv => Conservation
  BY DEF SelInv, Built, ReqOK, Conservation
<1>. QED  BY <1>1, InitSel, StepSel, PTL DEF Spec

=============================================================================
