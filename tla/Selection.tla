----------------------------- MODULE Selection -----------------------------
(***************************************************************************)
(* Coin selection of libwallet/src/internal/selection.rs: which outputs a  *)
(* payment spends, its fee and its change, and the retry of the send       *)
(* command (controller/src/command.rs) with the largest amount that fits.  *)
(*                                                                         *)
(* A behaviour is one request, from select_coins to inputs_and_change; the *)
(* loop of select_coins_and_fee that looks for more outputs is a step per  *)
(* round.  A coin is its value, the eligible coins are in the order        *)
(* select_coins sorts them into.                                           *)
(***************************************************************************)
EXTENDS Integers, Sequences, SequencesExt

CONSTANTS
    Values,       \* values a coin can have
    MaxCoins,     \* bound: eligible coins
    Amounts,      \* amounts asked for
    OutputLimits, \* values of max_outputs
    ChangeCounts, \* values of num_change_outputs
    UseMax,       \* values of use_max_amount: whether to send all there is
    InWeight, OutWeight, KernWeight,  \* weight of an input, output, kernel
    FeeBase,      \* fee of a unit of weight
    MaxWeight     \* max_tx_weight

ASSUME SelectionAssumption ==
    /\ Values \subseteq Nat \ {0} /\ Amounts \subseteq Nat \ {0}
    /\ OutputLimits \subseteq Nat \ {0} /\ ChangeCounts \subseteq Nat \ {0}
    /\ {MaxCoins, InWeight, OutWeight, KernWeight, FeeBase, MaxWeight} \subseteq Nat
    /\ UseMax \subseteq BOOLEAN

VARIABLES
    req,     \* [coins, amount, includes, limit, change, all, max]
    pc,      \* "select", "more", "weigh", "change" or an outcome
    sel,     \* coins selected so far
    fee,     \* fee for them
    change,  \* change amounts
    retried, \* the request is the retry after a BigAmountError
    big      \* [amount, inputs] of the BigAmountError

vars == <<req, pc, sel, fee, change, retried, big>>

Total(s) ==
    LET sum[n \in 0 .. Len(s)] == IF n = 0 THEN 0 ELSE sum[n - 1] + s[n]
    IN  sum[Len(s)]

weight(i, o) == i * InWeight + o * OutWeight + KernWeight
tx_fee(i, o) == weight(i, o) * FeeBase

-----------------------------------------------------------------------------
(* The first coins, until the amount is reached.                           *)
TakeWhile(amount, coins) ==
    LET n == CHOOSE m \in 0 .. Len(coins) :
               /\ Total(SubSeq(coins, 1, m)) >= amount
               /\ \A k \in 0 .. m - 1 : Total(SubSeq(coins, 1, k)) < amount
    IN  SubSeq(coins, 1, n)

(* select_from, for coins whose total reaches the amount.                  *)
select_from(amount, all, coins) == IF all THEN coins ELSE TakeWhile(amount, coins)

Windows(coins, n) == [i \in 1 .. Len(coins) - n + 1 |-> SubSeq(coins, i, i + n - 1)]

(* select_coins: the first window of limit coins that reaches the amount,  *)
(* else the smallest coins that do, else the largest limit coins.          *)
select_coins(coins, amount, limit, all) ==
    LET w == Windows(coins, limit)
        fits == {i \in DOMAIN w : Total(w[i]) >= amount}
        i1 == CHOOSE i \in fits : \A j \in fits : i <= j
        most == SubSeq(Reverse(coins), 1, IF limit < Len(coins) THEN limit ELSE Len(coins))
    IN  CASE Len(coins) > limit /\ fits # {} -> select_from(amount, all, w[i1])
          [] Len(coins) > limit /\ fits = {} /\ Total(coins) >= amount ->
                select_from(amount, FALSE, coins)
          [] Len(coins) <= limit /\ Total(coins) >= amount ->
                select_from(amount, all, coins)
          [] OTHER -> most

(* The amount to cover.                                                    *)
WithFee(f) == IF req.includes THEN req.amount ELSE req.amount + f

-----------------------------------------------------------------------------
Ascending(s) == \A i \in 1 .. Len(s) - 1 : s[i] <= s[i + 1]
Coins == {s \in UNION {[1 .. n -> Values] : n \in 0 .. MaxCoins} : Ascending(s)}

(* "Send the maximum" asks for all there is, fee included.                 *)
Requests ==
    {r \in [coins: Coins, amount: Amounts, includes: BOOLEAN, limit: OutputLimits,
            change: ChangeCounts, all: BOOLEAN, max: UseMax] : ~r.max}
    \cup
    {[r EXCEPT !.amount = Total(r.coins)] :
        r \in {q \in [coins: Coins \ {<<>>}, amount: {0}, includes: {TRUE},
                      limit: OutputLimits, change: ChangeCounts, all: BOOLEAN,
                      max: UseMax] : q.max}}

Init ==
    /\ req \in Requests
    /\ pc = "select" /\ sel = <<>> /\ fee = 0 /\ change = <<>>
    /\ retried = FALSE /\ big = [amount |-> 0, inputs |-> 0]

(* The first selection, tried without change.  From here on max_outputs    *)
(* stands for the number of eligible coins.                                *)
Select ==
    LET coins == select_coins(req.coins, req.amount, req.limit, req.all)
        total == Total(coins)
        exact == tx_fee(Len(coins), 1)
        more == tx_fee(Len(coins), req.change + 1)
    IN  /\ pc = "select"
        /\ sel' = coins
        /\ fee' = IF total = WithFee(exact) THEN exact ELSE more
        /\ pc' = CASE total = 0 \/ (/\ total < WithFee(exact)
                                    /\ Len(coins) = Len(req.coins)) -> "notEnoughFunds"
                   [] total = WithFee(exact) -> "weigh"
                   [] OTHER -> "more"
        /\ UNCHANGED <<req, change, retried, big>>

(* A round of the loop: while the coins do not cover the amount and fee,   *)
(* select again for that sum, now without a limit.                         *)
(* (Mutants: the fee is not updated, the limit still holds.)               *)
MoreCoins == select_coins(req.coins, WithFee(fee), Len(req.coins), req.all)

MoreFee_old == fee
MoreFee == tx_fee(Len(MoreCoins), req.change + 1)

AllSelected_limit == Len(sel) >= req.limit
AllSelected == Len(sel) = Len(req.coins)

Short == Total(sel) < WithFee(fee)

SelectMore ==
    /\ pc = "more"
    /\ \/ ~Short /\ pc' = "weigh" /\ UNCHANGED <<sel, fee>>
       \/ Short /\ AllSelected /\ pc' = "notEnoughFunds" /\ UNCHANGED <<sel, fee>>
       \/ /\ Short /\ ~AllSelected
          /\ sel' = MoreCoins /\ fee' = MoreFee
          /\ pc' = "more"
    /\ UNCHANGED <<req, change, retried, big>>

(* The coins sorted by decreasing value.                                   *)
Decreasing(s) ==
    LET p == CHOOSE q \in [DOMAIN s -> DOMAIN s] :
               /\ IsInjective(q)
               /\ \A i, j \in DOMAIN s : i < j => s[q[i]] >= s[q[j]]
    IN  [i \in DOMAIN s |-> s[p[i]]]

(* max_spendable_amount: of the first coins that fit the weight, the       *)
(* largest ones for as long as their total exceeds their fee.              *)
BestOf(coins, n0) ==
    LET desc == Decreasing(SubSeq(coins, 1, n0))
        pays == {n \in 1 .. n0 : Total(SubSeq(desc, 1, n)) > tx_fee(n, 1)} \cup {0}
        best == CHOOSE n \in pays : \A m \in pays : m <= n
        total == Total(SubSeq(desc, 1, best))
        net == IF total > tx_fee(best, 1) THEN total - tx_fee(best, 1) ELSE 0
    IN  [amount |-> IF req.includes THEN total ELSE net, inputs |-> best]

(* (Mutant: the weight check is one input behind.)                         *)
Fitting_oneMore(coins, outs) ==
    {n \in 0 .. Len(coins) : \A m \in 1 .. n : weight(m - 1, outs) <= MaxWeight}
Fitting(coins, outs) ==
    {n \in 0 .. Len(coins) : \A m \in 1 .. n : weight(m, outs) <= MaxWeight}

max_spendable_amount(coins, outs) ==
    BestOf(coins, CHOOSE n \in Fitting(coins, outs) :
                      \A m \in Fitting(coins, outs) : m <= n)

OutputCount == IF Total(sel) = WithFee(fee) THEN 1 ELSE req.change + 1

(* The weight check and, when the fee comes out of the amount, that the    *)
(* amount can bear it.                                                     *)
Weigh ==
    /\ pc = "weigh"
    /\ IF weight(Len(sel), OutputCount) > MaxWeight
       THEN /\ pc' = "bigAmount"
            /\ big' = max_spendable_amount(sel, OutputCount)
       ELSE /\ pc' = IF req.includes /\ req.amount < fee THEN "tooSmall" ELSE "change"
            /\ UNCHANGED big
    /\ UNCHANGED <<req, sel, fee, change, retried>>

(* What the recipient gets.                                                *)
Sent == IF req.includes THEN req.amount - fee ELSE req.amount

(* inputs_and_change: num parts, the last with the remainder.              *)
Parts(amount, num) ==
    LET part == amount \div num
    IN  [i \in 1 .. num |-> IF i = num THEN part + (amount % part) ELSE part]

inputs_and_change ==
    LET amount == Total(sel) - Sent - fee
    IN  /\ pc = "change"
        /\ pc' = IF 0 < amount /\ amount < req.change THEN "divideByZero" ELSE "done"
        /\ change' = IF amount = 0 \/ amount < req.change
                     THEN <<>> ELSE Parts(amount, req.change)
        /\ UNCHANGED <<req, sel, fee, retried, big>>

(* The send command retries once with the amount and the inputs that fit.  *)
max_retry_args ==
    /\ pc = "bigAmount" /\ req.max /\ ~retried
    /\ req' = [req EXCEPT !.amount = big.amount, !.limit = big.inputs, !.all = TRUE]
    /\ retried' = TRUE
    /\ pc' = IF big.inputs = 0 THEN "panic" ELSE "select"
    /\ sel' = <<>> /\ fee' = 0
    /\ UNCHANGED <<change, big>>

Next == Select \/ SelectMore \/ Weigh \/ inputs_and_change \/ max_retry_args

Spec == Init /\ [][Next]_vars

-----------------------------------------------------------------------------
(* No value appears or disappears: the inputs are what the recipient gets, *)
(* the fee and the change (selection.rs: "n-1 equal change_outputs and a   *)
(* final one accounting for any remainder").  The fee set during selection *)
(* is enough for what is built in the end, whatever the loop added and     *)
(* whether or not there is change, and the weight limit is kept.           *)
Conservation ==
    pc = "done" => /\ Total(sel) = Sent + fee + Total(change)
                   /\ fee >= tx_fee(Len(sel), 1 + Len(change))
                   /\ weight(Len(sel), 1 + Len(change)) <= MaxWeight

(* NotEnoughFunds is raised only if all the eligible coins together do not *)
(* cover the amount and the fee of spending them with change.              *)
RefusesOnlyShort ==
    pc = "notEnoughFunds" =>
        Total(req.coins) < WithFee(tx_fee(Len(req.coins), req.change + 1))

(* The retry of "send the maximum" succeeds: the amount and the number of  *)
(* inputs reported by BigAmountError can be sent, as long as there is a     *)
(* set of coins worth more than its fee.                                   *)
RetryFits ==
    retried /\ big.inputs > 0 =>
        pc \notin {"bigAmount", "notEnoughFunds", "tooSmall", "panic"}

=============================================================================
