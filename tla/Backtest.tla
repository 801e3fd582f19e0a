------------------------------ MODULE Backtest ------------------------------
(***************************************************************************)
(* BacktestEngine.run over a sequence of candles, with the volatility      *)
(* breakout strategy, and the windows of WalkForwardValidator.run.  The    *)
(* position is kept as its quantity and its cost; the average price is the *)
(* quotient.  Ratios (return, Sharpe, drawdown) follow from the equity     *)
(* curve and are left out.                                                 *)
(***************************************************************************)
EXTENDS Decisions

CONSTANTS
    InitialBalance, OrderAmount,
    CommissionDen,            \* commission_rate = 1 / CommissionDen
    ImpactDen,                \* slippage and half the spread = 1 / ImpactDen
    TrainNum, TrainDen        \* train_ratio

(* A unit is small enough for the commission of an order to be some.       *)
ASSUME BacktestAssumption ==
    /\ TrainNum \in Nat /\ TrainDen \in Nat \ {0}
    /\ InitialBalance \in Nat /\ ImpactDen \in Nat \ {0}
    /\ CommissionDen \in Nat \ {0} /\ OrderAmount \in Nat
    /\ OrderAmount >= CommissionDen

Required == 2

\* Variant with a bug: the impact makes a sell dearer too.
SlippageUp(price, side) == price + price \div ImpactDen

ExecPrice(price, side) ==
    IF side = "buy" THEN price + price \div ImpactDen
                    ELSE price - price \div ImpactDen

Fresh == [balance |-> InitialBalance, quantity |-> 0, cost |-> 0,
          buys |-> 0, wins |-> 0, losses |-> 0, curve |-> <<InitialBalance>>]

CanBuy(b) == /\ b.balance >= OrderAmount
             /\ OrderAmount + OrderAmount \div CommissionDen <= b.balance

BacktestBuy(b, price) ==
    [b EXCEPT !.balance = @ - OrderAmount - OrderAmount \div CommissionDen,
              !.quantity = @ + OrderAmount \div ExecPrice(price, "buy"),
              !.cost = @ + OrderAmount,
              !.buys = @ + 1]

BacktestSell(b, price) ==
    LET proceeds == b.quantity * ExecPrice(price, "sell")
    IN [b EXCEPT !.balance = @ + proceeds - proceeds \div CommissionDen,
                 !.quantity = 0, !.cost = 0,
                 !.wins = IF proceeds > b.cost THEN @ + 1 ELSE @,
                 !.losses = IF proceeds > b.cost THEN @ ELSE @ + 1]

BacktestStep(b, action, price) ==
    LET after == CASE action = "buy" /\ CanBuy(b) -> BacktestBuy(b, price)
                   [] action = "sell" /\ b.quantity > 0 -> BacktestSell(b, price)
                   [] OTHER -> b
    IN [after EXCEPT !.curve = Append(@, after.balance + after.quantity * price)]

\* Variant with a bug: the candle after the one that is traded is shown.
WindowAhead(candles, i) ==
    SubSeq(candles, 1, IF i < Len(candles) THEN i + 1 ELSE i)

Window(candles, i) == SubSeq(candles, 1, i)

Run(candles) ==
    FoldLeft(LAMBDA b, i : BacktestStep(b, Breakout(Window(candles, i)),
                                        candles[i].close),
             Fresh,
             [n \in 1..(Len(candles) - Required) |-> n + Required])

-----------------------------------------------------------------------------
(* Walk-forward windows                                                    *)

(* int(total * train_ratio): the product of floats may fall just short of  *)
(* a whole number, as 90 * 0.7 does.                                       *)
TrainSizes(total) ==
    LET exact == (total * TrainNum) \div TrainDen
    IN IF (total * TrainNum) % TrainDen = 0 /\ exact > 0
       THEN {exact, exact - 1} ELSE {exact}

\* Variant with a bug: the parts are rounded up.
PartsRoundedUp(total, train, folds) == (total - train + folds - 1) \div folds

TestSize(total, train, folds) == (total - train) \div folds

(* Each fold trains on 1..train and is tested on (train + 1)..to.          *)
Folds(total, train, required, folds) ==
    LET size == TestSize(total, train, folds)
    IN IF train < required \/ size < required THEN <<>>
       ELSE [i \in 1..folds |->
               LET from == train + (i - 1) * size
               IN [train |-> from, to |-> Min({from + size, total})]]

-----------------------------------------------------------------------------
(* No look-ahead: what a backtest did up to some candle does not change    *)
(* when another candle follows.  Candles arrive one at a time, so this     *)
(* makes every curve a prefix of the curves of its continuations.          *)
NoLookAhead(candles) ==
    Len(candles) > Required =>
        IsPrefix(Run(Front(candles)).curve, Run(candles).curve)

(* Trading only costs: from one candle to the next the equity changes by   *)
(* what the held coins gained, and by less when an order was executed,     *)
(* which pays the commission and the slippage.  The cash never goes below  *)
(* zero, and every sell is counted as a win or as a loss.                  *)
TradingCosts(candles) ==
    Len(candles) > Required =>
        LET prev == Run(Front(candles))
            curr == Run(candles)
            Orders(b) == b.buys + b.wins + b.losses
            gained == Last(curr.curve) - Last(prev.curve)
            market == prev.quantity
                        * (Last(candles).close - candles[Len(candles) - 1].close)
        IN /\ IF Orders(curr) = Orders(prev) THEN gained = market
                                             ELSE gained < market
           /\ curr.balance >= 0
           /\ curr.wins + curr.losses <= curr.buys

(* The folds are sound: each is trained on everything before its test and  *)
(* nothing else, tests follow one another without a gap or an overlap,     *)
(* stay within the data, leave out fewer candles at the end than there are *)
(* folds, and no part is shorter than the strategy requires.  There are    *)
(* none only when the first training or a test would be too short.         *)
FoldsAreSound(total, required, folds) == \A train \in TrainSizes(total) :
    LET f == Folds(total, train, required, folds)
    IN IF f = <<>>
       THEN train < required \/ total - train < folds * required
       ELSE /\ f[1].train = train /\ train >= required
            /\ \A i \in 2..folds : f[i].train = f[i - 1].to
            /\ \A i \in 1..folds : f[i].to - f[i].train >= required
            /\ total - f[folds].to \in 0..(folds - 1)
=============================================================================
