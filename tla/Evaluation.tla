----------------------------- MODULE Evaluation -----------------------------
(***************************************************************************)
(* What is computed from the trades table: the profit of a day, by a       *)
(* replay of all rows (TradeRepository.get_daily_pnl), and the record of a *)
(* strategy, computed twice: in SQL for /strategies (StrategyTracker) and  *)
(* in Python for the rollback check (PerformanceEvaluator).                *)
(*                                                                         *)
(* rows is the table in the order of ids, and a query's result the set of  *)
(* the ids it selects.  An average price is kept as a quantity and its     *)
(* cost; Unit makes the divisions exact.  The percentages and the Sharpe   *)
(* ratio are quotients of what is defined here.                            *)
(***************************************************************************)
EXTENDS Integers, SequencesExt

CONSTANTS
    TradedSymbols, TradingStrategies, Days,
    Unit,             \* KRW are counted in 1/Unit
    TradeFee,         \* the commission is one TradeFee-th of the amount
    MinTrades         \* MIN_TRADES_FOR_EVALUATION

ASSUME EvaluationAssumption ==
    /\ IsFiniteSet(TradedSymbols) /\ IsFiniteSet(Days)
    /\ Days \subseteq Nat /\ MinTrades \in Nat
    /\ Unit \in Nat /\ TradeFee \in Nat \ {0} /\ Unit % TradeFee = 0

Amount(row) == row.price * row.quantity * Unit
Fee(row) == Amount(row) \div TradeFee
Total(rows, ids, F(_)) == SumFunctionOnSet([i \in ids |-> F(rows[i])], ids)
On(side, row) == IF row.side = side THEN Amount(row) ELSE 0

(* The cash a trade brings: positive for a sell.                           *)
Cash(row) == On("sell", row) - On("buy", row) - Fee(row)

-----------------------------------------------------------------------------
(* get_daily_pnl                                                           *)

NoPosition == [quantity |-> 0, cost |-> 0]
NothingYet == [positions |-> [s \in TradedSymbols |-> NoPosition],
               realized_pnl |-> 0, total_bought |-> 0, total_sold |-> 0,
               total_commission |-> 0]

(* No more is sold than the replay holds; the cost goes in proportion.     *)
SellQuantity(pos, row) ==
    IF row.quantity < pos.quantity THEN row.quantity ELSE pos.quantity
CostBasis(pos, row) ==
    IF pos.quantity = 0 THEN 0
    ELSE (pos.cost * SellQuantity(pos, row)) \div pos.quantity

\* Variant with a bug: the average price becomes the latest price.
CostAtLastPrice(pos, row) == (pos.quantity + row.quantity) * row.price * Unit

CostAfterBuy(pos, row) == pos.cost + Amount(row)

Replay(report, row, date) ==
    LET pos == report.positions[row.symbol]
        after == IF row.side = "buy"
                 THEN [quantity |-> pos.quantity + row.quantity,
                       cost |-> CostAfterBuy(pos, row)]
                 ELSE [quantity |-> pos.quantity - SellQuantity(pos, row),
                       cost |-> pos.cost - CostBasis(pos, row)]
        replayed == [report EXCEPT !.positions[row.symbol] = after]
    IN IF row.day # date THEN replayed
       ELSE [replayed EXCEPT
               !.realized_pnl = @ + (IF row.side = "sell"
                                     THEN Amount(row) - CostBasis(pos, row)
                                     ELSE 0),
               !.total_bought = @ + On("buy", row),
               !.total_sold = @ + On("sell", row),
               !.total_commission = @ + Fee(row)]

\* Variant with a bug: only the rows of the day itself are read.
IsOfTheDay(row, date) == row.day = date

IsRead(row, date) == row.day <= date

DailyPnl(rows, date) ==
    LET report == FoldLeft(LAMBDA r, row :
                             IF IsRead(row, date) THEN Replay(r, row, date) ELSE r,
                           NothingYet, rows)
    IN [report EXCEPT !.realized_pnl = @ - report.total_commission]

-----------------------------------------------------------------------------
(* The record of a strategy, in SQL                                        *)

Aggregates(rows, strategy) ==
    LET trades == {i \in DOMAIN rows : rows[i].strategy = strategy}
    IN [trade_count |-> Cardinality(trades),
        realized_pnl |-> Total(rows, trades, Cash)]

(* The sells of the strategy that have an earlier buy of it, with the last *)
(* such buy.                                                               *)
SellPairs(rows, strategy) ==
    LET Earlier(i) == {j \in 1..(i - 1) : /\ rows[j].symbol = rows[i].symbol
                                          /\ rows[j].side = "buy"
                                          /\ rows[j].strategy = strategy}
    IN {<<i, Max(Earlier(i))>> :
           i \in {k \in DOMAIN rows : /\ rows[k].strategy = strategy
                                      /\ rows[k].side = "sell"
                                      /\ Earlier(k) # {}}}

TrackerWins(rows, strategy) ==
    {p \in SellPairs(rows, strategy) : rows[p[1]].price > rows[p[2]].price}

-----------------------------------------------------------------------------
(* The record of a strategy, in Python                                     *)

StrategyTrades(rows, strategy, since) ==
    {i \in DOMAIN rows : rows[i].strategy = strategy /\ rows[i].day >= since}

\* Variant with a bug: the search goes on to an older buy that was cheaper.
WinsOverAnyBuy(rows, trades) ==
    {i \in trades : rows[i].side = "sell" /\
       \E j \in trades : /\ j < i /\ rows[j].side = "buy"
                         /\ rows[j].symbol = rows[i].symbol
                         /\ rows[i].price > rows[j].price}

(* Going back from a sell, the first buy of its symbol is cheaper.         *)
Wins(rows, trades) ==
    {i \in trades : rows[i].side = "sell" /\
       \E j \in trades :
          /\ j < i /\ rows[j].side = "buy" /\ rows[j].symbol = rows[i].symbol
          /\ \A k \in trades : j < k /\ k < i /\ rows[k].side = "buy"
                                => rows[k].symbol # rows[i].symbol
          /\ rows[i].price > rows[j].price}

TotalReturn(rows, trades) ==
    Total(rows, trades, LAMBDA row : On("sell", row))
    - Total(rows, trades, LAMBDA row : On("buy", row)) - Total(rows, trades, Fee)

(* What each day with trades brought, and what it was divided by.          *)
DailyReturns(rows, trades) ==
    [day \in {rows[i].day : i \in trades} |->
       LET today == {i \in trades : rows[i].day = day}
       IN [pnl |-> Total(rows, today, Cash),
           invested |-> Total(rows, today, LAMBDA row : On("buy", row))]]

Evaluate(rows, strategy, since) ==
    LET trades == StrategyTrades(rows, strategy, since)
    IN IF Cardinality(trades) < MinTrades
       THEN [status |-> "insufficient_data", trade_count |-> Cardinality(trades)]
       ELSE [status |-> "evaluated", trade_count |-> Cardinality(trades),
             wins |-> Cardinality(Wins(rows, trades)),
             total_return |-> TotalReturn(rows, trades),
             daily_returns |-> DailyReturns(rows, trades)]

-----------------------------------------------------------------------------
(* Of the first n rows.                                                    *)
Quantity(rows, n, symbol, side) ==
    Total(rows, {i \in 1..n : rows[i].symbol = symbol /\ rows[i].side = side},
          LAMBDA row : row.quantity)

(* Rows a broker can have written in the order of its orders: it never     *)
(* sells more than it holds.                                               *)
CoveredSells(rows) == \A n \in DOMAIN rows, s \in TradedSymbols :
    Quantity(rows, n, s, "sell") <= Quantity(rows, n, s, "buy")
AllClosed(rows) == \A s \in TradedSymbols :
    Quantity(rows, Len(rows), s, "sell") = Quantity(rows, Len(rows), s, "buy")

(* The daily profits add up: when every position is closed, the realized   *)
(* profits of all days, each from a replay of its own, are together what   *)
(* the account has gained, whichever days the buys and the sells fell on   *)
(* and in however many parts a position was sold.                          *)
DaysAddUp(rows) ==
    LET Reported(F(_)) == SumFunction([d \in Days |-> F(DailyPnl(rows, d))])
        gained == Total(rows, DOMAIN rows, Cash)
    IN /\ Reported(LAMBDA r : r.total_sold - r.total_bought - r.total_commission)
            = gained
       /\ CoveredSells(rows) /\ AllClosed(rows)
            => Reported(LAMBDA r : r.realized_pnl) = gained

(* The order of ids matters for nothing but a buy against a sell: rows are *)
(* numbered after the broker's lock is released, so two threads' trades    *)
(* may be recorded in another order than they were executed.  Unless one   *)
(* bought and the other sold the same symbol, no day's profit changes.     *)
SwapAt(rows, i) == [rows EXCEPT ![i] = rows[i + 1], ![i + 1] = rows[i]]
OrderIsFree(rows) == \A i \in 1..(Len(rows) - 1) :
    \/ rows[i].day # rows[i + 1].day
    \/ /\ rows[i].symbol = rows[i + 1].symbol
       /\ rows[i].side # rows[i + 1].side
    \/ \A d \in Days : DailyPnl(SwapAt(rows, i), d) = DailyPnl(rows, d)

(* The two records of a strategy agree: over all its trades the evaluator  *)
(* counts the trades, wins and profit that SQL counts, its daily results   *)
(* sum to its total, and a shorter period never shows more wins.           *)
RecordsAgree(rows) == \A s \in TradingStrategies, since \in Days :
    LET record == Evaluate(rows, s, since)
        daily == record.daily_returns
        sql == Aggregates(rows, s)
    IN record.status = "evaluated" =>
         /\ SumFunction([d \in DOMAIN daily |-> daily[d].pnl]) = record.total_return
         /\ record.wins <= Cardinality(TrackerWins(rows, s))
         /\ record.trade_count = sql.trade_count =>
              /\ record.wins = Cardinality(TrackerWins(rows, s))
              /\ record.total_return = sql.realized_pnl
=============================================================================
