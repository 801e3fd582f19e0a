---------------------------- MODULE MCAlgorithms ----------------------------
(***************************************************************************)
(* Feeds the algorithms for TLC: each behavior picks a subject and grows   *)
(* its input one item at a time, and the invariants look at every input    *)
(* on the way.                                                             *)
(***************************************************************************)
EXTENDS Evaluation, Optimizer, Backtest, Screening

CONSTANTS Longest           \* bound on the length of each subject's input

VARIABLES subject, items, correlated, held

inputVars == <<subject, items, correlated, held>>

\* The cfg can not write these down.
LongestInputs == [profits |-> 4, records |-> 4, trials |-> 4, backtest |-> 6,
                  folds |-> 60, signals |-> 6, symbols |-> 5]
ConfiguredSymbols == <<"s1">>

Init ==
    /\ subject \in DOMAIN Longest
    /\ items = <<>> /\ correlated = {} /\ held = <<>>

Extend(s, item) ==
    /\ subject = s /\ Len(items) < Longest[s]
    /\ items' = Append(items, item)
    /\ UNCHANGED <<subject, held>>

Later(day) == \A i \in DOMAIN items : items[i].day <= day

(* Two symbols, of which one is traded in equal lots.                      *)
RecordTrade(symbol, side, price, quantity, day) ==
    /\ Extend("profits", [symbol |-> symbol, side |-> side, price |-> price,
                          quantity |-> quantity, day |-> day, strategy |-> "a"])
    /\ Later(day) /\ (symbol = "s2" => quantity = 1)
    /\ UNCHANGED correlated

(* Two strategies trade the one symbol, one the other.                     *)
RecordSignal(symbol, side, price, strategy, day) ==
    /\ Extend("records", [symbol |-> symbol, side |-> side, price |-> price,
                          quantity |-> 1, day |-> day, strategy |-> strategy])
    /\ Later(day) /\ (symbol = "s2" => strategy = "a")
    /\ UNCHANGED correlated

Trials ==
    {[outcome |-> "raises"], [outcome |-> "none"]}
    \cup [outcome : {"measured"}, sharpe : {-6, 4, 11, 14, 16},
          consistency : {100}, overfit : {1}]
    \cup {[outcome |-> "measured", sharpe |-> 26, consistency |-> 0, overfit |-> 1],
          [outcome |-> "measured", sharpe |-> 26, consistency |-> 100, overfit |-> -4]}

RunTrial(trial) == Extend("trials", trial) /\ UNCHANGED correlated

(* Open and close; enough to buy, to buy again, and to sell at a profit    *)
(* and at a loss.                                                          *)
Shapes == {<<8, 16>>, <<16, 8>>, <<16, 16>>, <<24, 24>>, <<24, 32>>, <<32, 24>>}
Candle(open, close, volume) ==
    [open |-> open, close |-> close, high |-> Max({open, close}),
     low |-> Min({open, close}), volume |-> volume]

AddCandle(shape) == Extend("backtest", Candle(shape[1], shape[2], 1)) /\ UNCHANGED correlated

AddDay == Extend("folds", "candle") /\ UNCHANGED correlated

(* A candle opens where the last one closed.                               *)
AddPrice(close, volume) ==
    /\ subject = "signals"
    /\ LET open == IF items = <<>> THEN close ELSE Last(items).close
       IN Extend("signals", Candle(open, close, volume))
    /\ UNCHANGED correlated

(* With at most one thing that keeps it from being selected first.         *)
Markets ==
    {m \in [warning : BOOLEAN, turnover : {1, 2, 3}, backtest : {"passed", "failed"}] :
       /\ m.warning => m.turnover = 3 /\ m.backtest = "passed"
       /\ m.backtest = "failed" => m.turnover = 3}

Listing(symbol, market) ==
    [symbol |-> symbol, warning |-> market.warning, turnover |-> market.turnover,
     backtest |-> market.backtest]

(* The defaults and some of what the tuning job may draw: at the ends of   *)
(* its ranges, one parameter of a pair alone, and pairs that favour the    *)
(* buying side (of which nothing is claimed).                              *)
RsiTunings ==
    {<<>>, [oversold |-> 15, overbought |-> 85], [oversold |-> 40, overbought |-> 60],
     [oversold |-> 25, overbought |-> 65], [oversold |-> 40, overbought |-> 85]}
ScoreTunings ==
    {<<>>, [buy_threshold |-> 30], [sell_threshold |-> 55],
     [rsi_oversold |-> 25, rsi_overbought |-> 75, buy_threshold |-> 60, sell_threshold |-> 55],
     [rsi_oversold |-> 40, rsi_overbought |-> 60, buy_threshold |-> 30, sell_threshold |-> 25]}

Names == <<"s1", "s2", "s3", "s4", "s5">>

ASSUME NamesAssumption == Longest["symbols"] \in 0..Len(Names)

(* The ones that can be selected; only their correlations matter.          *)
Eligible(m) == ~m.warning /\ m.turnover >= MinVolume /\ m.backtest = "passed"

AddMarket(market, with) ==
    /\ subject = "symbols" /\ Len(items) < Longest["symbols"]
    /\ with \subseteq {items[i].symbol : i \in {j \in DOMAIN items :
                               Eligible(items[j]) /\ Eligible(market)}}
    /\ LET symbol == Names[Len(items) + 1]
       IN /\ Extend("symbols", Listing(symbol, market))
          /\ correlated' = correlated \cup {{s, symbol} : s \in with}

Hold(symbol) ==
    /\ subject = "symbols" /\ Len(held) < 1
    /\ held' = Append(held, symbol)
    /\ UNCHANGED <<subject, items, correlated>>

Next ==
    \/ \E symbol \in TradedSymbols, side \in {"buy", "sell"}, price \in {1, 2},
          quantity \in {1, 2}, day \in Days :
             RecordTrade(symbol, side, price, quantity, day)
    \/ \E symbol \in TradedSymbols, side \in {"buy", "sell"}, price \in {1, 2},
          strategy \in TradingStrategies, day \in Days :
             RecordSignal(symbol, side, price, strategy, day)
    \/ \E trial \in Trials : RunTrial(trial)
    \/ \E shape \in Shapes : AddCandle(shape)
    \/ AddDay
    \/ \E close \in {1, 2, 3}, volume \in {1, 3} : AddPrice(close, volume)
    \/ \E market \in Markets, with \in SUBSET {"s1", "s2", "s3", "s4"} :
             AddMarket(market, with)
    \/ \E symbol \in {"s2"} : Hold(symbol)

Spec == Init /\ [][Next]_inputVars

-----------------------------------------------------------------------------
(* The realized profits of all days are together what the account gained   *)
(* when all is closed again: get_daily_pnl.                                *)
DailyProfitsAddUp == subject = "profits" => DaysAddUp(items)

(* Only a buy recorded out of order with a sell of its symbol changes a    *)
(* day's profit: get_daily_pnl over ids given after the broker's lock.     *)
OrderOfRowsIsFree == subject = "profits" => OrderIsFree(items)

(* The record of a strategy in SQL and the one in Python agree:            *)
(* StrategyTracker and PerformanceEvaluator.                               *)
StrategyRecordsAgree == subject = "records" => RecordsAgree(items)

(* The optimizer's choice is valid and less than a rounding step away from *)
(* the best valid trial: ParameterOptimizer.optimize.                      *)
ChosenIsNearlyBest == subject = "trials" => ChosenTrial(items)

(* A backtest's decisions do not depend on later candles:                  *)
(* BacktestEngine.run.                                                     *)
BacktestSeesNoFuture == subject = "backtest" => NoLookAhead(items)

(* A backtest's orders only cost: BacktestEngine.run.                      *)
BacktestPaysForTrades == subject = "backtest" => TradingCosts(items)

(* Training and test windows are ordered, disjoint and complete:           *)
(* WalkForwardValidator.run.                                               *)
WalkForwardIsSound == subject = "folds" =>
    \A required \in 1..10, folds \in 2..5 :
        FoldsAreSound(Len(items), required, folds)

(* With parameters that do not favour the buying side, a strategy that     *)
(* buys sells on the same prices upside down: the analyze methods, the     *)
(* ensemble and the volume filter.                                         *)
QuickerToSell == subject = "signals" =>
    SellsAsEasily(items, 4, RsiTunings, ScoreTunings)

(* The symbols to trade hold all that is held, no correlated pair, and     *)
(* leave out no good candidate without a reason: run_screening_pipeline    *)
(* and select_symbols.                                                     *)
ScreeningIsSound == subject = "symbols" =>
    \A max \in 1..3 : SymbolsAreSound(items, correlated, max, held)
=============================================================================
