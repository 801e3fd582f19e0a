------------------------------ MODULE Screening -----------------------------
(***************************************************************************)
(* The choice of the symbols to trade at start-up: the markets with the    *)
(* highest turnover (UpbitClient.get_top_volume_symbols), of which those   *)
(* whose backtest is good enough (backtest_filter), of which those that do *)
(* not move together (correlation_filter), and what is held already        *)
(* (select_symbols).  A market's record has its turnover, its warning and  *)
(* the result of its backtest; correlated is the set of pairs of symbols   *)
(* whose returns correlate by max_correlation or more.                     *)
(***************************************************************************)
EXTENDS Integers, SequencesExt

CONSTANTS
    TickerLimit,      \* markets per request of get_tickers
    TopLimit,         \* settings.top_volume_limit
    MinVolume,        \* settings.min_daily_volume_krw
    Configured        \* settings.symbol_list

ASSUME ScreeningAssumption == TickerLimit \in Nat /\ TopLimit \in Nat

AtMostFirst(s, n) == SubSeq(s, 1, Min({Len(s), n}))

(* By descending turnover; equal ones keep the order of the exchange's     *)
(* list.                                                                   *)
Before(markets, i, j) ==
    \/ markets[i].turnover > markets[j].turnover
    \/ markets[i].turnover = markets[j].turnover /\ i < j

ByTurnover(markets, ids) ==
    LET place(i) == Cardinality({j \in ids : Before(markets, j, i)}) + 1
    IN [n \in 1..Cardinality(ids) |-> markets[CHOOSE i \in ids : place(i) = n]]

GetTopVolumeSymbols(markets) ==
    LET safe == {i \in DOMAIN markets : ~markets[i].warning}
        asked == {i \in safe : Cardinality({j \in safe : j < i}) < TickerLimit}
        ranked == {i \in asked : markets[i].turnover >= MinVolume}
    IN AtMostFirst(ByTurnover(markets, ranked), TopLimit)

(* Candles that cannot be fetched, or are too few, fail as a bad Sharpe    *)
(* ratio does.                                                             *)
BacktestFilter(candidates) ==
    FoldLeft(LAMBDA passed, m : IF m.backtest = "passed" THEN Append(passed, m)
                                ELSE passed,
             <<>>, candidates)

\* Variant with a bug: only the symbol selected last is compared.
CorrelatedWithLast(symbol, selected, correlated) ==
    selected # <<>> /\ {symbol, Last(selected)} \in correlated

CorrelatedWithAny(symbol, selected, correlated) ==
    \E i \in DOMAIN selected : {symbol, selected[i]} \in correlated

(* max is settings.max_positions.                                         *)
CorrelationFilter(symbols, correlated, max) ==
    AtMostFirst(FoldLeft(LAMBDA selected, s :
                           IF CorrelatedWithAny(s, selected, correlated)
                           THEN selected ELSE Append(selected, s),
                         <<>>, symbols),
                max)

RunScreeningPipeline(markets, correlated, max) ==
    LET passed == BacktestFilter(GetTopVolumeSymbols(markets))
    IN CorrelationFilter([i \in DOMAIN passed |-> passed[i].symbol],
                         correlated, max)

(* The configured symbols when the screening is off, fails or finds none;  *)
(* held is the sequence of the broker's positions.                         *)
SelectSymbols(screened, held) ==
    LET symbols == IF screened = <<>> THEN Configured ELSE screened
    IN FoldLeft(LAMBDA list, s : IF Contains(list, s) THEN list ELSE Append(list, s),
                symbols, held)

-----------------------------------------------------------------------------
(* The list of symbols is sound: nothing that is held is forgotten and     *)
(* nothing is listed twice; no two of the selected symbols move together;  *)
(* and a candidate that passed its backtest is left out only when it moves *)
(* with a selected one of no less turnover or the list is full, also       *)
(* though the list is cut after symbols were left out for one that might   *)
(* be cut itself.                                                          *)
SymbolsAreSound(markets, correlated, max, held) ==
    LET selected == RunScreeningPipeline(markets, correlated, max)
        list == SelectSymbols(selected, held)
        passed == BacktestFilter(GetTopVolumeSymbols(markets))
    IN /\ \A i \in DOMAIN held : Contains(list, held[i])
       /\ \A i, j \in DOMAIN list : i # j => list[i] # list[j]
       /\ \A i, j \in DOMAIN selected : {selected[i], selected[j]} \notin correlated
       /\ \A i \in DOMAIN passed :
             \/ Contains(selected, passed[i].symbol)
             \/ Len(selected) = max
             \/ \E j \in 1..i :
                   /\ Contains(selected, passed[j].symbol)
                   /\ passed[j].turnover >= passed[i].turnover
                   /\ {passed[j].symbol, passed[i].symbol} \in correlated
=============================================================================
