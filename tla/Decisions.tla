------------------------------ MODULE Decisions -----------------------------
(***************************************************************************)
(* What the strategies answer to a sequence of candles, the latest last:   *)
(* RSI, MACD, Bollinger bands, volatility breakout, the weighted score of  *)
(* several indicators, the ensemble's vote, and the volume filter behind   *)
(* them.  Only the action is kept, not the confidence and the texts.       *)
(* Prices are whole numbers; quotients are compared by cross-multiplying,  *)
(* square roots by squaring, and Scale makes the averages of EMA whole.    *)
(* The market's regime is an input, and so are the parameters the tuning   *)
(* job may choose among: the limits of the RSI and the thresholds of the   *)
(* score.                                                                  *)
(***************************************************************************)
EXTENDS Integers, SequencesExt

CONSTANTS
    RsiPeriod, Fast, Slow, SignalPeriod, BandPeriod, VolumePeriod,
    BandNum, BandDen,           \* std_mult = BandNum / BandDen
    BreakoutNum, BreakoutDen,   \* k = BreakoutNum / BreakoutDen
    Scale

Closes(candles) == [i \in DOMAIN candles |-> candles[i].close]
LastOf(s, n) == SubSeq(s, Len(s) - n + 1, Len(s))
SumOf(s) == FoldLeft(LAMBDA x, y : x + y, 0, s)

(* A parameter the strategy was made with, or its default: create_strategy.*)
Given(params, key, default) == IF key \in DOMAIN params THEN params[key] ELSE default

(* The one of two conditions that holds, the first one first.              *)
Either(buys, sells) == IF buys THEN "buy" ELSE IF sells THEN "sell" ELSE "hold"

-----------------------------------------------------------------------------
(* RSI                                                                     *)

Gain(delta) == IF delta > 0 THEN delta ELSE 0
Loss(delta) == IF delta < 0 THEN -delta ELSE 0

(* A mean, then Wilder smoothing, multiplied by RsiPeriod at every step.   *)
Smoothed(deltas, Part(_)) ==
    LET step(acc, delta) ==
            [average |-> acc.average * (RsiPeriod - 1)
                           + Part(delta) * acc.scale,
             scale |-> acc.scale * RsiPeriod]
        first == [i \in 1..RsiPeriod |-> Part(deltas[i])]
    IN FoldLeft(step, [average |-> SumOf(first), scale |-> RsiPeriod],
                SubSeq(deltas, RsiPeriod + 1, Len(deltas))).average

Deltas(closes) == [i \in 1..(Len(closes) - 1) |-> closes[i + 1] - closes[i]]

(* A fraction.  Without a loss it is 100, also when nothing moved at all.  *)
Strength(gain, loss) ==
    IF loss = 0 THEN [num |-> 100, den |-> 1]
                ELSE [num |-> 100 * gain, den |-> gain + loss]

\* Variant with a bug: a fall counts as a negative gain.
CalculateRsiNet(closes) ==
    Strength(Smoothed(Deltas(closes), LAMBDA d : d), Smoothed(Deltas(closes), Loss))

CalculateRsi(closes) ==
    Strength(Smoothed(Deltas(closes), Gain), Smoothed(Deltas(closes), Loss))

AtMost(x, n) == x.num <= n * x.den
AtLeast(x, n) == x.num >= n * x.den
Less(x, y) == x.num * y.den < y.num * x.den

OutOfRange(rsi, low, high) == Either(AtMost(rsi, low), AtLeast(rsi, high))

Rsi(candles, params) ==
    IF Len(candles) < RsiPeriod + 2 THEN "hold"
    ELSE OutOfRange(CalculateRsi(Closes(candles)), Given(params, "oversold", 30),
                    Given(params, "overbought", 70))

-----------------------------------------------------------------------------
(* MACD                                                                    *)

CalculateEma(values, period) ==
    IF Len(values) < period THEN <<>>
    ELSE FoldLeft(LAMBDA ema, v :
                    Append(ema, ((v - Last(ema)) * 2) \div (period + 1) + Last(ema)),
                  <<SumOf(SubSeq(values, 1, period)) \div period>>,
                  SubSeq(values, period + 1, Len(values)))

(* The longer series less the other, both up to the same day.              *)
Spread(longer, shorter) ==
    [i \in DOMAIN shorter |->
       longer[i + Len(longer) - Len(shorter)] - shorter[i]]
MacdLine(closes) ==
    LET scaled == [i \in DOMAIN closes |-> closes[i] * Scale]
    IN Spread(CalculateEma(scaled, Fast), CalculateEma(scaled, Slow))
LessSignal(line) == Spread(line, CalculateEma(line, SignalPeriod))
Histogram(closes) == LessSignal(MacdLine(closes))

Crossing(hist) ==
    LET prev == hist[Len(hist) - 1]
    IN Either(prev < 0 /\ Last(hist) > 0, prev > 0 /\ Last(hist) < 0)

Macd(candles) ==
    IF Len(candles) < Slow + SignalPeriod + 1 THEN "hold"
    ELSE Crossing(Histogram(Closes(candles)))

-----------------------------------------------------------------------------
(* Bollinger bands                                                         *)

(* With the period n: n times the distance of the close from the mean, and *)
(* n^2 times the variance.                                                 *)
Deviation(recent) == BandPeriod * Last(recent) - SumOf(recent)
Variance(recent) ==
    BandPeriod * SumOf([i \in DOMAIN recent |-> recent[i] * recent[i]])
    - SumOf(recent) * SumOf(recent)

AtUpper(recent) ==
    LET d == BandDen * Deviation(recent)
    IN d >= 0 /\ d * d >= BandNum * BandNum * Variance(recent)
AtLower(recent) ==
    LET d == BandDen * Deviation(recent)
    IN d <= 0 /\ d * d >= BandNum * BandNum * Variance(recent)

(* %B above 0.8 is more than 0.6 of the way from the middle to the band.   *)
NearUpper(recent) ==
    LET d == 5 * BandDen * Deviation(recent)
    IN d > 0 /\ d * d > 9 * BandNum * BandNum * Variance(recent)
NearLower(recent) ==
    LET d == 5 * BandDen * Deviation(recent)
    IN d < 0 /\ d * d > 9 * BandNum * BandNum * Variance(recent)

(* The bands of a market that does not move are one line: at the lower.    *)
Bollinger(candles) ==
    IF Len(candles) < BandPeriod THEN "hold"
    ELSE LET recent == LastOf(Closes(candles), BandPeriod)
         IN Either(AtLower(recent), AtUpper(recent))

-----------------------------------------------------------------------------
(* Volatility breakout                                                     *)

Breakout(candles) ==
    IF Len(candles) < 2 THEN "hold"
    ELSE LET prev == candles[Len(candles) - 1]
             curr == Last(candles)
             range == prev.high - prev.low
         IN Either(/\ range > 0
                   /\ BreakoutDen * (curr.close - curr.open) >= BreakoutNum * range,
                   curr.close < curr.open)

-----------------------------------------------------------------------------
(* The score                                                               *)

Indicators == {"rsi", "rsi_dir", "macd", "macd_hist", "bb", "volume"}
BaseScores == [rsi |-> 25, rsi_dir |-> 10, macd |-> 25, macd_hist |-> 10,
               bb |-> 20, volume |-> 10]

(* In tenths.  Before the first detection the weights are the volatile's.  *)
Regimes == {"trending", "sideways", "volatile"}
Weights == [trending |-> [rsi |-> 8, rsi_dir |-> 8, macd |-> 15, macd_hist |-> 15,
                          bb |-> 5, volume |-> 10],
            sideways |-> [rsi |-> 12, rsi_dir |-> 12, macd |-> 5, macd_hist |-> 5,
                          bb |-> 15, volume |-> 10],
            volatile |-> [i \in Indicators |-> 10]]

(* A threshold among the parameters holds in every regime.                 *)
BuyThreshold(regime, params) ==
    Given(params, "buy_threshold", IF regime = "trending" THEN 30 ELSE 35)
SellThreshold(regime, params) ==
    Given(params, "sell_threshold", IF regime = "trending" THEN 25 ELSE 30)

Oversold(params) == Given(params, "rsi_oversold", 40)
Overbought(params) == Given(params, "rsi_overbought", 60)

(* Each indicator's set of votes: "buy", "sell", both or none.             *)
Vote(buys, sells) == {v \in {"buy", "sell"} : IF v = "buy" THEN buys ELSE sells}

RsiVotes(prev, rsi, params) ==
    LET low == Oversold(params)
        high == Overbought(params)
    IN [rsi |-> Vote(AtMost(rsi, low), AtLeast(rsi, high)),
        rsi_dir |-> Vote(Less(prev, rsi) /\ AtMost(rsi, low + 10),
                         Less(rsi, prev) /\ AtLeast(rsi, high - 10))]

MacdVotes(hist) ==
    LET now == Last(hist)
        prev == hist[Len(hist) - 1]
    IN [macd |-> Vote(now > 0, now < 0),
        macd_hist |-> Vote(now > prev /\ now > 0, now < prev /\ now < 0)]

BandVotes(closes) ==
    LET recent == LastOf(closes, BandPeriod)
    IN Vote(AtLower(recent) \/ NearLower(recent),
            AtUpper(recent) \/ NearUpper(recent))

VolumeVotes(candles) ==
    LET volumes == [i \in DOMAIN candles |-> candles[i].volume]
        before == SumOf(LastOf(Front(volumes), VolumePeriod))
        change == Last(candles).close - candles[Len(candles) - 1].close
        busy == before > 0 /\ Last(volumes) * VolumePeriod >= before
    IN Vote(busy /\ change > 0, busy /\ change < 0)

(* What the parameters do not change is read once for all of them.         *)
Votes(candles, tunings) ==
    LET closes == Closes(candles)
        prev == CalculateRsi(Front(closes))
        rsi == CalculateRsi(closes)
        others == MacdVotes(Histogram(closes))
                  @@ [bb |-> BandVotes(closes), volume |-> VolumeVotes(candles)]
    IN [params \in tunings |-> RsiVotes(prev, rsi, params) @@ others]

ScoreOf(S, regime) ==
    FoldSet(LAMBDA i, sum : sum + BaseScores[i] * Weights[regime][i], 0, S)

ScoreRequires == Max({RsiPeriod + 2, Slow + SignalPeriod + 1, BandPeriod,
                      VolumePeriod + 1})

Judge(buy, sell, all, regime, params) ==
    Either(100 * buy >= BuyThreshold(regime, params) * all /\ buy > sell,
           100 * sell >= SellThreshold(regime, params) * all /\ sell > buy)

Favour(side, votes, regime) ==
    ScoreOf({i \in Indicators : side \in votes[i]}, regime)

ByRegime(votes, params) ==
    [regime \in Regimes |-> Judge(Favour("buy", votes, regime),
                                  Favour("sell", votes, regime),
                                  ScoreOf(Indicators, regime), regime, params)]

(* For each set of parameters and each regime.                             *)
Score(candles, tunings) ==
    IF Len(candles) < ScoreRequires
    THEN [params \in tunings |-> [regime \in Regimes |-> "hold"]]
    ELSE LET votes == Votes(candles, tunings)
         IN [params \in tunings |-> ByRegime(votes[params], params)]

-----------------------------------------------------------------------------
(* The ensemble and the volume filter                                      *)

(* At least two thirds, or more than half: no two actions can have it.     *)
Ensemble(actions) ==
    LET count(a) == Cardinality({i \in DOMAIN actions : actions[i] = a})
        Agreed(a) == \/ 3 * count(a) >= 2 * Len(actions)
                     \/ 2 * count(a) > Len(actions)
    IN Either(Agreed("buy"), Agreed("sell"))

(* Less than half of the average volume: no trade.                         *)
Filtered(action, candles) ==
    IF action = "hold" \/ Len(candles) < VolumePeriod + 1 THEN action
    ELSE LET volumes == [i \in DOMAIN candles |-> candles[i].volume]
             before == SumOf(LastOf(Front(volumes), VolumePeriod))
         IN IF before > 0 /\ 2 * VolumePeriod * Last(volumes) < before
            THEN "hold" ELSE action

-----------------------------------------------------------------------------
(* Rises become falls of the same size.                                    *)
Mirror(candles, ceiling) ==
    [i \in DOMAIN candles |->
       [open |-> ceiling - candles[i].open, close |-> ceiling - candles[i].close,
        high |-> ceiling - candles[i].low, low |-> ceiling - candles[i].high,
        volume |-> candles[i].volume]]

(* The parameters with which the selling side asks for no more than the    *)
(* buying side.  The defaults do; the tuning job draws each parameter on   *)
(* its own, so what it chooses need not.                                   *)
RsiFavoursSelling(params) ==
    Given(params, "oversold", 30) + Given(params, "overbought", 70) <= 100
ScoreFavoursSelling(regime, params) ==
    /\ Oversold(params) + Overbought(params) <= 100
    /\ SellThreshold(regime, params) <= BuyThreshold(regime, params)

(* With such parameters no strategy is slower to leave than to enter: when *)
(* it buys after some prices, then after the same prices turned upside     *)
(* down it sells, in the same regime and behind the same filter.  Every    *)
(* indicator's buy and sell side must agree for that.  The ensemble's      *)
(* voters have the defaults.  Bollinger bands of a market that does not    *)
(* move are excepted: they buy.                                            *)
SellsAsEasily(candles, ceiling, rsiTunings, scoreTunings) ==
    LET mirrored == Mirror(candles, ceiling)
        score == Score(candles, scoreTunings)
        opposite == Score(mirrored, scoreTunings)
        moved == \/ Len(candles) < BandPeriod
                 \/ Variance(LastOf(Closes(candles), BandPeriod)) > 0
        Voters(c) == <<Rsi(c, <<>>), Macd(c), Bollinger(c)>>
        Quick(bought, sold) ==
            Filtered(bought, candles) = "buy" => Filtered(sold, mirrored) = "sell"
    IN /\ \A params \in rsiTunings :
             RsiFavoursSelling(params) => Quick(Rsi(candles, params), Rsi(mirrored, params))
       /\ Quick(Macd(candles), Macd(mirrored))
       /\ Quick(Breakout(candles), Breakout(mirrored))
       /\ moved => /\ Quick(Bollinger(candles), Bollinger(mirrored))
                   /\ Quick(Ensemble(Voters(candles)), Ensemble(Voters(mirrored)))
       /\ \A params \in scoreTunings, r \in Regimes :
             ScoreFavoursSelling(r, params) => Quick(score[params][r], opposite[params][r])
=============================================================================
