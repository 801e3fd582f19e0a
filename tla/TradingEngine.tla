--------------------------- MODULE TradingEngine ---------------------------
(***************************************************************************)
(* The three threads that trade (runtime/strategy_engine.py) over one paper *)
(* account, with the RiskGuard, the TradeCooldown and the table of last    *)
(* signals:                                                                *)
(*                                                                         *)
(*   strategy  run_strategy, one cycle over all symbols: stops first, then *)
(*             the signal, which buys or sells.  The only thread that buys.*)
(*   monitor   price_monitor_job, one round over all symbols: stops only.  *)
(*   ws        on_price, the callback of the WebSocket: stops only.        *)
(*                                                                         *)
(* The monitor job is paused while the WebSocket is connected, but a round *)
(* already running goes on, so all three overlap.  They share the position *)
(* objects: get_position returns the live object, whose fields another     *)
(* thread may change between two reads.                                    *)
(*                                                                         *)
(* An order holds the broker's lock while it changes the cash, then the    *)
(* coins, then the average price; the other threads read these without the *)
(* lock.  Recording it in the trades table comes after the lock, as one    *)
(* step: PaperBroker has what is saved, and how.  Signals, regimes and     *)
(* confidences are any the strategies can give.  The database may fail     *)
(* when an order is recorded.  Left out: notifications, snapshots,         *)
(* midnight.                                                               *)
(***************************************************************************)
EXTENDS Integers, Sequences, FiniteSets, Functions

CONSTANTS
    Symbols, Quantities, Prices, FeeNum, FeeDen, InitialBalance,
    Strategy, Monitor, Ws,    \* the threads
    EnableMonitor,            \* price_monitor_interval_minutes > 0
    EnableWebsocket,          \* enable_websocket
    MaxPositions,             \* max_positions
    MaxOrder,                 \* max_order_amount_krw
    RiskPct, AbsoluteMax,     \* PositionSizer: percent of the equity, its cap
    DailyLossLimit,           \* daily_loss_limit_krw
    StopLoss, TakeProfit,     \* percent of the average price: -stop_loss_pct, take_profit_pct
    Trailing,                 \* trailing_stop_pct, 0 when off
    Cooldown,                 \* trade_cooldown_seconds
    Hour, MaxOrdersPerHour,   \* the window of max_orders_per_hour
    MaxCycles, MaxTime,       \* bounds: cycles of the strategy, the clock,
    MaxFailures               \* failures of the database

Threads == {Strategy, Monitor, Ws}

ASSUME EngineAssumption ==
    /\ IsFiniteSet(Symbols)
    /\ Symbols # {}
    /\ Quantities \subseteq Nat
    /\ 1 \in Quantities
    /\ Prices \subseteq Nat \ {0}
    /\ FeeNum \in Nat
    /\ FeeDen \in Nat \ {0}
    /\ FeeNum <= FeeDen
    /\ InitialBalance \in Nat
    /\ MaxPositions \in Nat
    /\ MaxOrder \in Nat
    /\ DailyLossLimit \in Nat
    /\ StopLoss \in Nat
    /\ TakeProfit \in Nat
    /\ Trailing \in Nat
    /\ Cooldown \in Nat
    /\ Hour \in Nat
    /\ MaxOrdersPerHour \in Nat
    /\ MaxTime \in Nat
    /\ Cardinality(Threads) = 3
    /\ EnableMonitor \in BOOLEAN
    /\ EnableWebsocket \in BOOLEAN

VARIABLES
    cash, coins,     \* the account: balance_krw and positions[s].quantity
    avg,             \* positions[s].avg_price, 0 for none
    market,          \* what the exchange quotes for each symbol
    highs,           \* RiskGuard._trailing_highs, 0 for no entry
    lastSignal,      \* last_signals
    lastOrder,       \* TradeCooldown._last_order_time
    history,         \* TradeCooldown._order_history: how many entries of each time
    pnl,             \* get_daily_pnl()["realized_pnl"]: of the recorded trades
    job,             \* per thread: where it is, and its local variables
    now, cycles,     \* clock, cycles begun
    failures,        \* how often the database failed
    bought,          \* auxiliary: the buys executed, and when
    pastLimit,       \* auxiliary: buys executed since pnl reached the limit
    unnoted          \* auxiliary: which of the buys the database failed for

account == <<cash, coins, avg>>
cooling == <<lastOrder, history>>
audit == <<bought, pastLimit, unnoted>>
world == <<market, now, cycles, failures>>
vars == <<account, highs, lastSignal, cooling, pnl, job, world, audit>>

Held == {s \in Symbols : coins[s] > 0}

Locations == {"next", "look", "stops", "pop", "capture", "signal", "entry",
              "order", "buy", "exit", "sell", "coins", "average", "book"}
Reasons == {"none", "stop_loss", "take_profit", "trailing_stop", "signal", "buy"}

(* todo: symbols left in the cycle or round; price: of the ticker or the   *)
(* message; avg, qty: what was read of the position, qty also what is to   *)
(* be bought; gain: realised by the order that is about to be recorded.    *)
Idle(todo) ==
    [at |-> "next", todo |-> todo, sym |-> CHOOSE s \in Symbols : TRUE, price |-> 0,
     avg |-> 0, qty |-> 0, why |-> "none", gain |-> 0]

Init ==
    /\ cash = InitialBalance
    /\ coins = [s \in Symbols |-> 0]
    /\ avg = [s \in Symbols |-> 0]
    /\ market \in [Symbols -> Prices]
    /\ highs = [s \in Symbols |-> 0]
    /\ lastSignal = [s \in Symbols |-> "none"]
    /\ lastOrder = [s \in Symbols |-> -Cooldown]
    /\ history = [t \in 0 .. MaxTime |-> 0]
    /\ pnl = 0
    /\ job = [x \in Threads |-> Idle({})]
    /\ now = 0
    /\ cycles = 0
    /\ failures = 0
    /\ bought = <<>>
    /\ pastLimit = 0
    /\ unnoted = {}

(* The exchange moves a price; time passes.                                *)
MarketMoves(s, p) ==
    /\ market[s] # p
    /\ market' = [market EXCEPT ![s] = p]
    /\ UNCHANGED <<account, highs, lastSignal, cooling, pnl, job, now, cycles, failures, audit>>

Tick ==
    /\ now < MaxTime
    /\ now' = now + 1
    /\ UNCHANGED <<account, highs, lastSignal, cooling, pnl, job, market, cycles, failures, audit>>

Go(x, from, to) ==
    /\ job[x].at = from
    /\ job' = [job EXCEPT ![x].at = to]

(* The thread is through with its symbol (continue, return).               *)
Done(x, from) ==
    /\ job[x].at = from
    /\ job' = [job EXCEPT ![x] = Idle(job[x].todo)]

At(x, s) == [job[x] EXCEPT !.sym = s, !.price = market[s], !.todo = @ \ {s}]

----------------------------------------------------------------------------
(* Jobs                                                                    *)

StartCycle ==
    /\ cycles < MaxCycles
    /\ job[Strategy] = Idle({})
    /\ job' = [job EXCEPT ![Strategy].todo = Symbols]
    /\ cycles' = cycles + 1
    /\ UNCHANGED <<account, highs, lastSignal, cooling, pnl, market, now, failures, audit>>

StartRound ==
    /\ EnableMonitor
    /\ job[Monitor] = Idle({})
    /\ job' = [job EXCEPT ![Monitor].todo = Symbols]
    /\ UNCHANGED <<account, highs, lastSignal, cooling, pnl, world, audit>>

(* The strategy takes the ticker and then the position.                    *)
StrategyNext(s) ==
    /\ job[Strategy].at = "next"
    /\ s \in job[Strategy].todo
    /\ job' = [job EXCEPT ![Strategy] = [At(Strategy, s) EXCEPT !.at = "look"]]
    /\ UNCHANGED <<account, highs, lastSignal, cooling, pnl, world, audit>>

(* get_candles or get_ticker raises: strategy_job gives up the cycle.      *)
StrategyFails ==
    /\ job[Strategy].at = "next"
    /\ job[Strategy].todo # {}
    /\ job' = [job EXCEPT ![Strategy] = Idle({})]
    /\ UNCHANGED <<account, highs, lastSignal, cooling, pnl, world, audit>>

(* The monitor asks for a ticker only for a position it sees.              *)
MonitorNext(s) ==
    /\ job[Monitor].at = "next"
    /\ s \in job[Monitor].todo
    /\ job' = [job EXCEPT ![Monitor] =
                 IF s \in Held /\ avg[s] > 0
                 THEN [At(Monitor, s) EXCEPT !.at = "look"]
                 ELSE Idle(job[Monitor].todo \ {s})]
    /\ UNCHANGED <<account, highs, lastSignal, cooling, pnl, world, audit>>

(* get_ticker raises: the monitor goes on to the next symbol.              *)
MonitorSkips(s) ==
    /\ job[Monitor].at = "next"
    /\ s \in job[Monitor].todo \cap Held
    /\ job' = [job EXCEPT ![Monitor] = Idle(@.todo \ {s})]
    /\ UNCHANGED <<account, highs, lastSignal, cooling, pnl, world, audit>>

(* A message about a symbol without a position has no effect.              *)
OnPrice(s) ==
    /\ EnableWebsocket
    /\ s \in Held /\ avg[s] > 0
    /\ job[Ws].at = "next"
    /\ job' = [job EXCEPT ![Ws] = [At(Ws, s) EXCEPT !.at = "look"]]
    /\ UNCHANGED <<account, highs, lastSignal, cooling, pnl, world, audit>>

----------------------------------------------------------------------------
(* Stops: check_stop_loss_take_profit and what follows a trigger           *)

(* The arguments of the check are read, the average price first.  (What is *)
(* sold and bought again in between comes to the same as both read before: *)
(* the quantity is only tested, and read again for the order.)             *)
Look(x) ==
    LET s == job[x].sym IN
    /\ job[x].at = "look"
    /\ job' = [job EXCEPT ![x].at = "stops", ![x].avg = avg[s], ![x].qty = coins[s]]
    /\ UNCHANGED <<account, highs, lastSignal, cooling, pnl, world, audit>>

\* Variant with a bug: a loss of exactly the limit is not one.
LosesMore(price, base, pct) == (base - price) * 100 > pct * base

Loses(price, base, pct) == (base - price) * 100 >= pct * base
Gains(price, base, pct) == (price - base) * 100 >= pct * base

HighAfter(s, price) == IF price > highs[s] THEN price ELSE highs[s]

(* The reason to sell, in the order of the code's tests.                   *)
Trigger(j) ==
    CASE Loses(j.price, j.avg, StopLoss) -> "stop_loss"
      [] ~Loses(j.price, j.avg, StopLoss) /\ Gains(j.price, j.avg, TakeProfit) ->
           "take_profit"
      [] OTHER ->
           IF /\ Trailing > 0
              /\ Loses(j.price, HighAfter(j.sym, j.price), Trailing)
              /\ j.price > j.avg
           THEN "trailing_stop" ELSE "none"

(* Without a trigger a stop thread is done; the strategy goes on to the    *)
(* signal.  The high is kept up to date unless a fixed stop triggers.      *)
Judge(x) ==
    LET j == job[x]
        open == j.qty > 0 /\ j.avg > 0
        why == IF open THEN Trigger(j) ELSE "none"
        after == IF x = Strategy THEN [j EXCEPT !.at = "signal", !.avg = 0, !.qty = 0]
                                 ELSE Idle(j.todo)
    IN
    /\ j.at = "stops"
    /\ job' = [job EXCEPT ![x] =
                 IF why = "none" THEN after
                 ELSE [j EXCEPT !.at = "pop", !.avg = 0, !.why = why]]
    /\ highs' = IF open /\ Trailing > 0 /\ why \notin {"stop_loss", "take_profit"}
                THEN [highs EXCEPT ![j.sym] = HighAfter(j.sym, j.price)]
                ELSE highs
    /\ UNCHANGED <<account, lastSignal, cooling, pnl, world, audit>>

(* The high is dropped before the sell is tried.  The strategy sells the   *)
(* quantity it read at first; the other two read it once more.             *)
PopHigh(x) ==
    /\ Go(x, "pop", IF x = Strategy THEN "sell" ELSE "capture")
    /\ highs' = [highs EXCEPT ![job[x].sym] = 0]
    /\ UNCHANGED <<account, lastSignal, cooling, pnl, world, audit>>

(* ... and compute the profit from the average price they read again: when *)
(* the position has been closed meanwhile that is a division by zero, which*)
(* ends the round of the monitor and the callback.  Between the coins and  *)
(* the average price of the closing order it is not, and 0 coins are sold. *)
Capture(x) ==
    LET s == job[x].sym IN
    /\ job[x].at = "capture"
    /\ job' = [job EXCEPT ![x] =
                 IF avg[s] = 0 THEN Idle({})
                 ELSE [job[x] EXCEPT !.at = "sell", !.qty = coins[s]]]
    /\ UNCHANGED <<account, highs, lastSignal, cooling, pnl, world, audit>>

----------------------------------------------------------------------------
(* Orders                                                                  *)

(* buy_market takes the amount and its commission, sell_market pays out    *)
(* the proceeds less theirs.                                               *)
Cost(qty, price) == (qty * price) * (FeeDen + FeeNum)
Proceeds(qty, price) == (qty * price) * (FeeDen - FeeNum)

\* Variant with a bug: the orders do not exclude each other.
AlwaysFree == TRUE

(* No order is between its first and its last assignment.                  *)
LockIsFree == \A x \in Threads : job[x].at \notin {"coins", "average"}

(* sell_market refuses more than is held.                                  *)
Deliverable(j) == j.qty <= coins[j.sym]

Sell(x) ==
    LET j == job[x] IN
    /\ j.at = "sell"
    /\ LockIsFree
    /\ \/ /\ Deliverable(j)
          /\ cash' = cash + Proceeds(j.qty, j.price)
          /\ job' = [job EXCEPT ![x].at = "coins", ![x].gain =
                       j.qty * (j.price - avg[j.sym]) * FeeDen
                       - j.qty * j.price * FeeNum]
       \/ /\ ~Deliverable(j)
          /\ Done(x, "sell")
          /\ UNCHANGED cash
    /\ UNCHANGED <<coins, avg, highs, lastSignal, cooling, pnl, world, audit>>

(* The quantity follows the cash.  (The object of a first position enters  *)
(* the dict only with its average price: until then every reader passes    *)
(* over it, as it does over one without an average price.)                 *)
MoveCoins(x) ==
    LET j == job[x] IN
    /\ Go(x, "coins", "average")
    /\ coins' = [coins EXCEPT ![j.sym] = IF j.why = "buy" THEN @ + j.qty ELSE @ - j.qty]
    /\ UNCHANGED <<cash, avg, highs, lastSignal, cooling, pnl, world, audit>>

(* The weighted average of two lots lies between them; how near to which,  *)
(* the model leaves open.                                                  *)
Averages(old, held, price) ==
    IF held = 0 THEN {price}
    ELSE {a \in Prices : (old <= a /\ a <= price) \/ (price <= a /\ a <= old)}

\* Variant with a bug: a closed position keeps its average price.
AverageKept(j) ==
    IF j.why = "buy" THEN Averages(avg[j.sym], coins[j.sym] - j.qty, j.price)
                     ELSE {avg[j.sym]}

(* A buy blends its price into the average, a sell that closes the         *)
(* position clears it.                                                     *)
AveragesAfter(j) ==
    IF j.why = "buy" THEN Averages(avg[j.sym], coins[j.sym] - j.qty, j.price)
                     ELSE {IF coins[j.sym] = 0 THEN 0 ELSE avg[j.sym]}

SetAverage(x) ==
    LET j == job[x] IN
    /\ Go(x, "average", "book")
    /\ \E a \in AveragesAfter(j) : avg' = [avg EXCEPT ![j.sym] = a]
    /\ UNCHANGED <<cash, coins, highs, lastSignal, cooling, pnl, world, audit>>

(* save_trade: the order counts in the profit of the day.                  *)
Recorded(gain) ==
    /\ pnl' = pnl + gain
    /\ pastLimit' = IF pnl' > -(DailyLossLimit * FeeDen) THEN 0 ELSE pastLimit

(* The rows are written, and of an order of the strategy's signal          *)
(* run_strategy notes the signal, and for a buy the time.                  *)
Book(x) ==
    LET j == job[x] IN
    /\ Done(x, "book")
    /\ Recorded(j.gain)
    /\ lastSignal' =
         CASE j.why = "buy" -> [lastSignal EXCEPT ![j.sym] = "buy"]
           [] j.why = "signal" -> [lastSignal EXCEPT ![j.sym] = "sell"]
           [] OTHER -> lastSignal
    /\ IF j.why = "buy"
       THEN /\ lastOrder' = [lastOrder EXCEPT ![j.sym] = now]
            /\ history' = [history EXCEPT ![now] = @ + 1]
       ELSE UNCHANGED cooling
    /\ UNCHANGED <<account, highs, world, bought, unnoted>>

(* save_trade or save_positions raises: the order stands, its row may be   *)
(* missing, nothing is noted, and the cycle, round or callback is over.    *)
BookFails(x) ==
    /\ failures < MaxFailures
    /\ failures' = failures + 1
    /\ job[x].at = "book"
    /\ job' = [job EXCEPT ![x] = Idle({})]
    /\ Recorded(job[x].gain) \/ UNCHANGED <<pnl, pastLimit>>
    /\ unnoted' = IF job[x].why = "buy" THEN unnoted \cup {Len(bought)} ELSE unnoted
    /\ UNCHANGED <<account, highs, lastSignal, cooling, market, now, cycles, bought>>

----------------------------------------------------------------------------
(* The signal                                                              *)

(* confident: not stopped by min_confidence or, for a buy, by the weight of*)
(* the market regime.                                                      *)
Signal(action, confident) ==
    LET s == job[Strategy].sym
        repeated == action # "hold" /\ lastSignal[s] = action
    IN
    /\ \/ /\ action = "hold" \/ repeated \/ ~confident
          /\ Done(Strategy, "signal")
       \/ /\ action = "buy" /\ ~repeated /\ confident
          /\ Go(Strategy, "signal", "entry")
       \/ /\ action = "sell" /\ ~repeated /\ confident
          /\ IF s \in Held THEN Go(Strategy, "signal", "exit")
                           ELSE Done(Strategy, "signal")
    /\ lastSignal' = IF action = "hold" THEN [lastSignal EXCEPT ![s] = "none"]
                                        ELSE lastSignal
    /\ UNCHANGED <<account, highs, cooling, pnl, world, audit>>

(* sell_market(symbol, pos.quantity, ...): the quantity is read once more, *)
(* after the test that there is one.                                       *)
Exit ==
    LET s == job[Strategy].sym IN
    /\ job[Strategy].at = "exit"
    /\ job' = [job EXCEPT ![Strategy].at = "sell", ![Strategy].qty = coins[s],
                          ![Strategy].why = "signal"]
    /\ UNCHANGED <<account, highs, lastSignal, cooling, pnl, world, audit>>

\* Variant with a bug: the time of the last order is not looked at.
RestedAlways(s) == TRUE

Rested(s) == now - lastOrder[s] >= Cooldown

LastHour == {t \in 0 .. MaxTime : t > now - Hour}

Pruned == [t \in 0 .. MaxTime |-> IF t \in LastHour THEN history[t] ELSE 0]

\* Variant with a bug: off by one.
RoomForUpTo(s) == s \in Held \/ Cardinality(Held) <= MaxPositions

RoomFor(s) == s \in Held \/ Cardinality(Held) < MaxPositions

LossLimitReached == pnl <= -(DailyLossLimit * FeeDen)

\* Variant with a bug: the loss of today is not looked at.
RiskAllowsAnyLoss(s) == MaxOrder * (FeeDen + FeeNum) <= cash /\ RoomFor(s)

(* check_buy.  The amount it is asked about is the setting                 *)
(* max_order_amount_krw, whatever will be ordered.                         *)
RiskAllows(s) ==
    /\ MaxOrder * (FeeDen + FeeNum) <= cash
    /\ RoomFor(s)
    /\ ~LossLimitReached

\* Variant with a bug: the hourly limit admits one order more.
WithinHourlyLimitUpTo == SumFunctionOnSet(history, LastHour) <= MaxOrdersPerHour

WithinHourlyLimit == SumFunctionOnSet(history, LastHour) < MaxOrdersPerHour

(* can_trade and check_buy.  The reads other threads may come between are  *)
(* taken at one moment: what passes stays so, as they only sell, and only  *)
(* the loss, which is read last, may get worse.                            *)
ConsiderBuy ==
    LET s == job[Strategy].sym IN
    /\ job[Strategy].at = "entry"
    /\ IF Rested(s) /\ WithinHourlyLimit /\ RiskAllows(s)
       THEN Go(Strategy, "entry", "order")
       ELSE Done(Strategy, "entry")
    /\ history' = IF Rested(s) THEN Pruned ELSE history
    /\ UNCHANGED <<account, highs, lastSignal, lastOrder, pnl, world, audit>>

(* PositionSizer.calculate, "percent": of cash and this symbol's position, *)
(* times any confidence.  One coin stands for the minimum order.           *)
Ceiling(s, price) ==
    LET equity == cash + coins[s] * price * FeeDen
        share == (equity * RiskPct) \div 100
    IN  IF share < AbsoluteMax * FeeDen THEN share ELSE AbsoluteMax * FeeDen

SizedOrders(s, price) ==
    {q \in Quantities : q = 1 \/ (q > 0 /\ q * price * FeeDen <= Ceiling(s, price))}

(* Cash and coins are read without the lock: of an order under way the     *)
(* cash may count, and its coins too.                                      *)
Size(q) ==
    LET j == job[Strategy] IN
    /\ j.at = "order"
    /\ q \in SizedOrders(j.sym, j.price)
    /\ job' = [job EXCEPT ![Strategy].at = "buy", ![Strategy].qty = q]
    /\ UNCHANGED <<account, highs, lastSignal, cooling, pnl, world, audit>>

\* Variant with a bug: the check of check_buy is relied on.
AffordableByCheck(q, price) == MaxOrder * FeeDen <= cash

Affordable(q, price) == Cost(q, price) <= cash

Buy ==
    LET j == job[Strategy] IN
    /\ j.at = "buy"
    /\ LockIsFree
    /\ \/ /\ Affordable(j.qty, j.price)
          /\ cash' = cash - Cost(j.qty, j.price)
          /\ job' = [job EXCEPT ![Strategy].at = "coins", ![Strategy].why = "buy",
                                ![Strategy].gain = -(j.qty * j.price * FeeNum)]
          /\ bought' = Append(bought, [sym |-> j.sym, time |-> now])
          /\ pastLimit' = IF LossLimitReached THEN pastLimit + 1 ELSE 0
          /\ UNCHANGED unnoted
       \/ /\ ~Affordable(j.qty, j.price)
          /\ Done(Strategy, "buy")
          /\ UNCHANGED <<cash, audit>>
    /\ UNCHANGED <<coins, avg, highs, lastSignal, cooling, pnl, world>>

----------------------------------------------------------------------------
StopStep(x) ==
    \/ Look(x) \/ Judge(x) \/ PopHigh(x) \/ Capture(x)
    \/ Sell(x) \/ MoveCoins(x) \/ SetAverage(x) \/ Book(x) \/ BookFails(x)

StrategyStep ==
    \/ StartCycle
    \/ \E s \in Symbols : StrategyNext(s)
    \/ StrategyFails
    \/ \E action \in {"buy", "sell", "hold"}, confident \in BOOLEAN :
          Signal(action, confident)
    \/ Exit
    \/ ConsiderBuy
    \/ \E q \in Quantities : Size(q)
    \/ Buy

MonitorStep == StartRound \/ \E s \in Symbols : MonitorNext(s) \/ MonitorSkips(s)

WsStep == \E s \in Symbols : OnPrice(s)

Next ==
    \/ StrategyStep
    \/ MonitorStep
    \/ WsStep
    \/ \E x \in Threads : StopStep(x)
    \/ \E s \in Symbols, p \in Prices : MarketMoves(s, p)
    \/ Tick

Spec == Init /\ [][Next]_vars

(* The scheduler starts the monitor job every minute and lets it finish.   *)
(* A ticker it asks for again and again is not refused for ever, and who   *)
(* holds the broker's lock goes on.  Nothing else is assumed of the        *)
(* strategy and the WebSocket.                                             *)
FairSpec ==
    /\ Spec
    /\ WF_vars(MonitorStep \/ StopStep(Monitor))
    /\ \A x \in Threads : WF_vars(MoveCoins(x) \/ SetAverage(x))
    /\ \A s \in Symbols : SF_vars(MonitorNext(s))

----------------------------------------------------------------------------
(* Properties                                                              *)

Jobs == [at: Locations, todo: SUBSET Symbols, sym: Symbols, price: Nat, avg: Nat,
         qty: Nat, why: Reasons, gain: Int]

TypeOK ==
    /\ cash \in Nat
    /\ coins \in [Symbols -> Nat]
    /\ avg \in [Symbols -> Nat]
    /\ market \in [Symbols -> Prices]
    /\ highs \in [Symbols -> Nat]
    /\ lastSignal \in [Symbols -> {"none", "buy", "sell"}]
    /\ lastOrder \in [Symbols -> Int]
    /\ history \in [0 .. MaxTime -> Nat]
    /\ pnl \in Int
    /\ job \in [Threads -> Jobs]
    /\ now \in 0 .. MaxTime
    /\ cycles \in Nat
    /\ failures \in Nat
    /\ bought \in Seq([sym: Symbols, time: Nat])
    /\ pastLimit \in Nat
    /\ unnoted \subseteq Nat

(* No more symbols are held than max_positions allows, although the count  *)
(* is taken some steps before the order and other threads trade meanwhile. *)
AtMostMaxPositions == Cardinality(Held) <= MaxPositions

(* A position has an average price, and none is left without a position,   *)
(* but for the symbol of the order that is between its two assignments:    *)
(* the stop checks of the others pass over a position whose price is 0.    *)
PricedWhenHeld ==
    \A s \in Symbols :
        \/ s \in Held <=> avg[s] > 0
        \/ \E x \in Threads : job[x].at = "average" /\ job[x].sym = s

(* Once the recorded loss of the day has reached the limit, the one buy    *)
(* already cleared by check_buy may still be placed, and no other.         *)
LossLimitStopsBuying == pastLimit <= 1

(* A buy keeps the next one of its symbol trade_cooldown_seconds away,     *)
(* counting from when the orders are executed, not from when they are      *)
(* noted; only one whose save failed does not, and no earlier one is lost  *)
(* with it.                                                                *)
BuysAreSpaced ==
    \A i \in DOMAIN bought \ unnoted, k \in DOMAIN bought :
        i < k /\ bought[i].sym = bought[k].sym
            => bought[k].time - bought[i].time >= Cooldown

(* A buy is executed when the hour before it has fewer buys than           *)
(* max_orders_per_hour, not counting those whose save failed.              *)
HourlyLimitHolds ==
    \A k \in DOMAIN bought :
        Cardinality({i \in 1 .. k - 1 : /\ i \notin unnoted
                                       /\ bought[k].time - bought[i].time < Hour})
            < MaxOrdersPerHour

(* The account as it is between orders: the cash of an order whose coins   *)
(* have not followed yet does not count.                                   *)
Unsettled == {x \in Threads : job[x].at = "coins"}
SettledCash ==
    IF Unsettled = {} THEN cash
    ELSE LET j == job[CHOOSE x \in Unsettled : TRUE]
         IN  IF j.why = "buy" THEN cash + Cost(j.qty, j.price)
                              ELSE cash - Proceeds(j.qty, j.price)

Account == INSTANCE Ledger WITH cash <- SettledCash, holdings <- coins, epoch <- 0

(* The orders of the three threads take effect one after the other, each   *)
(* whole: the cash and the coins of the same order, with no debt and no    *)
(* more coins delivered than held, although all they were sized by was     *)
(* read without the lock.  (No restart here: the epoch stays.)             *)
ImplementsLedger == Account!LedgerSpec

Underwater(s) == s \in Held /\ market[s] * 100 <= avg[s] * (100 - StopLoss)

(* A position is not held for ever at a price of its stop loss, whatever   *)
(* the other threads do to it meanwhile.                                   *)
StopLossActs == \A s \in Symbols : []<>~Underwater(s)

(* README.md: the most one order may be for.                               *)
OrderWithinLimit == [][cash - cash' <= MaxOrder * (FeeDen + FeeNum)]_vars

(* risk_guard.py:139, reset_trailing: the high is reset when the position  *)
(* is closed.                                                              *)
ClosedPositionHasNoHigh ==
    (\A x \in Threads : job[x].at = "next") =>
        \A s \in Symbols : s \notin Held => highs[s] = 0

=============================================================================
