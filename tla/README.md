# cryptolight: TLA+ models, checks and proofs

cryptolight is a trading bot for Upbit: one Python process that analyses a few
symbols every few minutes, guards open positions with stops, and places orders
either in memory (paper mode) or at the exchange (live mode).  It is small, but
three threads trade in it at once, its account is persisted by code that runs
outside the account's lock, its exchange may answer late or not at all, and it
changes its own strategy while it runs.  These modules model those parts, and
the arithmetic its decisions rest on; TLC checks them on small instances, and
TLAPS proves the main results for every value of the constants.

Paths below are relative to `src/src/cryptolight/` unless they start otherwise.

## 1. The system

### Components

| component | state | operations | what makes it correct |
|---|---|---|---|
| **PaperBroker** `execution/paper_broker.py` | `balance_krw`, dict `positions`, `_lock` | `buy_market`, `sell_market`, load at start | changes by whole orders; never overdrawn; what is in memory is what is logged and saved |
| **TradeRepository** `storage/repository.py` | one SQLite connection, `_lock`; tables trades, positions, paper_state, strategy tables | `save_trade`, `save_positions`, `load_positions`, `get_daily_pnl` | a save is atomic; a restart loads the last state; the replay explains the account |
| **Strategy engine** `runtime/strategy_engine.py` | `last_signals`; local variables across calls | `run_strategy`, `price_monitor_job`, WebSocket callback | no limit on buying is passed because it was checked earlier than it was used; no order sells more than is held; a position has a price for the stops |
| **RiskGuard** `risk/risk_guard.py` | `_trailing_highs`, `_lock` | `check_buy`, `check_stop_loss_take_profit` | limits hold; stops act |
| **TradeCooldown** `risk/cooldown.py` | `_last_order_time`, `_order_history`, `_lock` | `can_trade`, `record_order` | spacing and hourly limit of executed buys |
| **PositionSizer** `risk/position_sizer.py` | configuration | `calculate` | amount within its limits |
| **LiveBroker** `execution/live_broker.py`, **UpbitClient** `exchange/upbit.py` | `_order_lock`; requests in flight | `buy_market`, `sell_market`, `_verify_order`, `_request` | one order per call; what is reported is recorded |
| **PriceStream** `market/price_stream.py` | `_connected`, `_stop_event`, `_ws`, thread | `start`, `stop`, connect loop, callbacks | comes back after a disconnect; the monitor job covers the gap |
| **Runtime** `runtime/orchestrator.py`, `bootstrap.py`, `main.py` | scheduler and its jobs, signal handlers | start-up, jobs, shutdown | one strategy cycle at a time; a signal stops the bot |
| **Commands** `runtime/commanding.py`, `bot/command_handler.py` | kill switch and request flags, update offset | poll, act, reset | `/stop` stops the bot |
| **Self-improvement** `runtime/improvement.py`, `evaluation/*` | globals of main.py: active strategy and its parameters; tables of switches, adjustments and tuned parameters | evaluate, switch, tune, check for rollback | what runs is what was decided last; the parameters are those of the strategy |
| **Strategies and filters** `strategy/*`, `market/regime.py` | none but a few counters | `analyze` | pure functions of the candles; each indicator's two sides agree |
| **Screener, backtest** `market/screener.py`, `backtest/*` | local | one run each | account arithmetic, no look-ahead, window boundaries, no good candidate lost |
| **Cache, snapshots, health, Telegram, assistant, web, reports, settings, logger** | caches and display tables | read and format | nothing in trading depends on them |

### Who runs, and what they share

    main thread      first strategy_job, then BlockingScheduler's loop
    scheduler pool   strategy_job (max_instances=1), price_monitor_job (max_instances=1),
                     daily summary, self-improvement, parameter tuning
    price-stream     WebSocket callbacks: stops on every price tick
    command-poll     Telegram long poll: kill switch, requests
    web-dashboard    reads

The two improvement jobs are two more threads of the pool.  They write the two
globals that every cycle reads, the name of the active strategy and its tuned
parameters, one after the other and without a lock.

The strategy is the only thread that BUYS.  Strategy, monitor and WebSocket
callback all SELL, and all share one broker, one RiskGuard and one repository.
Each of these has a lock of its own, and no lock spans two of them: a decision
made from one is always some steps old when the other acts on it.  While the
WebSocket is connected the monitor job is paused, but a round that is already
running is not stopped.

### What is hard here

* a check and its use in different components: the number of positions, the
  loss of the day and the cooldown are read before the order, the broker checks
  the cash at the order, the cooldown is noted after the order;
* two or three threads closing one position, each from a quantity it read before;
* `save_positions` runs outside the broker's lock, is passed the balance by value
  and the positions by reference, and shares one connection, hence one open
  transaction, with `save_trade`;
* a crash between the order in memory, its row, and the saved account;
* an order request that times out after the exchange has taken it;
* threads that stop, reconnect and shut down in any order;
* a strategy that is switched in one thread while another tunes its parameters;
* requests served one after the other by the thread that must also obey /stop;
* one figure computed twice, by SQL and by a loop, or replayed from rows whose
  order is not the order of the trades;
* decisions of a backtest that must not know the next candle.

`PROJECT.json` lists each hazard at its line with the properties that cover it,
or why none does yet.

## 2. The modules

| module | models | role |
|---|---|---|
| `Ledger` | what a broker promises: an account that changes by whole orders | abstract specification |
| `PaperBroker` | the paper broker called by several threads, its saves, a crash | component |
| `Sums` | | lemmas on sums over finite sets, for the proofs about ledgers and limits |
| `PaperBrokerProofs` | | theorems about PaperBroker |
| `TradingEngine` | strategy, monitor and callback over one account, RiskGuard, cooldown, sizing | composition |
| `TradingEngineProofs` | | theorems about TradingEngine |
| `LiveOrder` | LiveBroker and UpbitClient at an unreliable exchange | component |
| `LiveOrderProofs` | | theorems about LiveOrder |
| `Runtime` | start-up, scheduler, WebSocket thread, command thread, signals, shutdown, restart by systemd | component |
| `RuntimeProofs` | | theorems about Runtime |
| `SelfImprovement` | the weekly review and the tuning job over two globals and three tables | component |
| `Commands` | the thread that polls Telegram and serves requests; EXTENDS SelfImprovement, whose state decides which requests raise | composition |
| `MCSelfImprovement` | the strategies' parameters | for TLC |
| `SelfImprovementProofs` | | theorems about SelfImprovement and Commands |
| `Evaluation` | profit of a day, record of a strategy, from the trades table | algorithm |
| `Optimizer` | choice among random trials | algorithm |
| `Decisions` | strategies, ensemble, score, volume filter | algorithm |
| `Backtest` | the backtest's account and the walk-forward windows; EXTENDS Decisions | algorithm |
| `Screening` | choice of the symbols to trade | algorithm |
| `BacktestProofs` | | theorems about the walk-forward windows and the backtest, lemmas on folds |
| `AlgorithmProofs` | | theorems about the optimizer, the choice of symbols and the trades table, and about MCAlgorithms |
| `MCAlgorithms` | inputs for the five algorithms | for TLC |

`PaperBroker` and `TradingEngine` both implement `Ledger`.  The first is the
broker seen from inside, with its saves and restarts; the second has an order as
three assignments under the broker's lock, cash, coins and average price, which the
other threads read without it, records it in one step, and looks at the code
around it.

### Ledger

`cash` and `holdings`; `BuyOrder` pays `Cost` (amount and commission),
`SellOrder` returns `Proceeds`.  `Reload` is a restart: it may put back any account
without debts, but it counts `epoch` up.  Both implementations map `epoch` to their
restarts, `PaperBroker` to `restarts` and `TradingEngine`, which has none, to 0.  So
a step that is not a restart and changes cash or holdings must be exactly one order,
with its price and quantity, paid or delivered from what is there; half an order, or
two at once, is no step of the ledger.  What a restart puts back is the subject of
PaperBroker's other properties.  Money is counted in 1/FeeDen of a unit, so the
commission FeeNum/FeeDen is a whole number and no rounding is hidden.  (The code
computes in floats; their rounding is out of scope.)

### PaperBroker

One action per stretch of code between two points where another thread can
get in: `Check` (take `_lock`, test cash or quantity), `MoveMoney`, `MoveCoins`
(which releases the lock), `SaveTrade` (INSERT and COMMIT),
`EvaluateArguments` (the balance handed to `save_positions`), `SaveBegin`
(DELETE), `SaveRow` for each symbol of the live dict, `SaveCommit`; `SaveAbort`
is the iterator's RuntimeError when the dict has grown meanwhile.  `conn` is the
database as the connection sees it, `disk` what is committed: after an abort
the open transaction stays, and the next commit, whoever's, makes it durable.
`Restart` loses memory and loads `disk`.  `keys` is the set of symbols in the
dict: a closed position stays in it with quantity 0.

A sell may ask for 0 coins: `run_strategy` and the stop threads read the
quantity again just before the call, and another thread may have closed the
position.  The broker executes and records it.

### TradingEngine

`job[x]` is the program counter and the local variables of thread x.  The
strategy's cycle: `StartCycle`, `StrategyNext` per symbol, `Look`/`Judge` (stops
first), `Signal`, `Exit` or `ConsiderBuy` (cooldown, `check_buy`), `Size`, `Buy`, `Book`;
`StrategyFails` is an exception that ends the cycle.  Monitor (`StartRound`,
`MonitorNext`, `MonitorSkips`) and callback (`OnPrice`) share `Look`, `Judge`,
`PopHigh`, `Capture`, `Sell`, `Book`, `BookFails` with it.  An order, `Buy` or `Sell`, takes the
broker's lock (`LockIsFree`) and moves the cash; `MoveCoins` changes the quantity,
`SetAverage` the average price and releases the lock.  Prices move at any moment; `now`
is the cooldown's clock.  `bought`, `unnoted` and `pastLimit` are history variables that
only properties read.

Choices that a reader should know:

* Between `MoveCoins` and `SetAverage` of a sell that closes a position the others see
  a price without coins, between those of a first buy coins without a price (in the
  code the new object is not in the dict yet: both are passed over).  In the first
  case the monitor's second read does not divide by zero, and it sells 0 coins.
* A buy that adds to a position is seen with its new quantity and the old price for
  one step.  `total_cost` is not modelled: it is saved and loaded, and nothing else reads it.
* `ConsiderBuy` reads cash, positions and loss at one moment.  In the code they
  are separate reads, but other threads only sell meanwhile, which makes each
  of these reads more permissive and never takes back a "yes" the model gives,
  except the loss of the day, which `Book` of a sale may still move between the
  check and the order: that is modelled, as the order is a later step.
* The profit of a sale is computed when it is executed and added to `pnl` when
  it is booked.  The code replays the trades table; when two orders are recorded
  in another order than executed the replay differs (a listed hazard).
* Averages of two lots are left open between the two prices.
* `Book` merges `save_trade` with what `run_strategy` notes afterwards; only the
  strategy reads those notes.
* `BookFails` is a `save_trade` or `save_positions` that raises after the order was
  executed: the order stands, its row may be missing, neither the signal nor the time
  of the buy is noted, and the exception ends the cycle, the round or the callback.
  `unnoted` remembers those buys.  The spacing and the hourly limit hold for the
  others only: after a failed save the next cycle may buy the symbol at once.  A
  loss whose row is missing does not count towards the daily limit either
  (`pnl` is the profit of the recorded trades).
* Snapshots, notifications and the change of day are left out.

### LiveOrder

`request[i][a]` is the fate of the a-th attempt of call i: unsent, sent,
refused, or an order that waits, is done, or cancelled.  An attempt stays `sent`
for as long as the exchange likes, also after the client gave up on it
(`TryAgain`, `Raises`), after the call returned, and after a crash.
`_verify_order` is `LooksUp` and `Unconfirmed`; then `SeenCancelled`, or `save_trade`:
the INSERT (`Inserts`, `InsertFails`), the COMMIT of everything the connection has
written (`Commits`), and the return to the caller (`Reports`) are steps of their own.
A COMMIT that raises (`CommitFails`) leaves the row in the open transaction, where
`OthersCommit`, another user of the repository, may make it durable although the
caller got None, or SQLite has rolled it back.  `trades` is what the connection
sees, of which the first `durable` rows are committed; a crash keeps those.  Callers are left open: any thread may call at any
time, which covers whatever the jobs do.

The account queries are not modelled.  At this commit
`LiveBroker.get_positions` and `get_balance_krw` read `b.balance`, while
`Balance` (`exchange/base.py:7`) has `total`, `available` and `locked`; the
AttributeError is caught and the answers are `{}` and 0.0.  In live mode
`check_buy` therefore refuses every buy and no position is ever seen.  The
order path is modelled as its interface allows it to be called.

### Runtime

Who runs when, over several lives of the process.  `main` is the main thread
from `Boot` to `Exit`: flush of old commands, initial kill switch, services,
signal handlers, the first strategy cycle, scheduler, cleanup.  `scheduler` is
APScheduler's state (`shutdown` raises unless it is running; `pause_job` and
`resume_job` find a job before start, and none after shutdown).  `stream` is the
WebSocket thread in its reconnect loop and callbacks: `Connects`, `PauseMonitor`,
`Tick`, `Closes`, `ResumeMonitor`, `Retry`.  `cmd` is the command thread;
`last`, `sent` and `confirmed` are Telegram's update numbers on both sides, which
decide whether a /stop is seen, skipped or delivered again.  A `Signal` acts in
the main thread wherever it is: before the handlers are installed it ends the
process (`SignalKills`), during the first cycle the exception it causes is
swallowed, in the scheduler's loop it stops the scheduler, during the cleanup it
may cut the cleanup short.  `Crash` is SIGKILL or a power cut.

`OneCycleAtATime` is what `TradingEngine` rests on when it has one thread that
buys.  That the monitor job is paused while the stream is connected does not
stop a round that is already running (tasks/lessons.md:18 says the two paths are
designed not to order at the same time); `trading_exits` therefore has both at once.

/stop ends the process, and systemd starts it again (`Restart=always`,
src/deploy/systemd/cryptolight.service): `Flush` then skips the old /stop, and
the bot trades again.  README.md:276 of the repository calls /stop an emergency
stop of trading; with this deployment it is a restart.

### SelfImprovement and Commands

`name` and `params` are the globals of main.py; `stored`, `adjusted` and
`switched` are the tables `strategy_parameter_state`, `parameter_adjustments` and
`strategy_switches`, of which only the latest row of each strategy, or of all,
is ever read.  `review` and `tuning` are where the two jobs are and what they
hold in local variables: the review reads the name (`StartReview`), lets the arena
compete (`KeepStrategy`, `Switch`), records, sets the name (`SetName`), reads the
tuned parameters (`LoadParameters`), sets them (`AssignParameters`) and looks at
the last switch (`EndReview`); the tuning job builds the strategy twice
(`StartTuning`, `Baseline`), stores the differences in one transaction (`Apply`),
and asks whether its strategy is still the active one (`StillActive`) before it
sets the parameters (`Adopt`).  The read of the parameters before an assignment may
raise in both (`LoadFails`, `AdoptFails`): the job logs it and ends, with the new name
and the old parameters, or with new parameters in the table and the old ones in
memory.  A dict of parameters is a function on the names it
has; `Builds` is whether a constructor takes them, `Restart` what is left of all
that by a new process.  The scheduler runs one instance of each job; which
strategy the arena ranks first and which parameters the optimizer finds is open.

`Commands` adds `inbox`, the `flags`, the questions `asked`, the loop's place and
the assistant's `usage`.  A poll that fails may have handled some of the updates.
The requests that build the active strategy raise when its parameters do not
fit; `loop` then goes back to the poll with the flag still set.  A cycle of the
strategy reads the same globals and writes none: `Builds(name)` in
`ParametersAreCurrent` is what it needs.

`forgot`, `raced` and `missed` are history variables: a restart after the latest
switch; that one of the jobs wrote or read the parameters while the other was between
its decision and its assignment; that the latest read of what was to be assigned
failed.  What reading the code for them shows:

* The race is real.  The review reads `stored` for the new strategy, or the
  tuning job finds its strategy still active, and the other job writes before the
  assignment: the bot then runs one strategy with the parameters of another, or
  cannot build it at all, until the next switch or restart.  main.py:96 calls the
  variable "auto-tuned parameters of the active strategy".
* A failed read has the same effect without a race, and needs no second job:
  a read that raises at improvement.py:67 or :200 is swallowed (92-93, 268-269) and
  leaves the old parameters in memory, with both jobs at rest.  `ParametersAreCurrent`
  says that a race and a failed read are the only ways in the model.  Writes that raise are in it
  only as far as they end a job without effect (`ReviewFails`, `TuningEnds`); a
  COMMIT that raises and becomes durable later, as in LiveOrder, is not.
* A rollback is a message.  README.md of the repository and docs/strategy.md:83
  speak of going back to the previous strategy; `check_rollback` returns a
  proposal and the job sends it.
* The review is weekly and a rollback is considered for three days after a
  switch: the only review that ever sees a switch recent enough is the one that
  made it, unless the job is run at other times.
* A switch does not survive a restart, its cooldown does.
* A tuning job whose strategy was switched away before its second build compares
  the candidates with the defaults instead of the tuned parameters, and stores the
  differences to those.  So does one that builds while the parameters in memory are not
  the table's (both excluded by `tuning.current` in `StoredIsWhatWasEvaluated`).
* The thresholds of the score are tuned, but the strategy does not report them among its
  parameters, so they always count as changed.
* Failed answers of the assistant are not counted against the daily limit.

### Evaluation, Optimizer, Decisions, Backtest, Screening

Pure operators on the inputs of the functions they are named for, in exact
arithmetic: money is counted in units in which every division of the checked
inputs is exact, an average price is a quantity and its cost, a quotient is
compared by cross-multiplying and a root by squaring.  The floating-point
rounding of the code is out of scope, except where it is asked for: `RoundTo3` is
the optimizer's `round(sharpe, 3)`, `TrainSizes` admits that `int(total * 0.7)` may
fall one short (90 * 0.7 is 62.99...).

* `Evaluation`: the trades table is a sequence in the order of ids, and what a query
  selects is a set of ids.  `DailyPnl` replays all rows up to a day; `Aggregates` and
  `SellPairs` are the queries behind /strategies, `Evaluate` is the loop behind
  the rollback check.  Rows are recorded in the order of their days.  Sharpe ratio and drawdown are left out: quotients of
  `DailyReturns`.
* `Optimizer`: the outcome of each trial is an input.
* `Decisions`: the action of every strategy, for the parameters it was made with
  (`Given`): the limits of RSI and score and the two thresholds of the score, which
  override those of every regime.  The market's regime is an input; so `Score`
  gives one action per regime and tuning.
* `Backtest`: runs `Breakout` (required_candle_count 2), the strategy whose decisions
  change with every candle; the account does not depend on which strategy decides.
* `Screening`: results of backtests and correlations are inputs.  The sort by
  turnover is stable (`Before`); a candidate may be left out only for one that was
  selected, has no less turnover and moves with it, or because the list is full.

What reading them for the properties showed, none of it contradicted by a
document that says otherwise in so many words:

* `PerformanceEvaluator` counts what an open position cost as a loss, until it is
  sold; its drawdown is 0 for a strategy that was never in profit.  Stops are recorded
  without a strategy's name, so no strategy's record has them.
* A market that does not move has an RSI of 100, so RSI and score sell; Bollinger
  bands are one line, and the close is "at or below the lower band": buy.
* With the weights of `REGIME_WEIGHTS`, the MACD alone reaches the buy
  threshold in a trending market (37.5 of 100.5 points), RSI alone in a sideways one
  (42 of 99.5), and a Bollinger band alone sells in a sideways one (30 of 99.5), while
  the head of score_based.py speaks of several indicators at once.
* `get_top_volume_symbols` reads the tickers of the first 100 markets only, in
  the order the exchange lists them, before it ranks by turnover.
* The candles of the tuning job end at 200: a strategy that needs more than 20
  never gets a fold of 3 tests.  A fold exactly as long as the strategy requires
  makes no trade.
* `PositionSizer` bets at least 5,000 KRW, also when kelly says not to bet
  (position_sizer.py:65) and when the cap is lower.

## 3. What TLC checks

| run | instance | distinct states | shows |
|---|---|---|---|
| `paper_broker` | 2 threads, 2 symbols, 4 calls, 1 crash | 213,634 | see below |
| `trading_exits` | 1 symbol, 3 threads, prices 1, 2 and 4, 2 cycles, 1 failure of the database | 593,775 | one position closed by all three threads; liveness of the stop loss |
| `trading_entries` | 2 symbols, strategy and callback, 3 cycles, clock 0..1, 1 failure of the database | 2,825,464 | limits on buying |
| `live_order` | 2 threads, 2 calls, 2 attempts, 1 look-up, 1 crash | 485,803 | live orders |
| `runtime` | 2 starts, 2 /stop commands, 2 signals per life | 122,564 | who runs when |
| `self_improvement` | 2 strategies with a parameter each, 1 tunable, 2 values, 3 ticks, restarts or messages of 5 kinds | 458,446 | what runs is what was decided; requests and /stop next to a strategy that cannot be built |
| `algorithms` | all inputs up to 4 rows, 4 trials, 6 candles, 60 days or 5 markets | 461,262 | arithmetic of the decisions |

Properties, each with what would break it:

* `Solvent`: neither cash nor holdings go negative, in memory or on disk.
* `ImplementsLedger` (both modules): orders of different threads take effect one after
  the other; between restarts every change of cash and coins is exactly one order.
  The cash of an order counts from when its coins follow (`SettledCash`).  It would
  break if two orders were under way at once, or an order changed less or more than
  its own cash and coins.
* `SavedPositionsAreCurrent`: once all calls have returned the saved positions
  are those in memory, although every save iterates over a dict that others change.
* `LogExplainsAccount`: the trades table adds up to the account.
* `RestartKeepsSettledSymbols`: a crash while only sells are in progress costs
  no symbol that is not being sold.  (With a first buy in progress it may: the
  restriction is in the property, and the comment there says how.)
* `PricedWhenHeld`: quantity and average price are zero together, but for the symbol of
  the order between the two assignments; the stops skip a position without a price.
* `AtMostMaxPositions`, `LossLimitStopsBuying`, `BuysAreSpaced`,
  `HourlyLimitHolds`: limits of executed orders, not of checks.  The loss limit
  admits the one buy that was cleared before the loss was booked, and no more.
* `StopLossActs`: a position is not held for ever at or below its stop loss.
* `RowsAreOrders`: a row is of an order that the exchange accepted, one per call.  (It
  may have been cancelled since: a look-up that is not answered in time misses that.)
* `ReportedIsRecorded`: an order the caller was told of is committed, for ever.  Of a
  call that got None nothing is claimed: its order may exist, and so may its row.
* `ExposureIsBounded`: what one call may cost at worst, duplicates included: the
  requests it has sent, however late they are accepted.  There is room in the model
  for one request more than may be sent.
* `LockComesBack`: `_order_lock` is always released again.
* `Guarded`: while the scheduler runs, the monitor job is paused only while the
  stream is connected or is about to resume it.
* `OneCycleAtATime`: the first strategy cycle and the scheduler's never overlap.
* `StopEndsTheProcess`: a /stop sent while the bot works ends the process, although
  the scheduler may not have started yet when it is seen.
* `StreamComesBack`: a stream that is not connected connects again.
* `SwitchIsInForce`: the last switch recorded is the one in force, and a proposal to
  roll back leads from it to what it replaced, until a restart.
* `ParametersAreCurrent`: the parameters in memory are those stored for the active
  strategy, which takes them, outside of the steps of a switch or an adoption, unless the
  jobs raced or the latest read failed.
* `CooldownsHold`: two switches, and two adjustments of a strategy, are their
  cooldown apart, through restarts, which leave only the tables.
* `StoredIsWhatWasEvaluated`: defaults and stored differences together are the
  candidate that passed.
* `RequestsAreServed`: a report or a status is served whatever else is asked, unless
  /stop comes first; a request that builds the strategy, or a question behind it, is
  starved for good only if the strategy cannot be built from some point on.
  `StopIsObeyed`: /stop is obeyed even then.
* `DailyProfitsAddUp`: the profits of all days, each replayed on its own, are what
  the account gained.  `OrderOfRowsIsFree`: rows may be swapped without changing any
  day's profit, unless a buy and a sell of one symbol are; this is what the
  order of ids, given outside the broker's lock, can do to the loss limit.
* `StrategyRecordsAgree`: SQL and Python count the same trades, wins and profit.
* `ChosenIsNearlyBest`: rounding the best Sharpe ratio loses less than one step of
  the rounding, however many trials follow.
* `BacktestSeesNoFuture`: what a backtest did does not change when candles follow.
  `BacktestPaysForTrades`: an order only costs, by commission and by price.
* `WalkForwardIsSound`: windows follow one another without gap or overlap, and are
  missing only when they would be too short.
* `QuickerToSell`: for parameters whose selling side asks for no more than the buying
  side (the defaults; the tuning job samples each parameter on its own, and may choose
  others), a strategy that buys sells on the same prices upside down; so the two
  sides of each indicator and of the score agree.  Of other tunings it says nothing.
* `ScreeningIsSound`: what is held stays on the list, no two symbols selected move
  together, and no candidate is left out without a reason.

Runs that show where documentation and code part (`expect: violation`):

* `paper_stale_balance`: two saves commit in the opposite order of their orders;
  the positions are right, the saved balance stays the older one.
* `trading_stale_high`: `reset_trailing` is never called; a position closed by a
  sell signal leaves its trailing high to the next one.
* `trading_order_limit`: `check_buy` is asked about the limit itself; the order
  is sized by the equity and may exceed `max_order_amount_krw`.
* `live_duplicate_order`: POST /orders is retried like any request.
* `runtime_signal`: SIGTERM during the first strategy cycle is swallowed, and the
  scheduler is started after it.

### Bounds

Every bound is a constant that starts with `Max` or a small set in the cfg.
Two threads and two symbols are the smallest instance in which one thread's
save overlaps another's order of another symbol; four calls leave room for two
overlapping pairs; one crash suffices because `Restart` leaves nothing behind
but `disk`.  Prices 1..4 with the stops of the cfgs reach a stop loss, a take
profit and a trailing stop.  Three cycles are the fewest in which a symbol is
bought twice (a repeated signal is skipped until a hold or a sell lies between), and in
which two buys can follow a loss; with one order per unit of the clock and a cooldown of two
units each limit on its own would admit what the other forbids; that a symbol is
bought again after its cooldown is beyond this clock, and the spacing is proved for
every clock.  One failure of the database is enough for a buy that nothing
keeps from being repeated next to one that is noted.  Two buys fit the
initial balance of `PaperBroker.cfg` and a third does not, so that a check of
cash that is not repeated under the lock would be seen.  Two attempts and one
look-up are the smallest numbers at which "retry" and "not confirmed yet"
happen; the properties of LiveOrder are proved for every value.  Three events of `self_improvement` are a day and a half, two
restarts and a message, or three messages: a report behind or before a request that
raises, and a /stop behind both; with a cooldown of a day this has a second switch, a
second adjustment and a third refused.  Only the strategy of the settings is tunable
there; the proofs have any.  Two strategies that take different parameters suffice for one to be built with those of
the other.  Four rows of two symbols on two days have a buy, a partial sell, another
buy and the rest sold, in every order and on every side of midnight; four trials
have a best that is rounded down, one that replaces it, and one better than both;
six candles are more than every (shortened) indicator period and have two
crossings; totals to 60, required 1..10 and 2..5 folds have every remainder; five
markets are one more than are asked for, and three more than may be selected.

### Fairness

`TradingEngine!FairSpec`: the scheduler starts the monitor job every minute and
runs it to completion (WF of the monitor), a ticker asked for again and again is not
refused for ever (SF of `MonitorNext`), and who holds the broker's lock goes on to its
next assignment (WF of `MoveCoins` and `SetAverage`), as the stretch under the lock
waits for nothing.  Of strategy, market and WebSocket
nothing is assumed.  While the WebSocket is connected the monitor job is paused
and the exchange's ticks take its place; `StopLossActs` is about the time when it
is not, which `Guarded` in Runtime delimits, and lets a callback trade all the same.
`Runtime!FairSpec`: threads go on and jobs end, since every wait in them has a
time-out (WF); a poll of Telegram and a handshake with the exchange do not fail
for ever (SF).  Nothing is assumed of commands, signals, crashes, ticks and of
the start of jobs.
`LiveOrder!FairSpec`: a thread in the broker goes on, as every request has a
timeout of 10 s and every wait is finite.  Of the exchange nothing is assumed.
`Commands!FairSpec`: the loop goes on (WF of `LoopStep`), Telegram does not fail for
ever (SF of `PollAll`), and a review that has begun to switch completes it or
fails at its read, `LoadFails` included, which is three plain statements (WF).  Nothing is assumed of the rest of the jobs, of
messages, of the clock and of restarts.  The algorithms have none.

## 4. What is proved

Of the safety properties that the runs check all are theorems but one of
`MCAlgorithms`, `QuickerToSell`; `OrderOfRowsIsFree` is one under a condition on the
average prices.  Most theorems are of the form `Spec => []P` or `Spec => [][A]_v`,
from the named assumptions on the constants alone (`PaperAssumption`,
`NoOrderAssumption`, `EngineAssumption` and the like, evaluated by TLC in every run);
those on an algorithm say of its operator what the run's invariant says, for
inputs of every length.

**PaperBroker** (`TypeCorrect`, `NeverOverdrawn`, `BrokerIsALedger`,
`PositionsAreSaved`, `CrashKeepsSettledSymbols`, `TheLogExplains`).  `Solvent` is not
inductive: that a buy in progress can be paid must be remembered between
`Check` and `MoveMoney`, and that a sell can be delivered between `Check` and
`MoveCoins`.  `CheckedStillHolds` says so for the holder of the lock, `LockHeld`
that only the holder is between the two, `InsideHasOrder` that a thread inside
has an order, `NothingNegative` includes the balances a save has evaluated and
the tables.  The refinement maps `cash` to the cash without the half-done order
of the lock's holder (`SettledCash`): `MoveMoney` is a stutter, `MoveCoins` the
ledger's step.

The trade log and the saved positions have invariants of their own on top of it.
`SavedPositionsAreCurrent` (theorem `PositionsAreSaved`) and
`RestartKeepsSettledSymbols` (`CrashKeepsSettledSymbols`) follow from `SavedInv`: a
symbol whose committed row is not the one in memory (`DiskCurrent`) has a call that
is still to save it (`WillBeSaved`) or whose iteration is under way (`IsBeingSaved`);
the same for the connection's rows but those the cursor has still to write
(`ConnCurrent`).  An iteration that will raise, because a buy has put a symbol into
the dict, is no loss, as that buy has itself still to save and waits for the lock
(`CursorInv`); a sell adds no symbol (`SoldIsKnown`).  `LogExplainsAccount`
(`TheLogExplains`) follows from `LogInv`: at every moment what the account has paid
is what the rows of the log say plus what the calls have moved and not yet
recorded (`PaidUnlogged`, `GainedUnlogged`), as sums over the log and over the threads.

**TradingEngine** (`TypeCorrect`, `PositionsAreLimited`, `PositionsArePriced`,
`LossLimitHolds`, `CooldownHolds`, `HourlyLimitIsKept`, `EngineKeepsALedger`).  One thread
at a time is between its assignments (`LockIsExclusive`), and its order fits the
account (`OrdersFit`: the coins to be sold are there, those bought have come, and what
a sell leaves has a price); that is what keeps `PricedWhenHeld` when the next order
begins.  `ImplementsLedger` maps the cash as in PaperBroker (`SettledCash`): `Buy` and
`Sell` are stutters, `MoveCoins` is the ledger's step, `SetAverage` and all else
stutter; no step needs `Reload`, as the epoch stays 0.  The invariant remembers what a
cleared buy still has (`ClearedStillHolds`: room for one more position until its coins
have come;
`PastLimitCounts`: no buy past the limit yet; `BuysAreNoted`: every executed buy
but those the database failed for is noted, or is the last one and about to be, so
the next one was compared with it).  That other
threads only sell is what keeps them true.  `HourlyLimitHolds` (`HourlyLimitIsKept`)
needs that of every part of the last hour `history` has as many entries as there were
executed buys, but for the one being booked and those the database failed for
(`HistoryCounts`; an entry is never older than its buy, so pruning is harmless), and
that a cleared buy still finds room (`ClearedWithinHour`).

**LiveOrder** (`TypeCorrect`, `RowsAreRealOrders`, `ReportsAreRecords`,
`ExposureBounded`).  `Mine` ties a thread's call id to the calls made, `Apart` says
two threads never have the same one, `Fresh` that ids not yet given are untouched,
`Confirmed` that an answered attempt is an order, `Capped` that no call above the
cap gets past the check, `NoneTooMany` that the slot for one request too many stays
empty.  `Holding`: a call has the order lock while its row is inserted and not
committed, so no other call's failed COMMIT takes the row back before its own;
`ReportedIsRecorded` is then inductive with what `Mine` says of a call inside
`save_trade`.

**Runtime** (`TypeCorrect`, `PositionsAreGuarded`, `CyclesDoNotOverlap`).  `Guarded`
needs that the scheduler runs only while the main thread is in its loop
(`RunsInItsLoop`), that until `stop()` the flag `_connected` follows the stream's
location (`FlagFollowsStream`), and that a paused monitor has a stream that is
open or resuming (`PausedByStream`), which is void once the flag has been taken
away or the scheduler has stopped: after that a pause may outlive its connection.

**SelfImprovement**, in the composition with `Commands` (`TypeCorrect`,
`SwitchStaysInForce`, `ParametersStayCurrent`, `CooldownsAreKept`,
`EvaluatedIsStored`, `LoopTypeCorrect`).  The command loop changes nothing the jobs look at: its steps
are one case, `Elsewhere`.  `SwitchLeadsOn` follows the review from the arena's choice
to the assignment of the name, `LatestInForce` says that the latest row of
`strategy_switches` names the strategy in force unless a restart forgot it.  The
tuning job tests its cooldown when it starts and stores two steps later;
`StillRested` says that nothing in between can make the test false.
`ParametersFollow` needs to know that a job about to set the parameters is alone
or the race is noted (`RacesAreNoted`), and says that what it is about to set is right
even after a read that failed, so that the next read which succeeds mends it; and `BaseIsStored` that what the trials
were compared with is what the table has; `DifferencesSuffice` is the lemma on
dicts that makes storing the differences enough.  The loop's own types
(`LoopTypes`) need that the questions asked and those still in the inbox are together
no more than the events sent.

**Backtest** (`WindowsAreSound`): the operator `FoldsAreSound` for any number of
candles, requirement, number of folds and ratio (`BacktestAssumption`), where the run
has a few.  `TestSize` is a quotient; that its remainder is less than the number of
folds bounds the candles left over, and that a quotient below the requirement
means too few candles explains the missing windows.

**The algorithms on inputs of any length** (`BacktestProofs`, `AlgorithmProofs`).  An
algorithm folds a sequence, and the fold of the library is a recursive function on
sets of positions.  `FoldExists` shows once that such a function exists for every step
function; `OptimizeSteps`, `RunSteps`, `SelectedSteps`, `ListedSteps`, `FilterSteps` and
`ReportUnrolls` unfold one algorithm each and give the values after 0, 1, 2, ...
items.  An invariant along these values is proved by its shortest counterexample
(`AlongPrefixes`, `PrefixInduction`, `LeastNumber`), because the library's induction
theorems cannot be instantiated.

* `SearchFindsTheBest`: `BestSoFar` says that the trial in hand is valid, that its
  rounded ratio is what it is compared by, and that no valid trial has a greater
  rounded ratio; `Rounding` and `RoundTwice` (monotone, idempotent, off by at most half
  a step) turn that into less than one step.  It assumes Sharpe ratios above
  `NoSharpe` = -999, the value the search starts from.
* `NoCandleIsSeenEarly`: `RunOfOneMore` says that a run over one candle more is the
  run without it and one step, because every window the earlier steps look at is the
  same (`FrontOfCandles`); a step appends to the curve.
* `OrdersOnlyCost`: the last point of the curve is cash plus coins at the last
  close (`StepIsMarked`); a buy pays a commission and gets coins worth at most the
  amount, a sell gets less than the coins are worth (`TradeOnlyCosts`).  `Books` has
  what keeps the account in order: sells follow buys, and cash is never negative.
  It assumes an order large enough for a commission (`BacktestAssumption`) and closes
  of at least `ImpactDen`, so that the slippage of a sell does not round to nothing.
* `SelectionIsSound`: `RankedIsSorted` shows that the ranking lists every candidate
  once, by falling turnover: of two ids one is ahead of the other, so the numbers of
  those ahead of each are 0, 1, 2, ... without a gap (`PlacesAreTaken`).  The filter
  keeps the order (`FilterKeepsOrder`); `SelectedSoFar` and `ListedSoFar` are the
  invariants of the greedy choice and of adding what is held.  It assumes that the
  markets, and the configured symbols, have no symbol twice, and that no symbol is
  listed as correlated with itself.
* `RecordsOfAStrategyAgree`: the sum over the trades is the sum over their days
  (`DaysSumToTotal`, with `SumByParts`), and a win of the evaluator has a pair that SQL
  counts (`WinsArePairs`): the last earlier buy of the strategy is among the trades of
  the period when any earlier buy is, because rows are in the order of their days.
* `DailyProfitsOfATable`: every day's replay finds the positions that all later
  replays find (`PositionsRead`), so the gain of a sell, `MarginOf`, is the same in
  whichever replay it is reported, and each day reports the sum over its own rows
  (`ReportIsSum`).  `CostIsPaid`: what the positions have cost is what was bought less
  what of it was sold.  `ClosedCostNothing`: when no more is sold than was bought, a
  position has the quantity bought less the quantity sold, and costs nothing when that
  is 0, because the last sell takes the whole cost (`DivOfProduct`).  Nothing is assumed
  of remainders: what a division cuts off is in the cost that is left.
* `OrderOfATable`: one replay after another of two rows is the same in either order
  (`RowsInEitherOrder`), and the rest of the table is read from the same report.  Two
  sells of one position need its average price without a remainder (`WholeAverages`):
  with one, the first sell of the two rounds, and a unit of money may go to the other.
  In the code the average is a float; all inputs of the run fulfil the condition,
  by the choice of `Unit`.

`ChosenStaysBest`, `BacktestStaysBlind`, `BacktestKeepsPaying`, `WindowsStaySound`,
`ScreeningStaysSound`, `RecordsKeepAgreeing`, `ProfitsKeepAddingUp` and `OrderStaysFree`
carry these over to the specification that the run checks, without the bound on the
length, by the invariants `Inputs`, `MarketsListed` and `TradesRecorded` of what it
feeds them.

Only model-checked:

* the liveness properties (`StopLossActs`, `LockComesBack`, `StopEndsTheProcess`,
  `StreamComesBack`, `RequestsAreServed`, `StopIsObeyed`), which rest on fairness;
* `QuickerToSell`: it is about averages whose divisions are exact only up to the
  lengths that `Scale` was chosen for.

## 5. Plan

1. PaperBroker, Ledger (done): the account is the ground everything stands on.
2. TradingEngine (done): the code that decides.
3. LiveOrder (done): the order path to the exchange.
4. Runtime (done): PriceStream, scheduler, commands and shutdown in one module,
   as they are one protocol: who runs when.
5. SelfImprovement and Commands (done): switch, tuning and rollback over the tables,
   with the thread that serves requests.
6. Evaluation, Optimizer, Decisions, Backtest, Screening (done): the arithmetic of the
   decisions.
7. Proofs: the walk-forward windows for every size, the saved positions and the trade
   log of the paper broker, the hourly limit, the algorithms on inputs of every
   length, the record of a strategy, the daily profit and the ranking (done).  Left:
   the non-temporal lemmas behind the liveness properties (what each step of the
   liveness argument keeps).
8. A failing database in TradingEngine (done): `save_trade` raises after the order.

## 6. Not modelled

`MarketRegime` (an average directional index on price series) is an input of the
score; so are the Sharpe ratio, the drawdown and the correlation coefficient
where they are used.  `TradingEngine` admits every signal instead of running
`Decisions`: its properties hold whatever the strategies say.  The candle cache
bounds the age of candles and is used by one thread; snapshots and health are
display; Telegram, web, reports, settings and logging are input and output.
`KeyError` of a missing snapshot in the cycle's display part is one of the
exceptions of `StrategyFails`.  `PROJECT.json` gives the reason for each component.
