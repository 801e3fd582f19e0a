\* As PaperBroker.cfg, without a crash: a stale balance is the last one saved.
\* 32 pays two buys at price 1 (11 each) and not a third.
CONSTANTS
    strategy = strategy
    ws = ws
    Threads = {strategy, ws}
    Buyers = {strategy}
    btc = btc
    eth = eth
    Symbols = {btc, eth}
    Quantities = {0, 1}
    Prices = {1}
    FeeNum = 1
    FeeDen = 10
    InitialBalance = 32
    NoThread = NoThread
    NoOrder = NoOrder
    NoRow = NoRow
    MaxCalls = 4
    MaxRestarts = 0
SPECIFICATION Spec
INVARIANT SavedBalanceIsCurrent
