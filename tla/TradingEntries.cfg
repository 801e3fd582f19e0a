\* Two symbols, one position at most: the limits on buying, with the
\* WebSocket callback selling meanwhile.
CONSTANTS
    btc = btc
    eth = eth
    Symbols = {btc, eth}
    Quantities = {0, 1}
    Prices = {1, 2}
    FeeNum = 0
    FeeDen = 1
    InitialBalance = 6
    Strategy = Strategy
    Monitor = Monitor
    Ws = Ws
    EnableMonitor = FALSE
    EnableWebsocket = TRUE
    MaxPositions = 1
    MaxOrder = 2
    RiskPct = 100
    AbsoluteMax = 4
    DailyLossLimit = 1
    StopLoss = 50
    TakeProfit = 300
    Trailing = 0
    Cooldown = 2
    Hour = 1
    MaxOrdersPerHour = 1
    MaxCycles = 3
    MaxTime = 1
    MaxFailures = 1
SPECIFICATION Spec
INVARIANTS AtMostMaxPositions LossLimitStopsBuying BuysAreSpaced HourlyLimitHolds
