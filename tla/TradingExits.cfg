\* One symbol, trailing stop on: all three threads close the same position,
\* and the poll loop takes its turns for ever.
CONSTANTS
    btc = btc
    Symbols = {btc}
    Quantities = {0, 1}
    Prices = {1, 2, 4}
    FeeNum = 0
    FeeDen = 1
    InitialBalance = 3
    Strategy = Strategy
    Monitor = Monitor
    Ws = Ws
    EnableMonitor = TRUE
    EnableWebsocket = TRUE
    MaxPositions = 1
    MaxOrder = 2
    RiskPct = 100
    AbsoluteMax = 4
    DailyLossLimit = 2
    StopLoss = 50
    TakeProfit = 150
    Trailing = 25
    Cooldown = 0
    Hour = 1
    MaxOrdersPerHour = 4
    MaxCycles = 2
    MaxTime = 0
    MaxFailures = 1
SPECIFICATION FairSpec
INVARIANTS TypeOK PricedWhenHeld
PROPERTIES ImplementsLedger StopLossActs
