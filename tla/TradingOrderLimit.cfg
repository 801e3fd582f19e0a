\* The order is sized by the equity: up to 4 here, the limit is 2.
CONSTANTS
    btc = btc
    Symbols = {btc}
    Quantities = {0, 1, 2}
    Prices = {1, 2, 3, 4}
    FeeNum = 0
    FeeDen = 1
    InitialBalance = 6
    Strategy = Strategy
    Monitor = Monitor
    Ws = Ws
    EnableMonitor = TRUE
    EnableWebsocket = FALSE
    MaxPositions = 1
    MaxOrder = 2
    RiskPct = 100
    AbsoluteMax = 4
    DailyLossLimit = 2
    StopLoss = 50
    TakeProfit = 150
    Trailing = 25
    Cooldown = 0
    Hour = 1
    MaxOrdersPerHour = 4
    MaxCycles = 3
    MaxTime = 0
    MaxFailures = 0
SPECIFICATION Spec
PROPERTY OrderWithinLimit
