SPECIFICATION Spec
CONSTANTS
    TradedSymbols = {"s1", "s2"}
    TradingStrategies = {"a", "b"}
    Days = {1, 2}
    Unit = 144
    TradeFee = 16
    MinTrades = 2
    MinConsistency = 50
    MaxOverfit = 3
    RsiPeriod = 2
    Fast = 1
    Slow = 2
    SignalPeriod = 2
    BandPeriod = 3
    VolumePeriod = 2
    BandNum = 1
    BandDen = 1
    BreakoutNum = 1
    BreakoutDen = 2
    Scale = 8748
    InitialBalance = 3506
    OrderAmount = 1080
    CommissionDen = 10
    ImpactDen = 8
    TrainNum = 7
    TrainDen = 10
    TickerLimit = 4
    TopLimit = 3
    MinVolume = 2
    Configured <- ConfiguredSymbols
    Longest <- LongestInputs
INVARIANTS
    DailyProfitsAddUp
    OrderOfRowsIsFree
    StrategyRecordsAgree
    ChosenIsNearlyBest
    BacktestSeesNoFuture
    BacktestPaysForTrades
    WalkForwardIsSound
    QuickerToSell
    ScreeningIsSound
CHECK_DEADLOCK FALSE
