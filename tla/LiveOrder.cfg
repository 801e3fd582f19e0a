\* A buy of the strategy and a sell of the WebSocket callback at once, every
\* request sent up to twice, one crash.  3 is over the hard cap.
CONSTANTS
    strategy = strategy
    ws = ws
    Threads = {strategy, ws}
    Buyers = {strategy}
    Amounts = {2, 3}
    HardCap = 2
    MaxAttempts = 2
    MaxLooks = 1
    NoThread = NoThread
    MaxCalls = 2
    MaxRestarts = 1
SPECIFICATION FairSpec
INVARIANTS TypeOK RowsAreOrders ReportedIsRecorded ExposureIsBounded
PROPERTY LockComesBack
