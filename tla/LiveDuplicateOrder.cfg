\* One call is enough: its first request is accepted, the answer is lost.
CONSTANTS
    strategy = strategy
    ws = ws
    Threads = {strategy, ws}
    Buyers = {strategy}
    Amounts = {2, 3}
    HardCap = 2
    MaxAttempts = 2
    MaxLooks = 2
    NoThread = NoThread
    MaxCalls = 2
    MaxRestarts = 0
SPECIFICATION Spec
INVARIANT AtMostOneOrderPerCall
