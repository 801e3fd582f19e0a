\* Two strategies that take different parameters; every tick of the clock,
\* every restart and every message is one of MaxEvents events.  Messages: a
\* request the strategy is not needed for, two that build it, a question and
\* /stop.
CONSTANTS
    Strategies = {"score", "rsi"}
    Default = "score"
    Tunable = {"score"}
    ParametersOf <- Takes
    Values = {0, 1}
    Factory = 0
    Day = 2
    SwitchCooldown = 1
    RollbackDays = 0
    TuningCooldown = 1
    MaxEvents = 3
    Sent = {"report", "info", "tuning", "ask", "stop"}
    DailyLimit = 1
SPECIFICATION FairSpec
INVARIANTS TypeOK SwitchIsInForce ParametersAreCurrent
PROPERTIES CooldownsHold StoredIsWhatWasEvaluated RequestsAreServed StopIsObeyed
CHECK_DEADLOCK FALSE
