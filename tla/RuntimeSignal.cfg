\* One start, and a signal during the first strategy cycle.
CONSTANTS
    MaxStops = 0
    MaxStarts = 1
    MaxSignals = 1
SPECIFICATION Spec
INVARIANT SignalIsNotForgotten
