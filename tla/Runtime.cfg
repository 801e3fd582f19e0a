\* Two starts of the process, two /stop commands, two signals.
CONSTANTS
    MaxStops = 2
    MaxStarts = 2
    MaxSignals = 2
SPECIFICATION FairSpec
INVARIANTS TypeOK Guarded OneCycleAtATime
PROPERTIES StopEndsTheProcess StreamComesBack
