CONSTANTS
    Instants = {0, 1, 500, 999, 1000, 1001, 1999, 2000, 3000, 3001, 3999, 4000, 5500}
    Timeouts = {0, 1, 999, 1000, 1999, 2500}
SPECIFICATION FairTimedSpec
INVARIANTS
    DeadlineWindow
PROPERTY TimedPopReturns
\* The last instant ends the behaviour.
CHECK_DEADLOCK FALSE
