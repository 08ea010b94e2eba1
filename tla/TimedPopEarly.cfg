CONSTANTS
    Instants = {0, 1, 500, 999, 1000, 1001, 1999, 2000, 3000}
    Timeouts = {1, 999, 1000, 1999, 2500}
SPECIFICATION TimedSpec
INVARIANT BlocksForMs
CHECK_DEADLOCK FALSE
