SPECIFICATION Spec
CONSTANTS
    a = a
    b = b
    Requests <- MCRequests
    Callers <- MCCallers
    Tickers <- MCTickers
    Chunks <- MCChunks
    Initial = 1
    Capacities = {0, 1}
    Resizes = 1
    ArgChunks = 2
    Window = 1
    Cancels = 1
    Ring = 2
INVARIANTS TerminalIsLast QueueIsWatched ShutdownAnswersAll
PROPERTY EveryRequestEnds
CHECK_DEADLOCK FALSE
