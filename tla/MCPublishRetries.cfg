\* One invocation after another is enough: the retry need not even overlap.
CONSTANTS
    Handlers = {h1, h2}
    Actors = {c1}
    CallIds = {k1}
    Calls <- MCCalls
    None = None
    MaxVersion = 4
SPECIFICATION RetrySpec
CHECK_DEADLOCK FALSE
INVARIANT RetryMovesOnce
