\* Two concurrent invocations, two commanders, and versions up to a second
\* approval and its publication.
CONSTANTS
    Handlers = {h1, h2}
    Actors = {c1, c2}
    CallIds = {k1}
    Calls <- MCCalls
    None = None
    MaxVersion = 4
SPECIFICATION Spec
SYMMETRY Symmetry
CHECK_DEADLOCK FALSE
INVARIANT SentAtMostOnce
