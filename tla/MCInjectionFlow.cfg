\* Three requests of one key (so up to three attempts), two executions (so a
\* duplicate delivery, or one run and its recovery), two possible identities.
CONSTANTS
    Req = {r1, r2, r3}
    Exec = {e1, e2}
    Identities = {i1, i2}
    None = None
    LeaseTtl = 1
    RunDeadline = 1
    MaxTime = 2
SPECIFICATION Spec
SYMMETRY Symmetry
CHECK_DEADLOCK FALSE
INVARIANTS
    TypeOK
    OneClaimPerAttempt
    OneHolderPerAttempt
    CompletedIsCommitted
    AnnouncedIsStored
    AlertedIsTerminal
PROPERTIES
    LiveHolderKept
    TerminalStays
    SupersededWritesNothing
    RunIsNotAbandoned
    ImplementsSingleDecision
