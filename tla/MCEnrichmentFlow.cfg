\* Two recoveries of one decision at the same time, each as often as it takes,
\* two faults, and one polling client.
CONSTANTS
    Runs = {r1, r2}
    Clients = {c1}
    NoItem = NoItem
    MaxFaults = 2
SPECIFICATION Spec
CHECK_DEADLOCK FALSE
INVARIANTS
    LastWriterAnnounces
PROPERTIES
    ImplementsNarrativeSet
    RecoveryRepairs
    ReaderKeepsUp
