\* Publications are bounded by MaxEvents, so every behaviour ends with the
\* subscribers waiting in their select loops: terminal states are expected.
CONSTANTS
    heartbeat = heartbeat
    remover = remover
    lAll = lAll
    lWeb = lWeb
    All = All
    NoOne = NoOne
    Publishers <- MC_Publishers
    PubNames <- MC_PubNames
    Listeners <- MC_Listeners
    Filter <- MC_Filter
    MaxEvents = 3
SPECIFICATION Spec
CHECK_DEADLOCK FALSE
INVARIANTS
    ExactlyOnceInOrder
