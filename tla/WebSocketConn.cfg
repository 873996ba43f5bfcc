\* One terminal session over a WebSocket: up to three browser messages and a
\* readCh of one slot, so the buffer fills and the pump has to wait.  The
\* connection's life ends, so a final state is not a deadlock.
SPECIFICATION FairSpec
CONSTANTS
    ReadChCap = 1
    MaxMsgs = 3
INVARIANTS
    KeystrokesInOrder
PROPERTY
    PeerCloseEndsInput
CHECK_DEADLOCK FALSE
