\* One terminal session over a WebSocket: up to three browser messages and a
\* readCh of one slot, so the buffer fills and the pump has to wait.  The
\* connection's life ends, so a final state is not a deadlock.
SPECIFICATION Spec
CONSTANTS
    ReadChCap = 1
    MaxMsgs = 3
INVARIANT
    NoSendOnClosedChannel
CHECK_DEADLOCK FALSE
