\* The events socket of the web UI under service changes, clean drops and
\* failures: two services, three socket slots, up to two changes and two
\* network faults.  The page idles waiting for events, so a final state is
\* not a deadlock.
CONSTANTS
    s1 = s1
    s2 = s2
    k1 = k1
    k2 = k2
    k3 = k3
    Services <- MC_Services
    Slots <- MC_Slots
    NoSock = NoSock
    MaxChanges = 2
    MaxFaults = 1
    MaxTimers = 3
SPECIFICATION FairSpec
PROPERTY
    ReconnectSettles
CHECK_DEADLOCK FALSE
