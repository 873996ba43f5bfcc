CONSTANTS
    heartbeat = heartbeat
    remover = remover
    lAll = lAll
    lWeb = lWeb
    All = All
    NoOne = NoOne
    Publishers <- MC_Publishers
    PubNames <- MC_PubNames
    Listeners <- MC_Listeners
    Filter <- MC_Filter
    MaxEvents = 2
SPECIFICATION FairSpec
CHECK_DEADLOCK FALSE
PROPERTIES
    PublishCompletes
