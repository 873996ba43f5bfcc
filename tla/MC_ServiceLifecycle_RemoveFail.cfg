\* One session deploys and removes one service; any call of RemoveService
\* after the status check may fail.
CONSTANTS
    c1 = c1
    c2 = c2
    p1 = p1
    p2 = p2
    Services = {s1}
    Clients = {c1}
    Payloads <- MC_Payloads
    NoFile = NoFile
    MaxGen = 2
    maxGenerations = 2
    RootName = root
SPECIFICATION Spec
INVARIANT
    ArtifactIntegrity
