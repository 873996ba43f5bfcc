\* Two sessions run every lifecycle command, edit --config included.
CONSTANTS
    c1 = c1
    c2 = c2
    p1 = p1
    p2 = p2
    Services = {s1}
    Clients <- MC_Clients
    Payloads <- MC_Payloads
    NoFile = NoFile
    MaxGen = 3
    maxGenerations = 2
    RootName = root
SYMMETRY MC_Symmetry
SPECIFICATION Spec
PROPERTY
    GenerationHistoryPreserved
