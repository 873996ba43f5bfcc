\* A window as wide as the bound: no generation is ever evicted, so only the
\* interleaving of two sessions can matter.
CONSTANTS
    c1 = c1
    c2 = c2
    p1 = p1
    p2 = p2
    Services = {s1}
    Clients <- MC_Clients
    Payloads <- MC_Payloads
    NoFile = NoFile
    MaxGen = 3
    maxGenerations = 3
    RootName = root
SYMMETRY MC_Symmetry
SPECIFICATION Spec
INVARIANTS
    UnitMatchesGeneration
