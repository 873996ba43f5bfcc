CONSTANTS
    appWeb = appWeb
    appDb = appDb
    bare = bare
    m1 = m1
    m2 = m2
    h1 = h1
    h2 = h2
    Invalid = Invalid
    NoRef = NoRef
    Services = {"app"}
    Repos <- MC_Repos
    RepoService <- MC_RepoService
    Blobs <- MC_Blobs
    DigestRef <- MC_DigestRef
    Tags = {"latest", "run"}
    Handlers <- MC_OneHandler
    MaxRequests = 1
SPECIFICATION Spec
CHECK_DEADLOCK FALSE
INVARIANTS
    InvalidRepoNeverIndexed
