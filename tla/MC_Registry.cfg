\* One request at a time: the tag mapping and snapshot handling of a single
\* PUT or DELETE.
CONSTANTS
    appWeb = appWeb
    appDb = appDb
    bare = bare
    m1 = m1
    m2 = m2
    h1 = h1
    h2 = h2
    Invalid = Invalid
    NoRef = NoRef
    Services = {"app"}
    Repos <- MC_Repos
    RepoService <- MC_RepoService
    Blobs <- MC_Blobs
    DigestRef <- MC_DigestRef
    Tags = {"latest", "run"}
    Handlers <- MC_OneHandler
    MaxRequests = 4
SPECIFICATION Spec
CHECK_DEADLOCK FALSE
INVARIANTS
    TagMapping
