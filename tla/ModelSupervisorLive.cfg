SPECIFICATION FairSpec
CONSTANTS
    Models = {m1}
    NoModel = NoModel
    AutoModel = NoModel
    WantsGpu = TRUE
    Clients = {c1}
PROPERTIES
    EventuallyServes
    EventuallyUnloads
