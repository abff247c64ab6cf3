SPECIFICATION Spec
CONSTANTS
    Models = {m1, m2}
    NoModel = NoModel
    AutoModel = NoModel
    WantsGpu = TRUE
    Clients = {c1, c2}
SYMMETRY Symmetry
INVARIANTS
    TypeOK
    ServesTheChoice
    NoMissedWakeUp
    ReadyIsHonest
    LabelsAreHonest
