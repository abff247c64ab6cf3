SPECIFICATION UpdatesSpec
CONSTANTS
    Packages = {kernel, app}
    SystemPackages = {kernel}
    Lists = {{}, {kernel}, {app}, {kernel, app}}
    BigBatch = 2
    Requesters = {c1}
    Watcher = watcher
    MaxDay = 0
INVARIANTS
    AutoApplySparesTheSystem
