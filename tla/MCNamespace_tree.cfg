\* Two users, one command after another: the tree, the names and the shared view.
SPECIFICATION Spec
CONSTANTS
    ana = ana
    beto = beto
    x = x
    y = y
    eq = eq
    compartido = compartido
    User = {ana, beto}
    Name = {x, y}
    GroupName = {eq}
    Shared = compartido
    Request = {1}
    Seed <- SeedNone
    MaxDirs = 4
    MaxFiles = 2
    MaxGrants = 2
    MaxLen = 2
    MaxCommands = 4
INVARIANTS TreeReadsBack NamesHeldOnce FilesAreReachable SharedViewExact
SYMMETRY Symmetry
CHECK_DEADLOCK FALSE
