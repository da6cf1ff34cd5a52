\* A user creates directories inside what another user shares with WRITE.
SPECIFICATION Spec
CONSTANTS
    ana = ana
    beto = beto
    x = x
    y = y
    eq = eq
    compartido = compartido
    User = {ana, beto}
    Name = {x, y}
    GroupName = {}
    Shared = compartido
    Request = {1}
    Seed <- SeedOne
    MaxDirs = 6
    MaxFiles = 0
    MaxGrants = 1
    MaxLen = 1
    MaxCommands = 3
INVARIANT OwnerRulesTree
CHECK_DEADLOCK FALSE
