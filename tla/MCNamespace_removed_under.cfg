\* A file is created in a directory that another command is removing, and committed.
SPECIFICATION Spec
CONSTANTS
    ana = ana
    beto = beto
    x = x
    y = y
    eq = eq
    compartido = compartido
    User = {ana, beto}
    Name = {x, y}
    GroupName = {}
    Shared = compartido
    Request = {1, 2}
    Seed <- SeedTwo
    MaxDirs = 4
    MaxFiles = 1
    MaxGrants = 0
    MaxLen = 2
    MaxCommands = 2
INVARIANT FilesAreReachable
CHECK_DEADLOCK FALSE
