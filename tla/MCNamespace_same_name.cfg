\* Two directories that are called the same, shared by one owner.
SPECIFICATION Spec
CONSTANTS
    ana = ana
    beto = beto
    x = x
    y = y
    eq = eq
    compartido = compartido
    User = {ana, beto}
    Name = {x, y}
    GroupName = {}
    Shared = compartido
    Request = {1}
    Seed <- SeedTwo
    MaxDirs = 6
    MaxFiles = 0
    MaxGrants = 2
    MaxLen = 2
    MaxCommands = 3
INVARIANT EntriesAreEntered
CHECK_DEADLOCK FALSE
