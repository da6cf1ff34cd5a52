\* Two mv of one user at a time, each into the other directory: a loop of parent links.
SPECIFICATION Spec
CONSTANTS
    ana = ana
    beto = beto
    x = x
    y = y
    eq = eq
    compartido = compartido
    User = {ana, beto}
    Name = {x, y}
    GroupName = {}
    Shared = compartido
    Request = {1, 2}
    Seed <- SeedTwo
    MaxDirs = 4
    MaxFiles = 0
    MaxGrants = 0
    MaxLen = 2
    MaxCommands = 2
INVARIANT TreeReadsBack
CHECK_DEADLOCK FALSE
