\* Two sessions, one process each: lag, lost answers, outages and a promotion.
SPECIFICATION FairSpec
CONSTANTS
    ana = ana
    beto = beto
    p1 = p1
    p2 = p2
    Session = {ana, beto}
    Process = {p1, p2}
    SessionOf <- OneEach
    MaxLSN = 3
    MaxFaults = 2
INVARIANTS TypeOK ReadYourWrites
PROPERTY ReplicaServesAgain
CHECK_DEADLOCK FALSE
