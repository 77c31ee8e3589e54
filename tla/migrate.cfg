SPECIFICATION FairSpec

CONSTANTS
    p1 = p1
    p2 = p2
    t1 = t1
    t2 = t2
    t3 = t3
    Processes = {p1, p2}
    Threads = {t1, t2, t3}
    Process <- ProcessHere
    Latest = 2
    Builds = {1, 2}
    Statements <- StatementsHere
    None = None
    MaxFaults = 2
    MaxCrashes = 1

INVARIANTS
    TypeOK
    SchemaWhole
    AnswerIsTrue

PROPERTIES
    VersionsRiseByOne
    EveryOpenerAnswers

CHECK_DEADLOCK FALSE
