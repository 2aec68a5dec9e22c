CONSTANTS
    Timer = {t1, t2, t3, t4, t5}
    Worker = {w1, w2, w3}
    NoTimer = NoTimer
    Report <- ReportedStates

SPECIFICATION FairSpec

INVARIANTS
    TypeOK
    NeverStranded
    UnlockedIsTracked
    CountdownOnlyWhileClosed
    RetryOutsideJammed
    PausedMeansOpen

PROPERTIES
    KeepsContract
    QuietSettles
