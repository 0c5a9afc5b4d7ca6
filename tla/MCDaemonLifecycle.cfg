SPECIFICATION Spec
CONSTANTS
    Shared = s1
    Daemons = {d1, d2}
    Starters = {s1, s2}
    Stoppers = {t1}
    Port <- MCPort
    Ghost = Ghost
    Nobody = Nobody
    Uses <- MCUses
INVARIANTS
    ServesUnderLock
    StoppedMeansReleased
PROPERTIES
    StopIsCarriedOut
CHECK_DEADLOCK FALSE
