SPECIFICATION Spec
CONSTANTS
    Shared = s1
    Daemons = {d1, d2}
    Starters = {s1, s2}
    Stoppers = {}
    Port <- MCOwnPort
    Ghost = Ghost
    Nobody = Nobody
    Uses <- MCTornUses
INVARIANTS
    OneDaemonServes
CHECK_DEADLOCK FALSE
