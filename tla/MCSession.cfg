\* Two clients on a session with room for two candidates and a charge as large as
\* the largest integer; every id is used up.
CONSTANTS
    small = small
    large = large
    saturated = saturated
    Clients = {c1, c2}
    Writers = {small, large, saturated}
    Charge <- Charges
    MaxCandidates = 2
    MaxStateBytes = 6
    MaxUint = 6
SPECIFICATION Spec
INVARIANTS ChargeIsExact
PROPERTIES HandlesNeverReused
SYMMETRY ClientSymmetry
CHECK_DEADLOCK FALSE
