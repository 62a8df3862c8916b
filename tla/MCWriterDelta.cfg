\* Writers of Maps and of Lists of up to four items, on binary nodes: deltas of
\* at most two changes with a new count and a payload, right or wrong, and
\* updates to any complete state.
CONSTANTS
    Slots = 2
    Bits = 1
    Width = 4
    Labels = {"a", "b", "c", "x"}
    CoordinateOf <- Coordinates
    Undef = "undef"
    Keep = keep
    Cids = {"t", "u"}
    MaxLength = 4
    KeyBits = 3
    Weight <- TargetWeight
    Deltas <- SomeDeltas
    States <- SomeStates
SPECIFICATION Spec
INVARIANTS MatchesBuild ValidDeltasApply UpdateReaches TrieMatches ImportsExactly
CHECK_DEADLOCK FALSE
