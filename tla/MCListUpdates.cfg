\* Lists of at most fifteen items, counts of four bits, nodes of four slots: the
\* root gives one of them up, and the topmost span is as wide as the integers.
CONSTANTS
    Slots = 4
    Bits = 2
    Width = 4
    Labels = {}
    CoordinateOf <- NoCoordinates
    Undef = "undef"
    Targets = {"t", "u", "v", "other"}
    BatchSizes = {1, 2, 5, 12, 15}
    Exchanged = {0, 6, 14}
    Appends <- Continue
    Replacements <- PairsOfExchanges
    Payloads = {"undef", "p"}
    Lists <- NoItems
    Windows <- SomeWindows
SPECIFICATION Spec
INVARIANTS HistoryIndependent AcceptsExactly WritesInOrder RangesDecide SnapshotsFaithful
PROPERTIES ImplementsArcs
CHECK_DEADLOCK FALSE
