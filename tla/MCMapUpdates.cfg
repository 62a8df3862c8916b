\* Any Map of five labels and two targets under any two changes at a time.
CONSTANTS
    Slots = 2
    Labels = {"a", "b", "c", "d", "x"}
    CoordinateOf <- Coordinates
    Undef = "undef"
    Targets = {"t", "u"}
    Batches <- SmallBatches
    Maps <- FirstMaps
SPECIFICATION Spec
INVARIANTS HistoryIndependent AcceptsExactly ProofsDecide SnapshotsFaithful
PROPERTIES ImplementsArcs
CHECK_DEADLOCK FALSE
