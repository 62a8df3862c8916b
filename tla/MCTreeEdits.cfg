\* Two writers and four operations on one store: commits, path-copying updates
\* and copies of candidates interleave and stop half-way.
CONSTANTS
    Slots = 2
    Bits = 1
    Width = 4
    Labels = {"a", "b", "c"}
    CoordinateOf <- Coordinates
    Undef = "undef"
    Editors = {e1, e2}
    Maps <- SomeMaps
    Lists <- SomeLists
    Batches <- SomeBatches
    Appends <- SomeAppends
    Exchanges <- SomeExchanges
    Payloads = {"p"}
    NoRoot = noroot
    MaxOps = 4
SPECIFICATION Spec
INVARIANTS RootsLoadable
SYMMETRY EditorSymmetry
CHECK_DEADLOCK FALSE
