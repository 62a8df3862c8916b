\* A reader whose batches are read path by path while callers materialize Roots,
\* two owners dispute an entry and the adapter writes nodes.
CONSTANTS
    r1 = r1
    r2 = r2
    r3 = r3
    n1 = n1
    n2 = n2
    p = p
    q = q
    t = t
    u = u
    z = z
    Roots = {r1, r2, r3}
    Paths = {p, q}
    Contents <- SomeContents
    Refs = {n1, n2}
    Slots = 2
    Vector <- SomeVectors
    Width = width
    Owners = {o1, o2}
    OwnedPaths = {s}
    LooseDeltas <- LooseEntry
    Targets = {t, u}
    Readers = {x1}
    Queries <- OneOrder
    Undef = undef
SPECIFICATION Spec
SYMMETRY Alike
INVARIANTS RootsShowContents BatchesAreWhole
PROPERTIES OwnersKeepNodes
