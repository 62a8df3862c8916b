\* Graphs of two maps, a list and a leaf with at most two references each, one
\* edit and three Commits, canceled at any moment.
CONSTANTS
    m1 = m1
    m2 = m2
    l1 = l1
    l2 = l2
    b1 = b1
    b2 = b2
    x1 = x1
    c1 = c1
    Maps = {m1, m2}
    Lists = {l1, l2}
    Leaves = {b1, b2}
    Customs = {}
    Wrappers = {}
    Delegate <- NoDelegate
    Block <- LeafBlock
    HistoryOf <- PlainHistory
    IdOf <- PlainId
    Graphs <- PlainGraphs
    Outermost = {m1, m2}
    Labels = {1, 2}
    Configs = {"A", "B"}
    FirstConfigs <- AllA
    Reserved <- TwoReserved
    Cids <- BlockAndRoot
    Undef = undef
    Nothing = nothing
    MaxEdits = 1
    MaxCommits = 3
    MaxItems = 2
    Contents = {c1}
    MaxBatchObjects = 4
    Requests = {}
    MaxSteps = 2
SPECIFICATION Spec
INVARIANTS CommitIsMerkle DeltaIsExact DeltasSubmit OneOwner
PROPERTIES AllOrNothing
CHECK_DEADLOCK FALSE
