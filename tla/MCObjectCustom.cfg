\* Custom objects that delegate, wrap, swallow errors and invent CIDs: all
\* graphs of two maps, a leaf and a custom object, two Commits.
CONSTANTS
    m1 = m1
    m2 = m2
    l1 = l1
    l2 = l2
    b1 = b1
    b2 = b2
    x1 = x1
    c1 = c1
    Maps = {m1, m2}
    Lists = {l1}
    Leaves = {b1}
    Customs = {x1}
    Wrappers = {m2}
    Delegate <- CustomDelegate
    Block <- LeafBlock
    HistoryOf <- CustomHistory
    IdOf <- CustomId
    Graphs <- CustomGraphs
    Outermost = {m1, m2, b1}
    Labels = {1, 2}
    Configs = {"A"}
    FirstConfigs <- AllA
    Reserved <- TwoReserved
    Cids = {c1}
    Undef = undef
    Nothing = nothing
    MaxEdits = 0
    MaxCommits = 2
    MaxItems = 2
    Contents = {c1}
    MaxBatchObjects = 4
    Requests <- SomeRequests
    MaxSteps = 2
SPECIFICATION FairSpec
INVARIANTS QueriesDecide CustomsCannotLie
PROPERTIES SharedOnce CommitEnds
CHECK_DEADLOCK FALSE
