\* Two callers with two calls each and two closers on a channel of one place
\* and a batch of two: full channel, mixed batches, two stoppers at once.
CONSTANTS
    Callers = {c1, c2}
    Closers = {k1, k2}
    Worker = w
    Nobody = nobody
    NoPoint = nopoint
    MaxCalls = 2
    MaxPending = 1
    Batch = 2
    Collecting = TRUE
SPECIFICATION Spec
INVARIANTS AnswersMatch NoLostJob StopsCleanly
PROPERTIES ServiceSpec
SYMMETRY CallerSymmetry
