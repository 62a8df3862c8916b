\* Three callers, more than the batch of two can hold, with one call each and a
\* closer: callers wait for the lock another one holds, under the fairness of
\* running goroutines.
CONSTANTS
    Callers = {c1, c2, c3}
    Closers = {k1}
    Worker = w
    Nobody = nobody
    NoPoint = nopoint
    MaxCalls = 1
    MaxPending = 1
    Batch = 2
    Collecting = TRUE
SPECIFICATION FairSpec
PROPERTIES CallsReturn FailureFreesDevice
