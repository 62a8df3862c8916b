----------------------------- MODULE CudaDevice -----------------------------
(***************************************************************************)
(* The device of accelerators/cuda/device.go: newDevice, a straight line   *)
(* of calls any of which may fail, open, which fills pinned buffers and    *)
(* queues work on the streams of its shards, and close.  The card runs     *)
(* what is queued on its own time, one operation of a stream after the     *)
(* other.  What the driver owns (held) is kept apart from what the program *)
(* knows it owns (known): close goes by the latter.                        *)
(*                                                                         *)
(* The calls come from the one goroutine of the worker, which opens until  *)
(* an open fails or it is told to stop, and then closes (OpeningComputer). *)
(* A synchronization that fails leaves nothing running.                    *)
(***************************************************************************)
EXTENDS CudaKernels

CONSTANTS
    Streams,    \* cfg.Streams
    Batch,      \* cfg.Batch
    Batches,    \* the batches the worker may hand over, of at most Batch jobs
    MaxOpens    \* a bound on the opens

ASSUME DeviceAssumption ==
    /\ Streams \in Nat \ {0} /\ Batch \in Nat \ {0} /\ MaxOpens \in Nat
    /\ BucketCount \in Nat \ {0} /\ Group \in Nat \ {0, 1}
    /\ \A b \in Batches : Len(b) \in 1..Batch

VARIABLES
    phase,      \* what the goroutine is doing
    next,       \* the calls it has still to make
    held,       \* the resources of the driver and of the process in use
    known,      \* the handles in the fields of the device
    queues,     \* the operations queued on each stream
    tables,     \* the tables on the card
    memory,     \* the buffers of each shard, on the card and pinned
    batch,      \* the batch being opened
    points,     \* what the last open returned
    opens       \* the opens begun

vars == <<phase, next, held, known, queues, tables, memory, batch, points, opens>>

Shards == 0..(Streams - 1)
Default == Streams           \* the stream of the calls that name none
All == Streams + 1           \* all streams, of a context
PerStream == CeilDiv(Batch, Streams)
Slots == 0..(PerStream - 1)

-----------------------------------------------------------------------------
(* Initialization                                                           *)

Call(name, on) == [call |-> name, on |-> on]
Of(k, name) == <<k, name, 0>>
Scratch(k, level) == <<k, "scratch", level>>
Whole(name) == Of(All, name)

Ask(on) == <<Call("ask", on)>>
Take(on) == <<Call("take", on)>>
Sync(k) == <<Call("sync", k)>>

DeviceBuffers == <<"vector", "q", "contributions", "indices", "out">>
HostBuffers == <<"host", "hostInput", "hostIndices">>
CardTables == {"bases", "table", "roots", "differences"}

OnCard(resource) == resource[2] \in CardTables \cup {"scratch"} \cup ToSet(DeviceBuffers)

LoadDriver ==
    Take(Whole("driver")) \o Ask("symbols") \o Take(Whole("compiler")) \o Ask("symbols")

\* compile: the program is destroyed whether or not it compiles.
Compile ==
    Take(Whole("program")) \o Ask("compile") \o Ask("ptx") \o <<Call("drop", Whole("program"))>>

\* The copy may go on after the call: it is on the default stream.
Upload(table) == Take(Whole(table)) \o <<Call("copy", table)>> \o Sync(Default)

NewShard(k) ==
    LET takes(names) == [i \in DOMAIN names |-> Call("take", Of(k, names[i]))] IN
    takes(<<"stream">>) \o takes(DeviceBuffers)
        \o [level \in DOMAIN Levels |-> Call("take", Scratch(k, level))]
        \o takes(HostBuffers)

NewDevice ==
    LoadDriver \o Ask("capability") \o Compile \o Take(Whole("context")) \o Take(Whole("module"))
        \o Ask("functions") \o Upload("bases") \o Take(Whole("table"))
        \o <<Call("copy", "table")>> \o Sync(All) \o <<Call("free", Whole("bases"))>>
        \o Upload("roots") \o Upload("differences") \o Ask("memory")
        \o FlattenSeq([i \in 1..Streams |-> NewShard(i - 1)])

Tables ==
    [bases |-> LagrangeG1,
     table |-> Precompute(LagrangeG1),
     roots |-> NaturalRoots,
     differences |-> Differences]

-----------------------------------------------------------------------------
(* Opening.  A shard opens b of the jobs: the jobs Selected at its offsets. *)

Operation(name, b, level) == [name |-> name, b |-> b, level |-> level]

Launches(b) ==
    <<Operation("upload vector", b, 0), Operation("upload indices", b, 0),
      Operation("quotient", b, 0), Operation("diagonal", b, 0), Operation("buckets", b, 1)>>
        \o [level \in 1..(Len(Levels) - 1) |-> Operation("reduce", b, level)]
        \o <<Operation("normalize", b, Len(Levels)), Operation("download", b, 0)>>

\* Faulty: the jobs are dealt in blocks.
SelectedInBlocks(k, offset) == k * PerStream + offset + 1

Selected(k, offset) == k + offset * Streams + 1
Selection(k, jobs) == {offset \in 0..Batch : Selected(k, offset) <= Len(jobs)}

\* The number of a shard's points, computed again when they are collected.
Collected(k, jobs) == (Len(jobs) - k + Streams - 1) \div Streams

Working(jobs) == [i \in 1..Min({Streams, Len(jobs)}) |-> i - 1]

OpenCalls(jobs) ==
    LET launch(k) ==
            LET operations == Launches(Cardinality(Selection(k, jobs))) IN
            <<Call("fill", k)>>
                \o [i \in DOMAIN operations |-> Call("queue", <<k, operations[i]>>)]
        collect(k) == Sync(k) \o <<Call("collect", k)>>
        shards == Working(jobs)
    IN  FlattenSeq([i \in DOMAIN shards |-> launch(shards[i])])
            \o FlattenSeq([i \in DOMAIN shards |-> collect(shards[i])])

\* What an operation leaves in the buffers of its shard.
Effect(m, op) ==
    LET written(old, new(_)) == [s \in Slots |-> IF s < op.b THEN new(s) ELSE old[s]]
        scratch(new(_)) ==
            [m.scratch EXCEPT ![op.level] = written(m.scratch[op.level], new)]
    IN  CASE op.name = "upload vector" ->
               [m EXCEPT !.vector = written(m.vector, LAMBDA s : m.hostInput[s])]
          [] op.name = "upload indices" ->
               [m EXCEPT !.indices = written(m.indices, LAMBDA s : m.hostIndices[s])]
          [] op.name = "quotient" ->
               LET q == written(m.q, LAMBDA s :
                            QuotientKernel(m.vector[s], tables.roots, tables.differences, m.indices[s]))
               IN  [m EXCEPT !.q = q,
                             !.contributions = written(m.contributions, LAMBDA s :
                                 Contributions(q[s], tables.roots, m.indices[s]))]
          [] op.name = "diagonal" ->
               [m EXCEPT !.q = written(m.q, LAMBDA s :
                   QuotientDiagonal(m.q[s], m.contributions[s], m.indices[s]))]
          [] op.name = "buckets" ->
               [m EXCEPT !.scratch = scratch(LAMBDA s : Buckets(tables.table, m.q[s]))]
          [] op.name = "reduce" ->
               [m EXCEPT !.scratch[op.level + 1] = written(m.scratch[op.level + 1], LAMBDA s :
                   Reduce(m.scratch[op.level][s], Levels[op.level]))]
          [] op.name = "normalize" ->
               [m EXCEPT !.out = written(m.out, LAMBDA s : m.scratch[op.level][s][0])]
          [] op.name = "download" ->
               [m EXCEPT !.host = written(m.host, LAMBDA s : m.out[s])]

-----------------------------------------------------------------------------
(* Closing                                                                  *)

Drops(resources) == FlattenSeq([i \in DOMAIN resources |->
    IF resources[i] \in known THEN <<Call("drop", resources[i])>> ELSE <<>>])

OfShard(k) ==
    <<Of(k, "stream")>> \o [i \in DOMAIN HostBuffers |-> Of(k, HostBuffers[i])]

\* Faulty: a shard that was not completed is passed over.
CloseWholeShards == FlattenSeq([i \in 1..Streams |->
    IF Of(i - 1, "hostIndices") \in known THEN Drops(OfShard(i - 1)) ELSE <<>>])

CloseShards == FlattenSeq([i \in 1..Streams |-> Drops(OfShard(i - 1))])

CloseLibraries == Drops(<<Whole("compiler"), Whole("driver")>>)
Destroy == Drops(<<Whole("module"), Whole("context")>>)

CloseDevice ==
    (IF Whole("context") \in known THEN Sync(All) \o CloseShards \o Destroy ELSE <<>>)
        \o CloseLibraries

-----------------------------------------------------------------------------
(* Steps                                                                    *)

Zeros == [i \in Index |-> 0]

FreshBuffers ==
    LET each(value) == [s \in Slots |-> value] IN
    [vector |-> each(Zeros), q |-> each(Zeros), contributions |-> each(Zeros),
     indices |-> each(0), out |-> each(0), host |-> each(0),
     scratch |-> [level \in DOMAIN Levels |-> each([i \in 0..(Levels[level] - 1) |-> 0])],
     hostInput |-> each(Zeros), hostIndices |-> each(0)]

Init ==
    /\ phase = "starting"
    /\ next = NewDevice
    /\ held = {} /\ known = {}
    /\ queues = [k \in Shards \cup {Default} |-> <<>>]
    /\ tables = [name \in DOMAIN Tables |-> IF name = "table" THEN Precompute(Zeros) ELSE Zeros]
    /\ memory = [k \in Shards |-> FreshBuffers]
    /\ batch = <<>> /\ points = <<>> /\ opens = 0

Calling(name) == next # <<>> /\ Head(next).call = name
On == Head(next).on
Idle == phase \in {"starting", "opening"} /\ next = <<>>
Waited(k) == {q \in DOMAIN queues : k \in {q, All}}

\* A question, a symbol, a kernel by its name, the memory left.
Asked ==
    /\ Calling("ask")
    /\ next' = Tail(next)
    /\ UNCHANGED <<phase, held, known, queues, tables, memory, batch, points, opens>>

Taken ==
    /\ Calling("take")
    /\ held' = held \cup {On} /\ known' = known \cup {On}
    /\ next' = Tail(next)
    /\ UNCHANGED <<phase, queues, tables, memory, batch, points, opens>>

\* A destroyed context gives back the memory of the card.
Dropped ==
    /\ Calling("drop") \/ Calling("free")
    /\ held' = {r \in held \ {On} : On = Whole("context") => ~OnCard(r)}
    /\ next' = Tail(next)
    /\ UNCHANGED <<phase, known, queues, tables, memory, batch, points, opens>>

Copied ==
    /\ Calling("copy")
    /\ queues' = [queues EXCEPT ![Default] = Append(@, On)]
    /\ next' = Tail(next)
    /\ UNCHANGED <<phase, held, known, tables, memory, batch, points, opens>>

Synchronized ==
    /\ Calling("sync") /\ \A q \in Waited(On) : queues[q] = <<>>
    /\ next' = Tail(next)
    /\ UNCHANGED <<phase, held, known, queues, tables, memory, batch, points, opens>>

Filled ==
    /\ Calling("fill")
    /\ memory' =
        LET given == Selection(On, batch)
            job(s) == batch[Selected(On, s)]
        IN  [memory EXCEPT
                ![On].hostInput = [s \in Slots |->
                    IF s \in given THEN PolynomialFromValues(job(s).values) ELSE @[s]],
                ![On].hostIndices = [s \in Slots |-> IF s \in given THEN job(s).index ELSE @[s]]]
    /\ next' = Tail(next)
    /\ UNCHANGED <<phase, held, known, queues, tables, batch, points, opens>>

Queued ==
    /\ Calling("queue")
    /\ queues' = [queues EXCEPT ![On[1]] = Append(@, On[2])]
    /\ next' = Tail(next)
    /\ UNCHANGED <<phase, held, known, tables, memory, batch, points, opens>>

Gathered ==
    /\ Calling("collect")
    /\ points' =
        [i \in DOMAIN points |->
            IF \E s \in 0..(Collected(On, batch) - 1) : i = On + s * Streams + 1
            THEN memory[On].host[(i - 1 - On) \div Streams]
            ELSE points[i]]
    /\ next' = Tail(next)
    /\ UNCHANGED <<phase, held, known, queues, tables, memory, batch, opens>>

\* The card does the first operation of a queue.
Run(k) ==
    /\ queues[k] # <<>>
    /\ queues' = [queues EXCEPT ![k] = Tail(@)]
    /\ IF k = Default
       THEN /\ tables' = [tables EXCEPT ![Head(queues[k])] =
                IF Head(queues[k]) = "table" THEN Precompute(tables.bases)
                ELSE Tables[Head(queues[k])]]
            /\ UNCHANGED memory
       ELSE /\ memory' = [memory EXCEPT ![k] = Effect(@, Head(queues[k]))]
            /\ UNCHANGED tables
    /\ UNCHANGED <<phase, next, held, known, batch, points, opens>>

Open(jobs) ==
    /\ Idle /\ opens < MaxOpens
    /\ phase' = "opening" /\ next' = OpenCalls(jobs)
    /\ batch' = jobs /\ points' = [i \in DOMAIN jobs |-> 0]
    /\ opens' = opens + 1
    /\ UNCHANGED <<held, known, queues, tables, memory>>

\* The worker is told to stop.
Close ==
    /\ Idle
    /\ phase' = "closing" /\ next' = CloseDevice
    /\ UNCHANGED <<held, known, queues, tables, memory, batch, points, opens>>

\* A program half compiled is destroyed by a deferred call.
Deferred ==
    LET rest == Tail(next) IN
    IF Whole("program") \in known /\ \E i \in DOMAIN rest : rest[i].call = "drop"
    THEN <<Call("drop", Whole("program"))>> ELSE <<>>

Emptied(k) == [q \in DOMAIN queues |-> IF q \in Waited(k) THEN <<>> ELSE queues[q]]

\* A call fails, and the device is closed.
Fail ==
    /\ phase \in {"starting", "opening"} /\ next # <<>>
    /\ Head(next).call \in {"ask", "take", "copy", "free", "queue", "sync", "collect"}
    /\ phase' = "closing" /\ next' = Deferred \o CloseDevice
    /\ queues' = IF Calling("sync") THEN Emptied(On) ELSE queues
    /\ UNCHANGED <<held, known, tables, memory, batch, points, opens>>

\* While closing, a call that fails is passed over.
FailClosing ==
    /\ phase = "closing" /\ Calling("sync")
    /\ queues' = Emptied(On)
    /\ next' = Tail(next)
    /\ UNCHANGED <<phase, held, known, tables, memory, batch, points, opens>>

Closed == phase = "closing" /\ next = <<>> /\ UNCHANGED vars

Next ==
    \/ Asked \/ Taken \/ Dropped \/ Copied \/ Synchronized \/ Filled \/ Queued \/ Gathered
    \/ \E k \in Shards \cup {Default} : Run(k)
    \/ \E jobs \in Batches : Open(jobs)
    \/ Close \/ Fail \/ FailClosing \/ Closed

Spec == Init /\ [][Next]_vars

-----------------------------------------------------------------------------
(* Properties                                                               *)

\* device.go:221: an open that returns has, for every job at its place, the point
\* that the CPU computes, and with it the scheme proves exactly the cell that is
\* under the commitment to the values: what the card adds up by windows, on buffers
\* that other jobs have used, is the commitment to the quotient.  A batch with an
\* index that the card does not answer has no proof (accelerator.go:72).
AnswersOpen ==
    phase = "opening" /\ Idle =>
        \A i \in DOMAIN batch :
            LET job == batch[i]
                cell == job.values[job.index + 1]
                root == Commit(job.values).value
                proof == Proof(points[i], Scalar(cell), job.index)
                card == {[index \in {job.index} |-> points[i]]}
            IN  /\ points[i] = ProvePolynomialAtIndex(PolynomialFromValues(job.values), job.index)
                /\ \A c \in 0..(FieldSize - 1) :
                    Prove(card, Value(KZG4096, c), job.values, job.index)
                        = IF c = root.commitment THEN Accepted(proof) ELSE Rejected
                /\ Opened(card, root, job.values, job.index) = Accepted(proof)
                /\ \A index \in 0..(Len(job.values) - 1) :
                    BatchProve(card, root, job.values, <<job.index, index>>)
                        = IF index = job.index THEN Accepted(<<proof, proof>>) ELSE Rejected
                /\ \A index \in Index, other \in ToSet(job.values) :
                    VerifyIndex(root, index, other, proof) <=> index = job.index /\ other = cell

\* device.go:36, :168, :232: whatever call of the initialization or of an open fails,
\* close gives back what was taken, each once, and calls for nothing that is not
\* there; and until then what is queued is done on buffers that are there, each large
\* enough for the jobs of its shard, and on a card with all its tables.
CloseFreesAll ==
    /\ phase = "closing" /\ next = <<>> => held = {}
    /\ Calling("drop") \/ Calling("free") => On \in held
    /\ \A k \in Shards : \A i \in DOMAIN queues[k] :
        /\ queues[k][i].b <= PerStream
        /\ {Of(k, name) : name \in ToSet(DeviceBuffers) \cup ToSet(HostBuffers)} \subseteq held
        /\ \A level \in DOMAIN Levels : Scratch(k, level) \in held
        /\ {Whole(name) : name \in CardTables \ {"bases"}} \subseteq held
    /\ \A i \in DOMAIN queues[Default] : Whole(queues[Default][i]) \in held
=============================================================================
