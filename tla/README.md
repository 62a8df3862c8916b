# TLA+ models of malt-core

malt-core authenticates mutable graphs of content with immutable Roots. This
directory models the parts of it that have state, order or concurrency, checks
them with TLC on small instances and proves the central results with TLAPS for
every instance. Paths below are those of the repository under `src/`.

## 1. The system

| Part | State | Operations | Talks to |
|---|---|---|---|
| CUDA opening worker `accelerators/cuda/cuda.go` | a mutex, a once, the error, `done` and `stopped` channels, a bounded channel of jobs, one result channel per job | `New`/`start`, `Open`, the goroutine `run`, `stop`, `Close` | callers on any goroutine; one device |
| CUDA device `accelerators/cuda/{device.go,worker/kzg.cu}` | a driver context, tables, buffers and streams per shard | `newDevice`, `open` of a batch, `close` | the driver |
| Objects `sdk/object` | per object: references, payload, configuration and a history (`before`, `after`); per Commit: a scope | edits, `Commit`, `Delta` | Writers; custom objects call back |
| Map and List trees `auth/tree` | none of their own: immutable nodes in a store | `Commit`, `Apply`, `AppendBatch`, `Truncate`, `SetPayload`, `Snapshot`, `Prove`, `Verify`, ranges | a node lookup and a node updater |
| Workspace, Materialization `auth/tree/materialization.go` | the nodes known to one operation; the closed DAG of one Root | `GetNode`, `PutNode`, `Seal`, `Import`, `CopyTo` | the trees |
| Writer `sdk/authentication/{writer,delta}.go` | a Root, its bindings (a crit-bit trie), its Materialization | `BuildWriter`, `Apply`, `Update`, `Export` | the trees through a Workspace |
| Session `sdk/authentication/session.go` | writers by handle, their total charge, the last id | `Build`, `Import`, `Apply`, `Export`, `Discard`, `Clear` | clients, under one lock |
| Candidates `sdk/authentication/candidate.go` | none | validate, `Materialize`, import | a node store |
| Node store `auth/arcset/materializer/memory/nodes.go` | immutable nodes by reference | `PutNode`, `GetNode` | concurrent operations |
| Path store `auth/arcset/materializer/memory/store.go` | per scope: current paths, snapshots of Roots, owned node paths | `Update`, `UpdateNode`, `Get`, deletions | applications |
| Proofs `auth/tree/{proof,range,verified_node}.go` | none | `Prove`, `Verify`, `ProveRange`, `VerifyRange`, `SnapshotBounded` | a commitment backend; nodes nobody vouches for |
| Traversal `traversal` | none | `ResolvePathWithRoots`, `VerifyPath` | proofs of many Roots |
| Protocol `protocol` | none | validation of batches and receipts, wire forms | candidates |
| Engine, derivation, coordinates, CIDs | a table of profiles | conversions | all |
| KZG and IPA `auth/commitment/{kzg,ipa}` | none | `Commit`, `Prove`, `BatchProve`, `Verify...`, `Replace`, prepared openings | the trees; the opening worker; a library |

Where it is hard, and what makes each part correct:

* **Opening worker.** Callers, closers and the worker share a lock, three kinds
  of channels and a `sync.Once`. No answer may go to the wrong call, no accepted
  job may be lost, the stop happens once and for one reason, `Close` returns only
  after the device is freed, nothing waits for ever, and nothing is queued after
  the stop.
* **Objects.** A recursive `Commit` over graphs that share children, have
  cycles, and contain application code that swallows errors or invents CIDs. Histories
  advance together or not at all; a success is the Merkle root of the present
  graph; a failure cannot be hidden.
* **Trees.** Path copying must end at the very tree a fresh build gives, through
  collapses, splits, changes of height and the largest counts; it must do what
  the set or sequence operation says, and refuse only what that refuses.
* **Shared nodes.** Edits write node by node and may stop anywhere; any Root an
  operation returned must be loadable.
* **Untrusted evidence.** Proofs, range proofs, query results, candidates and batches
  come from others. Only the truth about the trusted Root may pass, whatever shape
  nodes and results have, and the truth must pass.
* **Deltas.** The difference of two snapshots must be exactly what a receiver of
  the old graph lacks, in an order a batch is accepted in, also when vertices share a CID
  or were committed on their own in between.
* **Device.** Some thirty calls that may each fail must leave nothing allocated; jobs are
  dealt to shards and collected with separate arithmetic; buffers, streams
  and tables are used while the card runs behind; and the card computes in another way
  than the CPU that verifies.
* **Writer and Session.** Bindings and tree are two copies of one state that must
  not part; budgets and ids are unsigned integers with limits; handles outlive
  what they name.

`PROJECT.json` lists every part ("components") and every hazard with the
line at which it bites and the properties that guard it ("hazards").

## 2. The modules

| Module | Models | Uses |
|---|---|---|
| `OpeningComputer` | the opening worker, one action per channel or lock operation | |
| `OpeningService` | what the worker promises its callers | |
| `OpeningComputer_proofs` | invariants of the worker, where jobs are, and that it implements its promise, proved | `OpeningComputer`, TLAPS |
| `ObjectCommit` | edits and recursive commits of object graphs | |
| `ObjectCommit_proofs` | Roots, histories and custom objects, proved | `ObjectCommit`, TLAPS |
| `ObjectDelta` | deltas of snapshots, their export, the validation of batches | `ObjectCommit` |
| `ObjectQueries` | traversal, and requests executed and verified, on committed graphs | `ObjectDelta` |
| `MapTree` | the Map layout: commit, apply, contents (operators) | |
| `ListTree` | the List layout: commit, append, truncate, replace, payload (operators) | `MapTree` |
| `MapProof`, `ListProof` | proofs, ranges and snapshots, over nodes of any shape (operators) | `MapTree`, `ListTree` |
| `MapArcs`, `ListArcs` | what a Map and a List promise | |
| `MapUpdates`, `ListUpdates` | histories of one Map and of one List | the trees and proofs, refining the above |
| `MapUpdates_proofs` | the Map layout, its batches, evidence about a Map and its snapshots, proved | `MapUpdates`, `SequenceLemmas` |
| `ListUpdates_proofs` | the List layout, its operations, ranges and snapshots, proved | `ListUpdates`, `SequenceLemmas` |
| `TreeEdits` | concurrent edits and copies on one node store | `ListTree` |
| `Bindings` | the crit-bit trie of a Writer (operators) | |
| `WriterDelta` | a Writer: bindings and tree, deltas, updates, the Workspace | `ListTree`, `Bindings` |
| `Candidates` | export and import of Writers | `WriterDelta`, `MapProof`, `ListProof` |
| `Session` | the session of writers | |
| `Session_proofs` | handles, charges and widths of a session, proved | `Session`, TLAPS |
| `PathStore` | the store of paths: Roots, owners, tree nodes, batches read path by path | |
| `PathStore_proofs` | what Roots show, owners and batches, proved | `PathStore`, TLAPS |
| `Kzg`, `Ipa` | the two commitment backends (operators) | |
| `CudaKernels` | what the kernels compute (operators) | `Kzg` |
| `CudaDevice` | initialization, opening and closing of the device, call by call | `CudaKernels` |
| `CudaDevice_proofs` | nothing is left when the device is closed, proved | `CudaDevice`, `SequenceLemmas` |
| `SequenceLemmas` | numbers one after the other, sequences joined and flattened, proved | TLAPS |
| `Openings` | what both backends owe, on the jobs the device opens | `CudaDevice`, `Ipa` |
| `MC*` | instances for TLC | |

### Opening worker (`OpeningComputer`, `OpeningService`)

Every goroutine has a program counter. A step is one blocking operation: locking
`c.mu`, the select that sends to `jobs`, the select between an answer and `done`,
each select of `run`, the device call, one answer at a time, the two steps inside
the once. `start` is modelled with its factory that may fail. A lock is a
variable with its holder, a buffered channel a bounded sequence, a closed channel a
Boolean; a select with several ready cases is a disjunction. The timer of
`BatchWait` may fire at any time (`WorkerStopsCollecting`). The device is
external: it answers in order, or fails. `OpeningService` knows only calls that
are outstanding and one reason for going down; `ServiceSpec` shows that the
goroutines implement it, "busy" included: a call is turned away only while as
many others are outstanding as the channel has places.

### Objects (`ObjectCommit`)

The Go stack is the variable `stack`, with one frame per `Commit` in progress;
`reg` holds the call that is about to be made or the result that was just
returned. `active`, `done`, `byCID`, `staged`, `ids` and `failed` are the fields of
`commitScope`. A commitment is collision-free: a Root is the record of what it
commits to. `Customs` return anything, fail, or call one built-in object and hand
on or replace its result; `Wrappers` are built-in objects whose own `Commit` calls
`CommitTagged` on themselves. The context may be canceled between any two steps.
Edits happen between outermost Commits, as the package requires.

`ObjectDelta` reads the last two snapshots of each history: the stack walk of
`indexSnapshots`, the choice among vertices of one CID, the children-first order of
`diffSnapshots`, and what its export and the batch make of it. A Writer's bindings are
those its Root commits to, since `WriterDelta` and `MapUpdates` show the two to agree.
`ObjectQueries` lets requests be executed on, and verified against, the Root of the last
Commit. One proof is taken here for evidence about its Root and query; that this is
what it is worth is `ProofsDecide` and `RangesDecide`.

### Trees (`MapTree`, `ListTree` and those above them)

A node is its own reference: a function from slots to cells, a child cell
holding the child. An operation yields whether it is accepted, the new root, the
nodes it writes in order and the nodes it reads. Coordinates are a constant
function of labels, so that labels may collide (`ErrCoordinateCollision`). Counts
of Lists have `Width` bits and wrap around; shifts beyond the width give zero, as
in Go. What recurses in a Map is a function of the depth, from the last depth a
digit has (`Levels`) to the first; what recurses in a List is a function of the height,
which says for every node and position of that height what is done to it (`Builds`,
`Grows`, `Cuts`, `Replaces`, `ItemsBelow`, `Walks`). A height no node of which is
reached is never looked at. A change of a batch is an element of a set: the order of the changes is
irrelevant (the code sorts them), and the same change sent twice, which
the code refuses, is not expressible.

`MapUpdates` and `ListUpdates` take one Root through any history of operations.
`HistoryIndependent` compares it with a fresh build. `ImplementsArcs` is a
refinement: the bindings, read from the tree, follow `MapArcs` or `ListArcs`.
`AcceptsExactly` makes acceptance an equivalence with what the abstract state
says, for every input and not only for those that some step takes.

`MapProof` and `ListProof` take nodes of any shape: the cell under a slot is whatever the
writer of the node put there. Provers get a set of nodes that may lack some. The
properties offer every query the proofs of all others, cut short and drawn out, with every
answer; range proofs of other windows and in another order, with other metadata; and
snapshots of Roots in which one cell was exchanged. Whatever is accepted must be what
the Root holds, and the honest proof must be accepted.

`TreeEdits` adds the store: operations compute first (`edit`) and then write
their nodes one at a time (`finish`), interleaved, and may stop after any. The
reads of an edit are one step: nodes are only ever added, so that reads spread
over time find what reads at their end find.

### Writer and Session (`WriterDelta`, `Session`)

A writer holds bindings and a root. `Valid` is what `Writer.Apply` checks before
it touches a node, `Replayed` the up to four tree operations that follow in one
Workspace; `Run` keeps the set of nodes the Workspace knows. A read makes known what is
below its node, if the node itself is known by then (`Seen`); `Run` refuses a read of any
other node, and a new node written before its children (`ErrIncomplete`). All reads of an
operation come before its writes, as in `finish`. `Update` compiles a state to a delta. Writers are
never changed, so that branches need no model of their own. Beside the set of bindings runs
the trie of `Bindings`, changed by every delta entry by entry as the code changes it;
`TrieMatches` compares the two with a trie built from nothing, sizes, charges
and ranges included. `Candidates` exports each writer, doctors the export in every
way a host could, and says exactly which candidates are imported.

In `Session` each operation is one step, since it holds the lock throughout. Of
a writer only its charge matters. `charge` and `next` are unsigned words with a
largest value `MaxUint`, and the subtraction in `retain` wraps around. A client
keeps the handles it received, those it or others discarded included.

### Backends and device (`Kzg`, `Ipa`, `CudaKernels`, `CudaDevice`, `Openings`)

KZG's polynomial arithmetic is the code's own, so `Kzg` carries it out, in the field of 17
elements: a point of a group is its discrete logarithm, and the pairing an equation
of exponents. IPA's arguments are a library's, so `Ipa` has them as symbols that bind
their commitment, points and outputs; its indices are one byte wide, as in the code.
A scheme of KZG may have a computer, which is given by the answers it has: an index without one
refuses the proof, or the whole batch.
Hence the models check what is computed and what is compared with what, and take for
granted that commitments bind.

`CudaDevice` is the straight line of calls that `newDevice`, `open` and `close` make; `next`
is what is left of it. Any call may fail and then the device is closed. `held` is what the
driver has, `known` what the fields of the device say; `close` goes by the second and
is judged by the first. A stream is a queue whose operations the card runs later, each
on the buffers as they then are. Kernels are their effects on buffers; what earlier
batches left there stays. The device is used by one goroutine, the worker of
`OpeningComputer`, which treats it as a call that answers in order or fails:
`AnswersOpen` is what makes that assumption right. A synchronization that fails is
taken to leave nothing running.

### Store of paths (`PathStore`)

One scope of `auth/arcset/materializer/memory/store.go`, with the adapter of
`materializer/encoded` that keeps tree nodes as a width marker and one entry per
non-empty cell. Every call that writes, and every `Get`, holds the store's lock and
is one step; `BatchGet` takes the lock for each path, so that a reader has a
variable with the paths it got so far and `Read` is one step per path. Whether the
store branches, and whether the adapter's updater has owners, is chosen at the
start. Callers of `Update` send the difference between the arcs of the new Root
and those of the base, as the applications of the store do; the contents of a
Root are a constant. What the model leaves out: scopes (the store
keeps them apart), the syntax of paths, and `MatchPaths`.

## 3. The runs

| Run | Instance | What it shows |
|---|---|---|
| `opening_safety` | 2 callers with 2 calls, 2 closers, 1 place, batch of 2, collecting | no answer goes astray, no job is lost, one clean stop, refinement of the service |
| `opening_liveness` | 3 callers with 1 call, 1 closer, fairness | every `Open` and `Close` returns; a failure frees the device |
| `object_graphs` | all graphs of 2 Maps, a List and a leaf with a few references, cycles included, shared Bases and copied objects, 2 configurations; 1 edit, 3 Commits | the Root is the Merkle root of the graph, so that a cycle never commits; all or nothing; separate identities; deltas are exact and make valid batches |
| `object_custom` | 2 Maps (one a wrapper), a List, a leaf and a custom object; 2 Commits, fairness; 26 requests | custom objects cannot forge or hide a failure; children once; every Commit ends; queries are answered by the truth only |
| `map_updates` | binary nodes, 5 labels of which 2 collide, all Maps, all batches of 2 changes | the Map layout, its proofs and its snapshots |
| `list_updates` | nodes of 4 slots, counts of 4 bits, up to 15 items, 9 windows | the List layout at every length, its proofs, ranges and snapshots |
| `tree_edits` | 2 editors, 4 operations, binary nodes | returned Roots can be loaded |
| `writer_deltas` | Maps of 4 labels, Lists of up to 4 items, 2 changes with count and payload; candidates doctored in one place | bindings, trie and tree agree; imports are exact |
| `device_openings` | field of 17 elements, 8 values, 3 cells, batches of 1, 2 and 5 jobs on 2 shards of 3, 2 opens, every call failing | the card's points are the CPU's, both backends bind, everything taken is given back |
| `session` | 2 clients, room for 2, words of 0 to 6 | budgets and handles at their limits |
| `path_store` | 3 Roots of 2 paths, 2 nodes of 2 slots, 2 owners of a path, an entry without Root, 1 reader | Roots show their arcs, no half node is read, owners keep theirs |
| `path_overlay` | the same, with the entry without Root on a path of arcs | a Root that changes (a finding) |

Why these bounds are enough to meet the interesting cases:

* `opening_*`: with one place and a batch of two the channel is full while the worker
  holds a partial batch, and two closers meet inside the once while the worker fails;
  three callers are more than a batch and its worker can take.
* `object_*`: three references among three containers give self-loops, two-cycles, a
  diamond and a chain; the second Commit meets snapshots of the first, and the third
  makes a delta whose old graph is itself a second version, after a child was committed
  on its own. Paths of up to three steps pass a Map, the List and the contents below
  it, and end present, absent and outside the Roots.
* `map_updates`: depth three of a binary trie has a shared prefix of two digits, so that
  deletion collapses over two levels and an insertion splits over two.
* `list_updates`: four bits and four slots give three heights, and a topmost span of 16,
  which is zero in four bits; the bug that a mutant plants there (`RootPositionWide`)
  is found.
* `writer_deltas`: Lists on binary nodes have roots with a single child; keys of three
  bits give tries of depth three; each candidate differs from a right one in one place,
  so that a check that is left out lets some of them through.
* `tree_edits`: four operations of two editors are a commit each, an edit of either
  and a cancellation of it.
* `device_openings`: a shard has no job, one, two and three; the second batch meets the
  points of the first in its buffers; the last chunk of points is short, three windows
  make a scalar, and the 27 buckets take three reductions. Commitments and indices are
  compared over all that the field and the domain have.
* `session`: six ids are all used up.
* `path_*`: three Roots keep, change, add and delete an arc, in every order and on every
  base; one of the nodes has an empty cell, which a missing one could be taken for;
  the owners are interchangeable (symmetry).

`path_overlay` is expected to fail: the comment of `Update`
(`materializer.go:50`) calls a materialized Root immutable, but `Get` falls back to
entries without Root (`store.go:54`) for paths that the snapshot of the Root lacks,
so that such an entry, written later, changes what the Root shows. In
`path_store`, and in the theorems below, such entries have paths of their own.

`CHECK_DEADLOCK FALSE` is set where the number of operations is bounded or every
further operation is refused. In the runs of `OpeningComputer` and of `CudaDevice` deadlock
is checked: the only states without a further step are those where everyone has
returned and where the device is closed, which have steps of their own (`Finished`,
`Closed`). It is checked for `PathStore` as well.

Every property has a mutant in `PROJECT.json`: a definition with a
plausible bug (the ones commented "Faulty" in the modules) under which TLC finds
the property violated.

## 4. Fairness

`OpeningComputer!Fairness` is weak fairness of the constructor, the worker, each
call in progress, each stop in progress and each `Close` that waits: a goroutine
that can take its next step does, and a device call returns, with an answer or an
error. Nothing makes a caller call `Open` or `Close`. Weak fairness is enough for
the mutex: with finitely many calls nobody can be passed over for ever, so that the
result does not rest on an order in which Go's mutex wakes its waiters.
`ObjectCommit!FairSpec` asks that a Commit in progress takes its next step,
which includes that custom objects return. Without the first of these a stopped
program would violate everything; without the last a custom object could loop.

## 5. What is proved

All theorems hold for every value of the constants under the named assumptions of
the modules: there is at least one place in the channel and in a batch and the
sets of goroutines are disjoint (`BoundsAssumption`, `IdentityAssumption`); the
kinds of objects are disjoint, and graphs refer to objects (`KindAssumption`,
`GraphAssumption`); nodes have at least one slot, coordinates one number of digits, and
batches and Maps bind labels to targets (`MapAssumption`); the slots of a List are a power
of two, at least two, and counts have at least one bit (`ListAssumption`), batches and
Lists hold targets, at most as many as a count can say (`ListUpdatesAssumption`); the limits of a session are
words and positive (`LimitsAssumption`); contents, nodes and queries are what their names
say, and the paths of nodes, of owners and of arcs differ (`PathsAssumption`); there are
streams, places in a batch and buckets, the threads of a block are several, and a batch has
at least one job and no more than places (`DeviceAssumption`). Two
theorems have a hypothesis of their own: that entries without Root have paths that no
arc has (`Apart`, which `path_overlay` shows to be needed), and that the labels are
finitely many, for otherwise nothing bounds a Map that is to be refused.

* **`OpeningComputer_proofs`**: `TypeCorrect`, `AnswersCorrect`, `OneReason`,
  `CloseWaits`, `StopsCorrectly`, `StopIsFinal`. None of the invariants is inductive alone. `IInv`
  adds who may hold the lock at which program counter (`MutexInv`), how far the
  once has got for each stopper (`StopInv`), which call and which job a caller waits
  for (`CallInv`), and what the worker has of batch, points and context at each of
  its positions (`WorkerInv`). One lemma per conjunct shows that each action
  preserves it; frame lemmas (`WorkerFrame`, `CallFrame`, `StopFrame`,
  `CloseFrame`) keep the cases short. `StopIsFinal`, an action property, follows
  since a sender holds the lock that the stopper needs to set the error.
* **The same module**: `NoJobIsLost` and `ImplementsService`. `QueueInv` takes what
  is left of the batch and the channel as one sequence (`Pending`): its jobs are
  distinct, each is what its caller waits for, each caller that waits without an answer has
  a place in it. `RunningInv` says that a call in progress has returned nothing. Then every
  action is a step of the service or leaves it alone; "busy" needs that the full channel
  holds calls of that many others, which is where the jobs must be distinct.
* **`ObjectCommit_proofs`**: `RootsAreMerkle`, `CustomsCannot`, `NoSharedBase`,
  `HistoriesAdvanceTogether`, `CommittedOnce`, for graphs of any size and shape. The
  calls in progress are a path of the graph (`StackInv`, `RegInv`); a scope knows a
  vertex only when it is no longer active, and remembers each failure (`ScopeInv`). While
  nothing has failed (`CleanInv`), every known vertex is staged with its present content over
  the Roots known for its children, and every vertex of a frame has its first children
  known; so at the end all that was reached is known, and the Root is the one of the
  graph (`ResultInv`). After a failure none of this is kept, nor needed: nothing is
  confirmed.
* **`MapUpdates_proofs`**: `RootsAreCanonical`, `BatchesDecide`, `ImplementsMap`. The
  inductive invariant is `Committed`: the Root is the one a Commit of some bindings has. A
  recursion over depths is a function, of which it is shown that it exists and how it
  unfolds (`NodesExist`, `MapNodeIs`, `EditsExist`, `EditIs`); facts about it go from depth
  to depth with `Upwards` and `Downwards`, which rest on the least element of a set of
  numbers. `EditsAlways` is the centre: at every depth an accepted edit of the node of some
  bindings is the node of the bindings changed, be it that the cell stays, is filled,
  emptied, pushed down, or collapses. `NodesOfMap` and `BindingsOfMap` read the
  bindings back from the tree.
* **The same module**: `EvidenceDecides` and `SnapshotsDecide`. The first has two
  halves: whatever answer and proof nodes `Verify` accepts state what the Map holds
  (`VerifySound`), and the honest lookup has evidence, and without one of the nodes it needs
  has no other answer (`HonestAlways`, `EvidenceVerifies`). The second is about nodes of any
  shape: a walk that finds no fault has seen a tree that a Commit of its bindings makes
  (`WalksTellAll`), a committed tree has no fault and is seen as a whole (`WalksWholeAll`),
  and a tree with one cell exchanged is either a committed one or has one (`OffWellFormed`).
* **`ListUpdates_proofs`**: `RootsAreCanonical`, `OperationsDecide`, `ImplementsList`. The
  inductive invariant is `Committed`: the Root is the one a Commit of some items and a
  payload has, and its metadata says how many. The arithmetic comes first: a position is a
  product of spans (`Spans`), so that shifts, the digits of an index and the counts of children
  are quotients and remainders without the width of words in them, which must be shown
  for the topmost span, where the code shifts past the width. `TreeIs` says which cells
  the node has that `listNode` builds of a window of a sequence, and `TreeSame` that they
  depend on nothing but the window. Then one lemma per operation, height by height:
  `TreeGrows` (children that stay, grow or are new, and a root that is demoted to a child),
  `TreeCuts` with `DescendsTo` for a root that comes down, and `TreeReplaces`; each says
  that the operation accepts what it must and ends at the tree of the changed sequence.
  `TreeHolds` and `BuiltItems` read the items back, for which the windows of the children are
  joined (`FlatWindows`).
* **The same module**: `WritesFollow` and `RangesVerify`. With what an operation makes, the
  lemmas per operation say that what it writes is below the new Root and in order
  (`Orderly`): the writes of the children, one child after the other, then the node
  (`ReplaceNodeOrderly`, `ReadingOrderly`); what a child refers to beyond them was below
  a node that was read, and the nodes read are the old Root and children of nodes read. For ranges, the way to an index is a sequence of positions, each with
  the rest of the index within it (`WayIs`), and on it lies one cell per level, the last of them
  the item (`CellsOnWay`). `Prove` finds these cells (`CellsFound`), and any cells that follow
  each other from the Root are they (`FollowedAre`), so that an answer that verifies states
  what the List has at the index (`VerifyIs`). The bounds of a window, with an end
  that may be left to Count, then say which indices the segments are about (`BoundsAre`).
* **The same module**: `SnapshotsTell`, about nodes of any shape whose cells decode
  (`Closed`). Height by height, a walk that accepts the node at a position has found a
  node that is the one `listNode` builds of the items found, and as many as the position was
  asked to hold (`WalksTell`; the items of the children are joined and their lengths add
  up, `FlatLengths`, `ReachIs`). Conversely the tree of any items is accepted, when its
  nodes load (`TreeWalks`). So a Snapshot accepts the Roots of Commits and no others
  (`SnapshotTells`). That the trees the run looks at, off in one cell, have cells that decode
  follows since they add one node to a set that is closed (`CellChanged`, `OffsDecodable`).
* **`Session_proofs`**: `TypeCorrect`, `HandlesFaithful`, `NeverReused`, `Accounting`. The
  inductive invariant says that the ids issued are those up to `next` and that a
  retained writer is the one its id was issued for; the test for the last id makes
  the addition in `retain` exact, so that the next id is always new. For the charges the
  sum over retained writers is taken apart one writer at a time; that the total is the sum
  is what keeps the subtraction of unsigned words from wrapping around.
* **`PathStore_proofs`**: `OwnersKeep`, `RootsShow`, `RootsStay`, `BatchesWhole`, all but the
  first under `Apart`. The inductive invariant `IInv` has three parts. `RootsInv`:
  a snapshot (without branching: the latest entries) agrees with the arcs of
  its Root, which `ChangesLead` carries from a base to the Root made
  from it. `NodesInv`: a node is stored whole or not at all, and on one side of the
  adapter only. `BatchInv`: a batch that found the marker has, for each slot
  read so far, what the slot holds; since stored nodes stay (`Stays`, proved with
  `NodesInv`), writers between two reads do not disturb it. `RootsStay` is the property
  that `path_overlay` violates: overlapping paths are the only way in which it can be.
* **`CudaDevice_proofs`**: `CloseFrees`, that `CloseFreesAll` holds for any number of streams
  and batches of any size. `newDevice` is a script of 26 calls followed by the takes of
  the shards (`NewDeviceIs`), so that the invariant can say what is known and held by the
  number of calls made (`StartInv`, `TakenAre`), and that a copy is waited for before anything
  is given back (`CopyIsWaitedFor`). While the device is open it holds all but the program
  and the bases (`OpenInv`). While it is closed, the calls left are a wait for the
  card and drops, each once, of what is held, and what none of them drops is on the card and
  goes with the context (`CloseInv`, `GiveBack`). `ClosingGivesBack` is the step between:
  from wherever a call fails, what `close` finds in the fields of the device, with the
  deferred call for the program, is what is held. `ShardFits` is the bound on the jobs of a
  shard. `IInv` was an invariant of a run before it was proved.
* **`SequenceLemmas`** has what these proofs and those of the Map share: a depth or a place
  after the other without an induction rule (`Upwards`, `Downwards`), and what `FlattenSeq`,
  joins and tails make of sequences (`FlatPlaces`, `FlatOnce`, `FlatWindows`, `JoinOnce`,
  `TailOnce`, `RestOf`, `FlatLengths`).

Only checked, not proved:

* liveness (`CallsReturn`, `FailureFreesDevice`, `CommitEnds`): fairness and ENABLED are out of
  the prover's reach;
* what is built on both layouts: that the writes of a result make it loadable from the nodes
  of its base (`RootsLoadable`; `WritesFollow` is the half of it that is about the order of a
  List's writes), and the properties of `WriterDelta` and `Candidates`, where the
  crit-bit trie of `Bindings` recurses in a way the provers cannot unfold as it stands;
* deltas and queries (`DeltaIsExact`, `DeltasSubmit`, `QueriesDecide`): their operators recurse
  over graphs, with a state that is handed from call to call;
* the backends and what the device computes (`AnswersOpen`, `OpeningsBind`): arithmetic
  in a field, with folds over its elements; TLC goes through all of it for one small
  field.

Conversely `OneReason`, `CloseWaits`, `StopIsFinal`, `HandlesFaithful` and the inductive
invariants are proved and are no property of a run: the first three are parts of what
`StopsCleanly` and `ServiceSpec` say, the fourth of `HandlesNeverReused`.

## 6. What is left

The proof that would add most is `RootsLoadable` of `TreeEdits`: the nodes of a result are
those of its base and those it writes, children first. For Lists `WritesFollow` is the half of
it; Maps lack theirs, and the lemmas about both layouts would have to be stated of the trees
alone, since the modules of their operations name state alike.

Not modelled, and why:

* conversions without state: CIDs, label and coordinate derivation, the registry, path
  syntax, wire forms, schemas, digests and receipts, the encoding of points and
  scalars, struct tags and codecs of objects. The models take their results from
  constant functions or as symbols;
* the goipa library, the driver and compiler of the card, the files of the trusted setup,
  the table of committer profiles: external or constants;
* how the kernels' source is put together, and the curve arithmetic in it: a point is one
  number in the model, so that the formulas for adding points cannot be seen;
* metrics and observation, command line tools, generators, conformance data, `host` and
  `builtin` (which wire an engine to requests), examples.
