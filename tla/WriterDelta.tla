----------------------------- MODULE WriterDelta -----------------------------
(***************************************************************************)
(* The Writer of sdk/authentication: one complete ArcSet, retained twice,  *)
(* as bindings in the order of their coordinates and as a tree of nodes.   *)
(* Apply validates a delta against the bindings and then has auth/tree     *)
(* replay it in up to four steps (Apply, Truncate, AppendBatch,            *)
(* SetPayload) in one Workspace, which knows only the root of the base,    *)
(* what was seen below a node it read, and what was written in it.  Update *)
(* compiles a complete state to such a delta.                              *)
(*                                                                         *)
(* The label of a List binding is its index.  A delta is a set of changes: *)
(* the same change twice, which is refused, cannot be expressed.           *)
(***************************************************************************)
EXTENDS ListTree, Bindings

CONSTANTS
    Keep,      \* a count or payload that a delta does not mention (nil)
    Deltas(_), \* the deltas an application may send to a writer
    States     \* the complete states it may build from or update to

VARIABLE writer  \* the writer an application goes on with

RECURSIVE NodesOf(_)
NodesOf(node) == {node} \cup UNION {NodesOf(child) : child \in ChildNodes(node)}

IsList(x) == x.layout = "list"
Key(x, label) == IF IsList(x) THEN label ELSE CoordinateOf[label]
Count(bindings) == Cardinality(bindings)
Targets(bindings, from, to) ==
    [i \in 1..(to - from) |-> (CHOOSE b \in bindings : b.label = from + i - 1).target]

-----------------------------------------------------------------------------
(* The Workspace.                                                           *)

\* Faulty: only nodes that were known before the operation make their children known.
SeenShallow(known, reads) == known \cup UNION {ChildNodes(n) : n \in reads \cap known}

\* A read makes the children of a node known, if the node itself is known by then.
RECURSIVE Seen(_, _)
Seen(known, reads) ==
    LET more == known \cup UNION {ChildNodes(n) : n \in reads \cap known}
    IN  IF more = known THEN known ELSE Seen(more, reads)

\* All reads come before the writes.  A read of a node that is not known fails, and so
\* does a write of a new node before its children (ErrIncomplete).
Run(work, op) ==
    LET seen == Seen(work.known, op.reads)
        Has(i) == seen \cup {op.puts[j] : j \in 1..(i - 1)}
    IN  [ok    |-> /\ work.ok /\ op.ok
                   /\ op.reads \subseteq seen
                   /\ \A i \in DOMAIN op.puts :
                          op.puts[i] \in Has(i) \/ ChildNodes(op.puts[i]) \subseteq Has(i),
         known |-> seen \cup Range(op.puts),
         root  |-> op.node]

-----------------------------------------------------------------------------
(* BuildWriter.                                                             *)

\* bindingsFromState, and the dense indices Engine.Commit asks of a List.
Buildable(state) ==
    /\ \A b \in state.bindings : b.target # Undef
    /\ \A x, y \in state.bindings : Key(state, x.label) = Key(state, y.label) => x = y
    /\ IsList(state) => {b.label : b \in state.bindings} = 0..(Count(state.bindings) - 1)
    /\ ~IsList(state) => state.payload = Undef

TreeOf(state) ==
    IF IsList(state)
    THEN BuildList(Targets(state.bindings, 0, Count(state.bindings)), state.payload)
    ELSE MapNode(state.bindings, 0)

BuildWriter(state) ==
    [layout |-> state.layout, bindings |-> state.bindings, payload |-> state.payload,
     root |-> TreeOf(state)]

-----------------------------------------------------------------------------
(* Apply.                                                                   *)

NewCount(w, delta) == IF delta.count = Keep THEN Count(w.bindings) ELSE delta.count
NewPayload(w, delta) == IF delta.payload = Keep THEN w.payload ELSE delta.payload

Old(w, change) == {b \in w.bindings : Key(w, b.label) = Key(w, change.label)}

\* Faulty: bindings beyond the new count are kept.
NewBindingsUncut(w, delta) ==
    {b \in w.bindings : \A c \in delta.changes : b \notin Old(w, c)}
        \cup {Binding(c.label, c.after) : c \in {x \in delta.changes : x.after # Undef}}

NewBindings(w, delta) ==
    {b \in w.bindings :
        /\ IsList(w) => b.label < NewCount(w, delta)
        /\ \A c \in delta.changes : b \notin Old(w, c)}
        \cup {Binding(c.label, c.after) : c \in {x \in delta.changes : x.after # Undef}}

Known(w, change) ==
    IF Old(w, change) = {} THEN change.before = Undef
    ELSE Old(w, change) = {Binding(change.label, change.before)}

\* All that is checked against the bindings before any node is touched.
Valid(w, delta) ==
    LET count == NewCount(w, delta)
        grown == count - Count(w.bindings)
    IN  /\ ~IsList(w) => delta.count = Keep /\ delta.payload = Keep
        /\ IsList(w) => grown <= Cardinality(delta.changes)
        /\ \A c, d \in delta.changes : Key(w, c.label) = Key(w, d.label) => c = d
        /\ \A c \in delta.changes :
               /\ c.before # Undef \/ c.after # Undef
               /\ Known(w, c)
               /\ IsList(w) => c.after # Undef /\ c.label < count
        /\ IsList(w) => Count(NewBindings(w, delta)) = count

\* Faulty: the last index of the base is taken for an appended one.
ReplacementsShort(w, delta) ==
    {c \in delta.changes : c.before # c.after /\ (IsList(w) => c.label + 1 < Count(w.bindings))}

Replacements(w, delta) ==
    {c \in delta.changes : c.before # c.after /\ (IsList(w) => c.label < Count(w.bindings))}

Indexed(changes) == {[index |-> c.label, before |-> c.before, after |-> c.after] : c \in changes}

\* The steps of auth/tree that carry out a delta, in this order.
Steps(w, delta) ==
    LET old == Count(w.bindings)
        count == NewCount(w, delta)
        changes == Replacements(w, delta)
    IN  (IF IsList(w) THEN <<[op |-> "replace", arg |-> Indexed(changes)]>>
                      ELSE <<[op |-> "apply", arg |-> changes]>>)
        \o (IF ~IsList(w) \/ count = old THEN <<>>
            ELSE IF count < old THEN <<[op |-> "truncate", arg |-> count]>>
            ELSE <<[op |-> "append", arg |-> Targets(NewBindings(w, delta), old, count)]>>)
        \o (IF NewPayload(w, delta) = w.payload THEN <<>>
            ELSE <<[op |-> "payload", arg |-> NewPayload(w, delta)]>>)

Step(store, root, step) ==
    CASE step.op = "apply"    -> ApplyMap(store, root, step.arg)
      [] step.op = "replace"  -> ApplyList(store, root, step.arg)
      [] step.op = "truncate" -> Truncate(store, root, step.arg)
      [] step.op = "append"   -> AppendBatch(store, root, step.arg)
      [] step.op = "payload"  -> SetPayload(store, root, step.arg)

Replay(work, step) ==
    IF work.ok THEN Run(work, Step(NodesOf(work.root), work.root, step)) ELSE work

Replayed(w, delta) ==
    FoldLeft(Replay, [ok |-> TRUE, known |-> {w.root}, root |-> w.root], Steps(w, delta))

\* Seal keeps what the new Root reaches.
NewWriter(w, delta) ==
    [layout |-> w.layout, bindings |-> NewBindings(w, delta), payload |-> NewPayload(w, delta),
     root |-> Replayed(w, delta).root]

Accepted(w, delta) ==
    LET work == Replayed(w, delta)
    IN  Valid(w, delta) /\ work.ok /\ work.root \in work.known

-----------------------------------------------------------------------------
(* Update.                                                                  *)

Differences(w, state) ==
    {[label |-> b.label, before |-> b.old, after |-> b.target] : b \in
        {[label |-> x.label, target |-> x.target,
          old |-> IF Old(w, x) = {} THEN Undef ELSE (CHOOSE o \in Old(w, x) : TRUE).target] :
            x \in state.bindings \ w.bindings}}

\* A Map deletes what the state no longer has, a List is cut to its length.
DeltaTo(w, state) ==
    [changes |-> Differences(w, state) \cup
         {[label |-> b.label, before |-> b.target, after |-> Undef] :
             b \in {x \in w.bindings : ~IsList(w) /\ Old(state, x) = {}}},
     count   |-> IF IsList(w) THEN Count(state.bindings) ELSE Keep,
     payload |-> IF IsList(w) THEN state.payload ELSE Keep]

Updatable(w, state) ==
    /\ w.layout = state.layout
    /\ Buildable(state)
    /\ \A b \in state.bindings : \A o \in Old(w, b) : o.label = b.label

-----------------------------------------------------------------------------
Init == \E state \in States : Buildable(state) /\ writer = BuildWriter(state)

Apply(delta) == Accepted(writer, delta) /\ writer' = NewWriter(writer, delta)

Update(state) == Updatable(writer, state) /\ Apply(DeltaTo(writer, state))

Next ==
    \/ \E delta \in Deltas(writer) : Apply(delta)
    \/ \E state \in States : Update(state)

Spec == Init /\ [][Next]_writer

-----------------------------------------------------------------------------
\* The two halves of a Writer never drift apart: its tree is the one a build
\* from its bindings and payload gives, whatever deltas led there and in which
\* steps they were replayed (Writer.Apply).
MatchesBuild == Buildable(writer) /\ writer = BuildWriter(writer)

\* What passes validation against the bindings is never refused by the tree:
\* no step meets a state it does not expect, and the Workspace, which knows of the
\* base only the root and what is below nodes it served, has every node that a step
\* reads, every child of one it writes and the Root that Seal takes, below
\* intermediate Roots too (ErrIncomplete of GetNode, putComputed and Seal).
ValidDeltasApply == \A delta \in Deltas(writer) : Valid(writer, delta) => Accepted(writer, delta)

-----------------------------------------------------------------------------
(* The bindings of a writer as a trie.                                      *)

TrieKey(x, label) ==
    IF IsList(x) THEN label
    ELSE FoldLeft(LAMBDA key, digit : Slots * key + digit, 0, CoordinateOf[label])

\* bindingsFromState, of the bindings in some order.
TrieOf(x, entries) ==
    FoldLeft(LAMBDA trie, b : BindingSet(trie, TrieKey(x, b.label), b), NoBindings, entries)

\* The new bindings: cut to the new count, then changed in the order of the delta.
Rebound(w, trie, count, changes) ==
    FoldLeft(LAMBDA t, c :
                 IF c.after = Undef THEN BindingDelete(t, TrieKey(w, c.label))
                 ELSE BindingSet(t, TrieKey(w, c.label), Binding(c.label, c.after)),
             IF IsList(w) /\ count < Count(w.bindings) THEN BindingBefore(trie, count) ELSE trie,
             changes)

\* Writer.Lookup: refused for a label that collides with a retained one.
Lookup(w, trie, label) ==
    LET n == BindingGet(trie, TrieKey(w, label)) IN
    [ok     |-> n # NoBindings => n.entry.label = label,
     target |-> IF n = NoBindings THEN Undef ELSE n.entry.target]

\* Reference: the one trie of a set of keys, K-th bit by bit, with its caches.
RECURSIVE Canonical(_, _)
Canonical(f, bit) ==
    LET Side(value) == {k \in DOMAIN f : KeyBit(k, bit) = value}
        On(value) == Canonical([k \in Side(value) |-> f[k]], bit + 1)
    IN  IF DOMAIN f = {} THEN NoBindings
        ELSE IF Cardinality(DOMAIN f) = 1 THEN BindingLeaf(Min(DOMAIN f), f[Min(DOMAIN f)])
        ELSE IF Side(0) = {} \/ Side(1) = {} THEN Canonical(f, bit + 1)
        ELSE [kind |-> "branch", bit |-> bit, left |-> On(0), right |-> On(1),
              key |-> Min(DOMAIN f), maximum |-> Max(DOMAIN f), size |-> Cardinality(DOMAIN f),
              charge |-> 256 * (Cardinality(DOMAIN f) - 1)
                             + MapThenSumSet(LAMBDA k : 256 + Weight(f[k]), DOMAIN f)]

Without(f, key) == [k \in DOMAIN f \ {key} |-> f[k]]
With(f, key, entry) == [k \in DOMAIN f \cup {key} |-> IF k = key THEN entry ELSE f[k]]

\* The trie is always the one of its bindings, with the exact number and charge of
\* every branch, however it came about: whatever a writer and a half applied delta
\* hold, getting, setting and deleting any key and cutting at any limit do what
\* they do to a table (bindings.go), and so does the loop of Writer.Apply, in any
\* order of the changes.
TrieMatches ==
    LET Keyed(bindings) == [k \in {TrieKey(writer, b.label) : b \in bindings} |->
                               CHOOSE b \in bindings : TrieKey(writer, b.label) = k]
        own == Keyed(writer.bindings)
        Table(more) == [k \in DOMAIN own \cup more |->
                           IF k \in DOMAIN own THEN own[k] ELSE Binding(k, Undef)]
        entry == Binding("any", "any")
    IN  /\ \A more \in SUBSET (BindingKeys \ DOMAIN own) :
              LET f == Table(more)
                  trie == Canonical(f, 0)
                  walk == BindingWalk(trie)
              IN  /\ Range(walk) = {BindingLeaf(k, f[k]) : k \in DOMAIN f}
                  /\ \A i, j \in DOMAIN walk : i < j => walk[i].key < walk[j].key
                  /\ \A k \in BindingKeys :
                        /\ BindingGet(trie, k) =
                              IF k \in DOMAIN f THEN BindingLeaf(k, f[k]) ELSE NoBindings
                        /\ BindingSet(trie, k, entry) = Canonical(With(f, k, entry), 0)
                        /\ BindingDelete(trie, k) = Canonical(Without(f, k), 0)
                        /\ BindingBefore(trie, k) =
                              Canonical([x \in {y \in DOMAIN f : y < k} |-> f[x]], 0)
        /\ \A label \in IF IsList(writer) THEN BindingKeys ELSE Labels :
              LET found == Lookup(writer, Canonical(own, 0), label)
                  held == {b \in writer.bindings : Key(writer, b.label) = Key(writer, label)}
              IN  /\ found.ok <=> \A b \in held : b.label = label
                  /\ found.ok => {found.target} \ {Undef} = {b.target : b \in held}
        /\ \A entries \in SetToSeqs(writer.bindings) : TrieOf(writer, entries) = Canonical(own, 0)
        /\ \A delta \in Deltas(writer) :
              Valid(writer, delta) =>
                  \A changes \in SetToSeqs(delta.changes) :
                      Rebound(writer, Canonical(own, 0), NewCount(writer, delta), changes)
                          = Canonical(Keyed(NewBindings(writer, delta)), 0)

\* Update goes to any complete state in one delta: its Writer is the one a fresh
\* build of the state gives (Writer.Update).
UpdateReaches ==
    \A state \in States :
        Updatable(writer, state) =>
            /\ Accepted(writer, DeltaTo(writer, state))
            /\ NewWriter(writer, DeltaTo(writer, state)) = BuildWriter(state)
=============================================================================
