----------------------------- MODULE TreeEdits -----------------------------
(***************************************************************************)
(* Concurrent writers over one store of immutable nodes.  Each one commits *)
(* a new ArcSet, updates a published Root or copies a candidate it was     *)
(* given (Engine.Commit, the edits of auth/tree, Materialize of            *)
(* sdk/authentication).  An edit reads the base and computes first and     *)
(* then writes its nodes one by one (finish); the context may be canceled, *)
(* or the store fail, before any write, and what was written stays.  Only  *)
(* an operation that wrote everything returns its Root.                    *)
(*                                                                         *)
(* Nodes are never removed, so that the reads of one edit, spread over     *)
(* time in the code, find what one read at its end finds.                  *)
(***************************************************************************)
EXTENDS ListTree

CONSTANTS
    Editors,    \* goroutines with an operation on the store
    Maps,       \* the sets of bindings they may commit or be given
    Lists,      \* the sequences of targets they may commit or be given
    Batches,    \* the batches of changes they may apply to a Map
    Appends,    \* the batches of targets they may append to a List
    Exchanges,  \* the sets of replacements they may apply to a List
    Payloads,   \* the payloads they may give a List
    NoRoot,     \* no operation is in progress
    MaxOps      \* bound: operations

VARIABLES
    store,      \* the nodes that can be loaded
    roots,      \* the Roots that operations returned
    writing,    \* the nodes each editor has still to write
    result,     \* the Root each editor is about to return
    ops         \* number of operations begun

vars == <<store, roots, writing, result, ops>>

IsList(root) == root[0].kind = "meta"
MapRoots == {r \in roots : ~IsList(r)}
ListRoots == {r \in roots : IsList(r)}

Init ==
    /\ store = {} /\ roots = {}
    /\ writing = [e \in Editors |-> <<>>]
    /\ result = [e \in Editors |-> NoRoot]
    /\ ops = 0

\* Faulty: a node below one that is in the store is taken to be there too.
WritesOfDeduplicated(op) ==
    SelectSeq(op.puts, LAMBDA n : \A p \in store : n \notin ChildNodes(p))

WritesOf(op) == op.puts

\* An accepted operation has computed everything it will write.
Begin(e, op) ==
    /\ result[e] = NoRoot /\ ops < MaxOps
    /\ op.ok
    /\ writing' = [writing EXCEPT ![e] = WritesOf(op)]
    /\ result' = [result EXCEPT ![e] = op.node]
    /\ ops' = ops + 1
    /\ UNCHANGED <<store, roots>>

CommitNew(e) ==
    \/ \E items \in Maps : Begin(e, CommitMap(items))
    \/ \E items \in Lists : Begin(e, CommitList(items, Undef))

Apply(e) == \E r \in MapRoots, batch \in Batches : Begin(e, ApplyMap(store, r, batch))

Extend(e) == \E r \in ListRoots, targets \in Appends : Begin(e, AppendBatch(store, r, targets))

Exchange(e) == \E r \in ListRoots, changes \in Exchanges : Begin(e, ApplyList(store, r, changes))

ChangePayload(e) == \E r \in ListRoots, p \in Payloads : Begin(e, SetPayload(store, r, p))

Shorten(e) == \E r \in ListRoots : \E n \in 0..r[0].count : Begin(e, Truncate(store, r, n))

\* The order of the nodes of a candidate is whatever it came with.
Orders(S) == {f \in [1..Cardinality(S) -> S] : \A i, j \in DOMAIN f : f[i] = f[j] => i = j}

Materialize(e) ==
    \E built \in {CommitMap(items) : items \in Maps} \cup {CommitList(items, Undef) : items \in Lists} :
        \E order \in Orders(ToSet(built.puts)) : Begin(e, [built EXCEPT !.puts = order])

PutNode(e) ==
    /\ writing[e] # <<>>
    /\ store' = store \cup {Head(writing[e])}
    /\ writing' = [writing EXCEPT ![e] = Tail(@)]
    /\ UNCHANGED <<roots, result, ops>>

\* Canceled, or refused by the store: no Root is returned, nothing is undone.
Fail(e) ==
    /\ writing[e] # <<>>
    /\ writing' = [writing EXCEPT ![e] = <<>>]
    /\ result' = [result EXCEPT ![e] = NoRoot]
    /\ UNCHANGED <<store, roots, ops>>

Finish(e) ==
    /\ result[e] # NoRoot /\ writing[e] = <<>>
    /\ roots' = roots \cup {result[e]}
    /\ result' = [result EXCEPT ![e] = NoRoot]
    /\ UNCHANGED <<store, writing, ops>>

Next ==
    \E e \in Editors :
        \/ CommitNew(e) \/ Apply(e) \/ Extend(e) \/ Shorten(e) \/ Exchange(e)
        \/ ChangePayload(e) \/ Materialize(e)
        \/ PutNode(e) \/ Fail(e) \/ Finish(e)

Spec == Init /\ [][Next]_vars

-----------------------------------------------------------------------------
\* The nodes that can be loaded with everything below them: a node whose child is
\* missing is ruled out, and so are the nodes above it, one after the other.
WithChildren(nodes) == {node \in nodes : ChildNodes(node) \subseteq nodes}

Complete ==
    LET complete[n \in 0..Cardinality(store)] ==
            IF n = 0 THEN store ELSE WithChildren(complete[n - 1])
    IN  complete[Cardinality(store)]

\* Every returned Root can be loaded to its last node, whatever other writers
\* left half-written, and however many Roots share the nodes.
RootsLoadable == roots \subseteq Complete
=============================================================================
