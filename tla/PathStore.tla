------------------------------ MODULE PathStore ------------------------------
(***************************************************************************)
(* The reference materializer of paths (auth/arcset/materializer/memory)   *)
(* and the adapter that keeps tree nodes in it (encoded).  One scope: the  *)
(* store keeps scopes apart, and an absent one reads as an empty one.      *)
(* Every call holds the lock, but BatchGet takes it for each path anew, so *)
(* that a batch is read while others write.                                *)
(*                                                                         *)
(* Callers materialize a Root with the difference between its arcs and     *)
(* those of the Root they name as its base, and without branching they     *)
(* name the latest one.                                                    *)
(***************************************************************************)
EXTENDS Naturals, Sequences

CONSTANTS
    Roots, Paths,  \* application Roots and the paths of their arcs
    Contents,      \* the arcs of each Root
    Refs, Slots,   \* references of tree nodes, and the slots of a node
    Vector,        \* the cells of each node, Undef where empty
    Width,         \* the carrier of the width marker
    Owners,        \* other owners of unversioned entries
    OwnedPaths,    \* the paths of such entries
    LooseDeltas,   \* changes of entries without Root and owner
    Targets,       \* targets of all these paths
    Readers,       \* callers of BatchGet
    Queries,       \* sequences of application paths that they may ask for
    Undef          \* cid.Undef, and no entry

NodePath(ref, i) == <<ref, i>>
NodePaths == {NodePath(ref, i) : ref \in Refs, i \in 0..Slots}
Maps(S, T) == UNION {[D -> T] : D \in SUBSET S}

LoosePaths == UNION {DOMAIN delta : delta \in LooseDeltas}

ASSUME PathsAssumption ==
    /\ Slots \in Nat
    /\ Contents \in [Roots -> Maps(Paths, Targets)]
    /\ Vector \in [Refs -> [1..Slots -> Targets \cup {Undef}]]
    /\ Queries \subseteq Seq(Paths)
    /\ Undef \notin Targets \cup {Width} \cup Roots \cup Refs \cup Owners
    /\ Roots \cap Refs = {} /\ Refs \cap Owners = {}
    /\ LooseDeltas \subseteq Maps(LoosePaths, Targets \cup {Undef})
    /\ NodePaths \cap (Paths \cup OwnedPaths \cup LoosePaths) = {}
    /\ OwnedPaths \cap Paths = {}

VARIABLES
    branching,  \* Store.branching
    rooted,     \* whether the adapter's updater has UpdateNode
    current,    \* scopeState.current: unversioned entries, or the latest Root's
    nodes,      \* scopeState.nodes: entries of owners
    owners,     \* scopeState.nodeOwners
    roots,      \* scopeState.roots: the snapshot of each Root
    batch,      \* of each reader: the latest BatchGet
    actor       \* auxiliary: the owner whose UpdateNode was the latest step

storeVars == <<current, nodes, owners, roots>>
vars == <<branching, rooted, storeVars, batch, actor>>

NoMap == [p \in {} |-> Undef]
NoBatch == [asked |-> Undef, known |-> FALSE, query |-> <<>>, at |-> 1, found |-> NoMap]

Init ==
    /\ branching \in BOOLEAN /\ rooted \in BOOLEAN
    /\ current = NoMap /\ nodes = NoMap /\ owners = NoMap /\ roots = NoMap
    /\ batch = [x \in Readers |-> NoBatch]
    /\ actor = Undef

-----------------------------------------------------------------------------
\* What f shows at a path.
At(f, path) == IF path \in DOMAIN f THEN f[path] ELSE Undef

Defined(delta) == {p \in DOMAIN delta : delta[p] # Undef}

\* apply; an undefined target deletes.
Applied(f, delta) ==
    [p \in (DOMAIN f \ DOMAIN delta) \cup Defined(delta) |->
        IF p \in DOMAIN delta THEN delta[p] ELSE f[p]]

\* What a caller sends to make new from old.
Arcs(root) == IF root = Undef THEN NoMap ELSE Contents[root]
Changes(old, new) ==
    [p \in {x \in Paths : At(Arcs(old), x) # At(Contents[new], x)} |-> At(Contents[new], p)]

Base(old) ==
    IF branching /\ old # Undef THEN Applied(roots[old], current) ELSE current

\* Faulty: the snapshot of the base is changed in place.
MaterializedInPlace(new, old, arcs) ==
    [r \in DOMAIN roots \cup {new} |-> IF r \in {new, old} THEN arcs ELSE roots[r]]

\* Materialized: the snapshots after an Update of new to arcs.
Materialized(new, old, arcs) ==
    [r \in (IF branching THEN DOMAIN roots ELSE {}) \cup {new} |->
        IF r = new THEN arcs ELSE roots[r]]

\* A base that is not there is refused (ErrNotFound), with branching; without,
\* callers go on from the latest Root.
Update(new, old) ==
    /\ old # Undef => old \in DOMAIN roots
    /\ ~branching /\ old = Undef => roots = NoMap
    /\ LET arcs == Applied(Base(old), Changes(old, new))
       IN  /\ roots' = Materialized(new, old, arcs)
           /\ current' = IF branching THEN current ELSE arcs
    /\ actor' = Undef
    /\ UNCHANGED <<branching, rooted, nodes, owners, batch>>

\* Update without a new Root.
UpdateCurrent(delta) ==
    /\ current' = Applied(current, delta)
    /\ actor' = Undef
    /\ UNCHANGED <<branching, rooted, nodes, owners, roots, batch>>

Owned(owner, path) == path \in DOMAIN owners /\ owners[path] = owner

\* Faulty: anyone may delete.
DeletableByAnyone(owner, delta) == {p \in DOMAIN delta \cap DOMAIN owners : delta[p] = Undef}

Deletable(owner, delta) == {p \in DOMAIN delta : delta[p] = Undef /\ Owned(owner, p)}

UpdateNode(owner, delta) ==
    /\ \A p \in Defined(delta) : p \in DOMAIN owners => Owned(owner, p)
    /\ LET kept == DOMAIN nodes \ Deletable(owner, delta)
       IN  /\ nodes' = [p \in kept \cup Defined(delta) |->
                           IF p \in Defined(delta) THEN delta[p] ELSE nodes[p]]
           /\ owners' = [p \in kept \cup Defined(delta) |->
                            IF p \in Defined(delta) THEN owner ELSE owners[p]]
    /\ actor' = owner
    /\ UNCHANGED <<branching, rooted, current, roots, batch>>

-----------------------------------------------------------------------------
(* The adapter of encoded: a node is a width marker and its non-empty cells. *)

NodeArcs(ref) ==
    [p \in {NodePath(ref, 0)} \cup {NodePath(ref, i) : i \in {j \in 1..Slots : Vector[ref][j] # Undef}} |->
        IF p[2] = 0 THEN Width ELSE Vector[ref][p[2]]]

\* Nodes.PutNode; the owner of a node is its own reference.
PutNode(ref) ==
    IF rooted THEN UpdateNode(ref, NodeArcs(ref)) ELSE UpdateCurrent(NodeArcs(ref))

\* Faulty: the width marker is read last.
WidthLast(ref) == [i \in 1..(Slots + 1) |-> NodePath(ref, IF i = Slots + 1 THEN 0 ELSE i)]

\* Paths of encoded: the width marker comes first.
NodeQuery(ref) == [i \in 1..(Slots + 1) |-> NodePath(ref, i - 1)]

-----------------------------------------------------------------------------
(* Reads.                                                                   *)

View(root) == IF root # Undef /\ branching THEN roots[root] ELSE current

Get(root, path) ==
    IF root # Undef /\ root \notin DOMAIN roots THEN Undef
    ELSE IF path \in DOMAIN View(root) THEN View(root)[path]
    ELSE IF path \in DOMAIN current THEN current[path]
    ELSE At(nodes, path)

Stored(ref) == Get(Undef, NodePath(ref, 0)) # Undef

Finished(x) == batch[x].at \notin DOMAIN batch[x].query

\* A batch at a Root, or the one Nodes.GetNode sends for a reference.
Ask(x, asked, known, query) ==
    /\ Finished(x)
    /\ batch' = [batch EXCEPT ![x] =
           [asked |-> asked, known |-> known, query |-> query, at |-> 1, found |-> NoMap]]
    /\ actor' = Undef
    /\ UNCHANGED <<branching, rooted, storeVars>>

AskRoot(x, root, query) == Ask(x, root, root \in DOMAIN roots, query)
AskNode(x, ref) == Ask(x, ref, Stored(ref), NodeQuery(ref))

\* What a batch has after a Get; an absent path is left out.
Found(found, path, target) ==
    IF target = Undef THEN found ELSE Applied(found, [p \in {path} |-> target])

\* One Get of a BatchGet.
Read(x) ==
    /\ ~Finished(x)
    /\ LET b      == batch[x]
           path   == b.query[b.at]
           target == Get(IF b.asked \in Roots THEN b.asked ELSE Undef, path)
       IN  batch' = [batch EXCEPT ![x] =
                        [asked |-> b.asked, known |-> b.known, query |-> b.query,
                         at |-> b.at + 1, found |-> Found(b.found, path, target)]]
    /\ actor' = Undef
    /\ UNCHANGED <<branching, rooted, storeVars>>

Next ==
    \/ \E new \in Roots, old \in Roots \cup {Undef} : Update(new, old)
    \/ \E owner \in Owners, delta \in Maps(OwnedPaths, Targets \cup {Undef}) : UpdateNode(owner, delta)
    \/ \E delta \in LooseDeltas : UpdateCurrent(delta)
    \/ \E ref \in Refs : PutNode(ref)
    \/ \E x \in Readers, root \in Roots, query \in Queries : AskRoot(x, root, query)
    \/ \E x \in Readers, ref \in Refs : AskNode(x, ref)
    \/ \E x \in Readers : Read(x)

Spec == Init /\ [][Next]_vars

-----------------------------------------------------------------------------
(* Properties.                                                              *)

\* A materialized Root shows its own arcs, in a Snapshot and to Get, whatever
\* was materialized on top of it, before it or beside it (Update clones; Get
\* prefers the snapshot), as long as entries without Root have other paths.
RootsShowContents ==
    \A r \in DOMAIN roots : \A p \in Paths :
        /\ At(View(r), p) = At(Contents[r], p)
        /\ Get(r, p) = At(Contents[r], p)

\* What a Root shows never changes, at least with branching ("Update materializes
\* a new immutable ArcSet root").  It does if an entry without Root has a path of
\* an arc: Get falls back to such entries where the snapshot has none.
RootsNeverChange ==
    [][branching => \A r \in DOMAIN roots, p \in Paths : Get(r, p)' = Get(r, p)]_vars

\* Although BatchGet does not hold the lock, nobody reads half a node: a missing
\* slot is never taken for an empty one (the marker is read first); and a batch at
\* a Root that was there when it began is all of it, with branching.
BatchesAreWhole ==
    \A x \in Readers : Finished(x) =>
        LET b == batch[x]
            marker == NodePath(b.asked, 0)
        IN  /\ b.asked \in Refs =>
                  /\ b.known => marker \in DOMAIN b.found
                  /\ marker \in DOMAIN b.found => \A i \in 1..Slots :
                         At(b.found, NodePath(b.asked, i)) = Vector[b.asked][i]
            /\ b.asked \in Roots /\ b.known /\ branching => \A i \in DOMAIN b.query :
                  At(b.found, b.query[i]) = At(Contents[b.asked], b.query[i])

\* "A different owner cannot overwrite or remove those entries" (UpdateNode).
OwnersKeepNodes ==
    [][\A p \in DOMAIN nodes :
          \/ p \in DOMAIN nodes' /\ nodes'[p] = nodes[p] /\ owners'[p] = owners[p]
          \/ actor' = owners[p]]_vars
=============================================================================
