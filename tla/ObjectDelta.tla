---------------------------- MODULE ObjectDelta ----------------------------
(***************************************************************************)
(* The difference of the last two graphs of a history (Delta of            *)
(* sdk/object), its export as candidates and the validation of the batch   *)
(* they make up (protocol).  Snapshots and Roots are those of              *)
(* ObjectCommit; a Writer knows the bindings its Root commits to, a List's *)
(* payload is beside its bindings.  A Root contains the Roots it refers    *)
(* to, so the cycle that diffSnapshots guards against cannot occur.        *)
(***************************************************************************)
EXTENDS ObjectCommit, SequencesExt

CONSTANTS
    Contents,         \* CIDs that are not Roots
    MaxBatchObjects   \* MaxAuthenticationBatchObjects

-----------------------------------------------------------------------------
(* indexSnapshots.                                                          *)

\* The snapshots of a graph in the order in which the stack yields them.
RECURSIVE Visits(_, _)
Visits(pending, seen) ==
    LET n == Last(pending)
        rest == Front(pending)
    IN  IF pending = <<>> THEN <<>>
        ELSE IF n \in seen THEN Visits(rest, seen)
        ELSE <<n>> \o Visits(rest \o n.children, seen \cup {n})

Index(root) == IF root = NoSnapshot THEN <<>> ELSE Visits(<<root>>, {})

Has(index, root) == \E i \in DOMAIN index : index[i].root = root

IsLocal(n) == n.local # "none"

\* The last local vertex of a CID, or else the first reference to it.
ByCID(index, root) ==
    LET those == SelectSeq(index, LAMBDA n : n.root = root)
        locals == SelectSeq(those, IsLocal)
    IN  IF locals = <<>> THEN those[1] ELSE Last(locals)

\* The writer a vertex had, if any.
ById(index, id) == SelectSeq(index, LAMBDA n : n.id = id /\ n.local = "writer")

-----------------------------------------------------------------------------
(* diffSnapshots.                                                           *)

\* A reference by CID is resolved against all locally known vertices.
ResolvedIn(index, n) == ByCID(index, n.root)

\* The vertices from n on, children first, each CID once, behind those found.
RECURSIVE Visited(_, _, _)
Visited(index, found, n) ==
    IF Has(found, n.root) THEN found
    ELSE LET vertex == ResolvedIn(index, n)
         IN  Append(FoldLeft(LAMBDA done_, child : Visited(index, done_, child),
                             found, vertex.children),
                    vertex)

TargetOf(arcs, label) ==
    LET bound == {a \in arcs : a[1] = label}
    IN  IF bound = {} THEN Undef ELSE (CHOOSE a \in bound : TRUE)[2]

\* diffEntries: additions, replacements and removals of labels.
DiffEntries(old, new) ==
    LET changed == {l \in {a[1] : a \in old \cup new} : TargetOf(old, l) # TargetOf(new, l)}
    IN  {[label |-> l, before |-> TargetOf(old, l), after |-> TargetOf(new, l)] : l \in changed}

\* Faulty: from the version before the last Commit of the vertex itself.
ArcSetDeltaOfHistory(old, n) ==
    LET own == {h \in Histories : IdOf[h] = n.id /\ before[h] # NoSnapshot}
        base == {before[h] : h \in own}
    IN  [before  |-> IF base = {} THEN Undef ELSE (CHOOSE b \in base : TRUE).root,
         after   |-> n.root,
         changes |-> DiffEntries(IF base = {} THEN {} ELSE (CHOOSE b \in base : TRUE).root.arcs, n.root.arcs)]

\* From the version the vertex had in the old graph.
ArcSetDelta(old, n) ==
    LET base == ById(old, n.id) IN
    [before  |-> IF base = <<>> THEN Undef ELSE Last(base).root,
     after   |-> n.root,
     changes |-> DiffEntries(IF base = <<>> THEN {} ELSE Last(base).root.arcs, n.root.arcs)]

Diff(old, next, root) ==
    LET order == Visited(next, <<>>, root)
        new == SelectSeq(order, LAMBDA n : n.local = "writer" /\ ~Has(old, n.root))
        roots == {r \in {next[i].root : i \in DOMAIN next} : ~Has(old, r)}
    IN  [arcSets  |-> [i \in DOMAIN new |-> ArcSetDelta(old, new[i])],
         blocks   |-> {r \in roots : ByCID(next, r).local = "block"},
         external |-> {r \in roots : ByCID(next, r).local = "none"}]

DiffSnapshots(old, new) ==
    IF old # NoSnapshot /\ old.root = new.root
    THEN [arcSets |-> <<>>, blocks |-> {}, external |-> {}]
    ELSE Diff(Index(old), Index(new), new)

-----------------------------------------------------------------------------
(* Export and the batch of all candidates.                                  *)

IsRoot(r) == r \notin Contents \cup {Undef}

Export(arcSet) ==
    [root     |-> arcSet.after,
     previous |-> arcSet.before,
     targets  |-> {a[2] : a \in arcSet.after.arcs},
     payload  |-> arcSet.after.payload]

Candidates(delta) == [i \in DOMAIN delta.arcSets |-> Export(delta.arcSets[i])]

\* AuthenticationCandidate.Validate.
ValidCandidate(c) ==
    /\ IsRoot(c.root) /\ (c.previous = Undef \/ IsRoot(c.previous))
    /\ Undef \notin c.targets

\* Faulty: the order among the candidates is not checked.
PrecedesAnyhow(batch, root, i) == TRUE

\* If a candidate of the batch has the Root, it is one before the i-th.
Precedes(batch, root, i) ==
    \A j \in DOMAIN batch : batch[j].root = root => j < i

\* AuthenticationBatch.Validate.
ValidBatch(base, root, batch) ==
    /\ IsRoot(base) /\ IsRoot(root)
    /\ batch # <<>> /\ Len(batch) <= MaxBatchObjects
    /\ \A i \in DOMAIN batch : ValidCandidate(batch[i])
    /\ \A i, j \in DOMAIN batch : batch[i].root = batch[j].root => i = j
    /\ Last(batch).root = root
    /\ \A i \in DOMAIN batch :
           \A r \in {batch[i].previous, batch[i].payload} \cup batch[i].targets :
               Precedes(batch, r, i)

-----------------------------------------------------------------------------
(* Properties.                                                              *)

\* Reference: all snapshots of a graph.
RECURSIVE Below(_)
Below(n) == {n} \cup UNION {Below(n.children[i]) : i \in DOMAIN n.children}

Graph(n) == IF n = NoSnapshot THEN {} ELSE Below(n)
RootsOf(graph) == {n.root : n \in graph}

Patched(arcs, changes) ==
    {a \in arcs : \A c \in changes : c.label # a[1]}
        \cup {<<c.label, c.after>> : c \in {x \in changes : x.after # Undef}}

\* A Delta holds what the new graph has and the old one has not, once each: every
\* new ArcSet as changes that turn a version of the same vertex in the old graph
\* into the new one, even if the vertex was committed on its own in between or
\* shares its CID with another one, every content that is known locally, however
\* else it is referred to, and all other new references (diffSnapshots).
DeltaIsExact ==
    Succeeded => \A h \in {x \in Histories : after[x] # NoSnapshot} :
        LET delta == DiffSnapshots(before[h], after[h])
            old == Graph(before[h])
            new == Graph(after[h])
            Locals(kind) == RootsOf({n \in new : n.local = kind})
            fresh == RootsOf(new) \ RootsOf(old)
            sets == delta.arcSets
        IN  /\ {sets[i].after : i \in DOMAIN sets} = Locals("writer") \cap fresh
            /\ Cardinality({sets[i].after : i \in DOMAIN sets}) = Len(sets)
            /\ \A i \in DOMAIN sets :
                  /\ Patched(IF sets[i].before = Undef THEN {} ELSE sets[i].before.arcs,
                             sets[i].changes) = sets[i].after.arcs
                  /\ \E n \in new : /\ n.local = "writer" /\ n.root = sets[i].after
                                    /\ RootsOf({o \in old : o.id = n.id})
                                           = {sets[i].before} \ {Undef}
            /\ delta.blocks = Locals("block") \cap fresh
            /\ delta.external = fresh \ (Locals("block") \cup Locals("writer"))

Dependent(x, y) == y.root \in x.targets \cup {x.payload, x.previous}

\* The candidates of a Delta in its order are a batch that validates, and the
\* validation is what keeps them in order: any two neighbours may be exchanged if
\* and only if neither refers to the other (Validate).
DeltasSubmit ==
    Succeeded => \A h \in {x \in Histories : after[x] # NoSnapshot} :
        LET batch == Candidates(DiffSnapshots(before[h], after[h]))
            root == after[h].root
            base == IF before[h] = NoSnapshot THEN root ELSE before[h].root
            Exchanged(i) == [batch EXCEPT ![i] = batch[i + 1], ![i + 1] = batch[i]]
        IN  (IsRoot(root) /\ root \notin RootsOf(Graph(before[h]))) =>
                /\ ValidBatch(base, root, batch)
                /\ \A i \in 1..(Len(batch) - 1) :
                       ValidBatch(base, root, Exchanged(i)) <=>
                           ~Dependent(batch[i + 1], batch[i]) /\ i + 1 < Len(batch)
=============================================================================
