-------------------------- MODULE PathStore_proofs --------------------------
(***************************************************************************)
(* What a Root shows, who may change an owned entry, and what a batch that *)
(* is read path by path amounts to, for every set of Roots, nodes, owners  *)
(* and readers.                                                            *)
(***************************************************************************)
EXTENDS PathStore, TLAPS

\* Entries without Root have paths that no arc has.
Apart == LoosePaths \cap Paths = {}

OwnersInv == DOMAIN owners = DOMAIN nodes

\* What is known of the arcs of Roots.
Shows(f, root) == \A p \in Paths : At(f, p) = At(Arcs(root), p)

RootsInv ==
    /\ DOMAIN roots \subseteq Roots
    /\ DOMAIN nodes \cap Paths = {}
    /\ branching => /\ DOMAIN current \cap Paths = {}
                    /\ \A r \in DOMAIN roots : Shows(roots[r], r)
    /\ ~branching => /\ roots = NoMap => DOMAIN current \cap Paths = {}
                     /\ \A r \in DOMAIN roots : Shows(current, r)

-----------------------------------------------------------------------------
(* Operators.                                                               *)

\* apply sets what the change defines, deletes what it does not, and leaves the
\* other paths alone.
LEMMA AtApplied ==
    ASSUME NEW f, NEW delta, NEW p
    PROVE  At(Applied(f, delta), p) = IF p \in DOMAIN delta THEN delta[p] ELSE At(f, p)
BY DEF At, Applied, Defined

\* A difference makes the arcs of its new Root from those of its base.
LEMMA ChangesLead ==
    ASSUME NEW f, NEW old, NEW new \in Roots, Shows(f, old)
    PROVE  Shows(Applied(f, Changes(old, new)), new)
<1>1. Arcs(new) = Contents[new]
  BY PathsAssumption DEF Arcs
<1>2. SUFFICES ASSUME NEW p \in Paths
               PROVE  At(Applied(f, Changes(old, new)), p) = At(Contents[new], p)
  BY <1>1 DEF Shows
<1>3. CASE p \in DOMAIN Changes(old, new)
  <2>1. Changes(old, new)[p] = At(Contents[new], p)
    BY <1>3 DEF Changes
  <2>2. QED
    BY <1>3, <2>1, AtApplied
<1>4. CASE p \notin DOMAIN Changes(old, new)
  <2>1. At(Arcs(old), p) = At(Contents[new], p)
    BY <1>4 DEF Changes
  <2>2. At(f, p) = At(Arcs(old), p)
    BY DEF Shows
  <2>3. QED
    BY <1>4, <2>1, <2>2, AtApplied
<1>5. QED
  BY <1>3, <1>4

\* What UpdateNode makes of the entries of owners.
LEMMA AtUpdateNode ==
    ASSUME NEW owner, NEW delta, NEW p, UpdateNode(owner, delta)
    PROVE  At(nodes', p) = IF p \in Defined(delta) THEN delta[p]
                           ELSE IF p \in Deletable(owner, delta) THEN Undef
                           ELSE At(nodes, p)
BY DEF UpdateNode, At, Deletable, Defined

\* The paths of a difference are those of arcs.
LEMMA ChangesDomain == \A old, new : DOMAIN Changes(old, new) \subseteq Paths
BY DEF Changes

\* The arcs of a node are at paths of the node (PutNode).
LEMMA NodeArcsDomain ==
    \A ref \in Refs : DOMAIN NodeArcs(ref) \subseteq NodePaths
BY PathsAssumption DEF NodeArcs, NodePaths

\* A difference adds no paths but its own (apply).
LEMMA AppliedDomain ==
    \A f, delta : DOMAIN Applied(f, delta) \subseteq DOMAIN f \cup DOMAIN delta
BY DEF Applied, Defined

-----------------------------------------------------------------------------
(* Owners.                                                                  *)

\* Nobody owns a path at first (Store).
LEMMA OwnersInit == Init => OwnersInv
BY DEF Init, OwnersInv, NoMap

\* Entries and owners come and go together.
LEMMA OwnersNext == OwnersInv /\ [Next]_vars => OwnersInv'
<1> SUFFICES ASSUME OwnersInv, [Next]_vars PROVE OwnersInv'
  OBVIOUS
<1>1. ASSUME NEW owner, NEW delta, UpdateNode(owner, delta) PROVE OwnersInv'
  BY <1>1 DEF UpdateNode, OwnersInv
<1>2. CASE nodes' = nodes /\ owners' = owners
  BY <1>2 DEF OwnersInv
<1>3. ASSUME NEW ref \in Refs, PutNode(ref) PROVE OwnersInv'
  BY <1>1, <1>2, <1>3 DEF PutNode, UpdateCurrent
<1>4. QED
  BY <1>1, <1>2, <1>3 DEF Next, vars, storeVars, Update, UpdateCurrent, AskRoot, AskNode, Ask, Read

\* A different owner neither overwrites nor removes an entry (UpdateNode).
THEOREM OwnersKeep == Spec => OwnersKeepNodes
<1> DEFINE Kept ==
      \A p \in DOMAIN nodes :
          \/ p \in DOMAIN nodes' /\ nodes'[p] = nodes[p] /\ owners'[p] = owners[p]
          \/ actor' = owners[p]
<1>1. ASSUME OwnersInv, NEW owner, NEW delta, UpdateNode(owner, delta) PROVE Kept
  <2> SUFFICES ASSUME NEW p \in DOMAIN nodes,
                      ~(p \in DOMAIN nodes' /\ nodes'[p] = nodes[p] /\ owners'[p] = owners[p])
               PROVE  actor' = owners[p]
    OBVIOUS
  <2>1. actor' = owner
    BY <1>1 DEF UpdateNode
  <2>2. p \in Deletable(owner, delta) \/ p \in Defined(delta)
    BY <1>1 DEF UpdateNode
  <2>3. Owned(owner, p)
    BY <1>1, <2>2 DEF UpdateNode, Deletable, OwnersInv
  <2>4. QED
    BY <2>1, <2>3 DEF Owned
<1>2. ASSUME nodes' = nodes, owners' = owners PROVE Kept
  BY <1>2
<1>3. OwnersInv /\ [Next]_vars => [Kept]_vars
  <2> SUFFICES ASSUME OwnersInv, [Next]_vars PROVE Kept
    OBVIOUS
  <2>1. ASSUME NEW ref \in Refs, PutNode(ref) PROVE Kept
    BY <1>1, <1>2, <2>1 DEF PutNode, UpdateCurrent
  <2>2. QED
    BY <1>1, <1>2, <2>1 DEF Next, vars, storeVars, Update, UpdateCurrent, AskRoot, AskNode, Ask, Read
<1>4. QED
  BY <1>3, OwnersInit, OwnersNext, PTL DEF Spec, OwnersKeepNodes

-----------------------------------------------------------------------------
(* Roots.                                                                   *)

\* The store has no Roots at first (Store).
LEMMA RootsInit == Init => RootsInv
<1> SUFFICES ASSUME Init PROVE RootsInv
  OBVIOUS
<1>1. DOMAIN NoMap = {}
  BY DEF NoMap
<1>2. QED
  BY <1>1 DEF Init, RootsInv

\* Update shows the arcs of its Root, and leaves the other snapshots as they were.
LEMMA RootsUpdate ==
    ASSUME RootsInv, NEW new \in Roots, NEW old \in Roots \cup {Undef}, Update(new, old)
    PROVE  RootsInv'
<1> DEFINE arcs == Applied(Base(old), Changes(old, new))
<1>1. /\ roots' = Materialized(new, old, arcs)
      /\ current' = IF branching THEN current ELSE arcs
      /\ nodes' = nodes /\ branching' = branching
  BY DEF Update
<1>2. Shows(Base(old), old)
  <2>1. CASE branching /\ old # Undef
    <3>1. Base(old) = Applied(roots[old], current)
      BY <2>1 DEF Base
    <3>2. old \in DOMAIN roots /\ Shows(roots[old], old) /\ DOMAIN current \cap Paths = {}
      BY <2>1 DEF Update, RootsInv
    <3>3. \A p \in Paths : At(Applied(roots[old], current), p) = At(roots[old], p)
      BY <3>2, AtApplied
    <3>4. QED
      BY <3>1, <3>2, <3>3 DEF Shows
  <2>2. CASE old = Undef
    <3>1. Base(old) = current
      BY <2>2 DEF Base
    <3>2. DOMAIN current \cap Paths = {}
      BY <2>2 DEF Update, RootsInv
    <3>3. \A p \in Paths : At(current, p) = Undef /\ At(Arcs(old), p) = Undef
      BY <2>2, <3>2 DEF At, Arcs, NoMap
    <3>4. QED
      BY <3>1, <3>3 DEF Shows
  <2>3. CASE ~branching /\ old # Undef
    <3>1. Base(old) = current
      BY <2>3 DEF Base
    <3>2. QED
      BY <2>3, <3>1 DEF Update, RootsInv
  <2>4. QED
    BY <2>1, <2>2, <2>3
<1>3. Shows(arcs, new)
  BY <1>2, ChangesLead
<1>4. /\ DOMAIN roots' = (IF branching THEN DOMAIN roots ELSE {}) \cup {new}
      /\ roots'[new] = arcs
      /\ branching => \A r \in DOMAIN roots : r # new => roots'[r] = roots[r]
  BY <1>1 DEF Materialized
<1>5. roots' # NoMap
  BY <1>4 DEF NoMap
<1> HIDE DEF arcs
<1>6. CASE branching
  <2>1. current' = current /\ branching'
    BY <1>1, <1>6
  <2>2. \A r \in DOMAIN roots' : Shows(roots'[r], r)
    BY <1>3, <1>4, <1>6 DEF RootsInv
  <2>3. QED
    BY <1>1, <1>4, <1>6, <2>1, <2>2 DEF RootsInv, Shows
<1>7. CASE ~branching
  <2>1. current' = arcs /\ DOMAIN roots' = {new} /\ ~branching'
    BY <1>1, <1>4, <1>7
  <2>2. QED
    BY <1>1, <1>3, <1>5, <2>1 DEF RootsInv, Shows
<1>8. QED
  BY <1>6, <1>7 DEF RootsInv

\* Entries on other paths change nothing that a Root shows.
LEMMA RootsCurrent ==
    ASSUME RootsInv, NEW delta, DOMAIN delta \cap Paths = {}, UpdateCurrent(delta)
    PROVE  RootsInv'
<1>1. /\ current' = Applied(current, delta)
      /\ roots' = roots /\ nodes' = nodes /\ branching' = branching
  BY DEF UpdateCurrent
<1>2. \A p \in Paths : At(current', p) = At(current, p)
  BY <1>1, AtApplied
<1>3. DOMAIN current' \subseteq DOMAIN current \cup DOMAIN delta
  BY <1>1, AppliedDomain
<1>4. QED
  BY <1>1, <1>2, <1>3 DEF RootsInv, Shows

\* What an owner writes beside the application paths leaves the Roots (Update).
LEMMA RootsOwned ==
    ASSUME RootsInv, NEW owner, NEW delta, DOMAIN delta \cap Paths = {}, UpdateNode(owner, delta)
    PROVE  RootsInv'
<1>1. current' = current /\ roots' = roots /\ branching' = branching
  BY DEF UpdateNode
<1>2. DOMAIN nodes' \subseteq DOMAIN nodes \cup DOMAIN delta
  BY DEF UpdateNode, Defined
<1>3. QED
  BY <1>1, <1>2 DEF RootsInv, Shows

\* Every step keeps what each Root shows (Update, UpdateNode).
LEMMA RootsNext == Apart /\ RootsInv /\ [Next]_vars => RootsInv'
<1> SUFFICES ASSUME Apart, RootsInv, [Next]_vars PROVE RootsInv'
  OBVIOUS
<1>1. ASSUME NEW owner \in Owners, NEW delta \in Maps(OwnedPaths, Targets \cup {Undef}),
             UpdateNode(owner, delta)
      PROVE  RootsInv'
  <2>1. DOMAIN delta \subseteq OwnedPaths
    BY DEF Maps
  <2>2. QED
    BY <1>1, <2>1, RootsOwned, PathsAssumption
<1>2. ASSUME NEW ref \in Refs, PutNode(ref) PROVE RootsInv'
  <2>1. DOMAIN NodeArcs(ref) \cap Paths = {}
    BY NodeArcsDomain, PathsAssumption
  <2>2. QED
    BY <1>2, <2>1, RootsOwned, RootsCurrent DEF PutNode
<1>3. ASSUME NEW delta \in LooseDeltas, UpdateCurrent(delta) PROVE RootsInv'
  <2>1. DOMAIN delta \subseteq LoosePaths
    BY DEF LoosePaths
  <2>2. QED
    BY <1>3, <2>1, RootsCurrent DEF Apart
<1>4. CASE UNCHANGED <<branching, storeVars>>
  BY <1>4 DEF storeVars, RootsInv, Shows
<1>5. QED
  BY <1>1, <1>2, <1>3, <1>4, RootsUpdate
  DEF Next, vars, storeVars, AskRoot, AskNode, Ask, Read

\* What the invariant says of Get.
LEMMA GetShows ==
    ASSUME RootsInv, NEW r \in DOMAIN roots, NEW p \in Paths
    PROVE  At(View(r), p) = At(Contents[r], p) /\ Get(r, p) = At(Contents[r], p)
<1>1. r \in Roots /\ r # Undef /\ Arcs(r) = Contents[r]
  BY PathsAssumption DEF RootsInv, Arcs
<1>2. At(View(r), p) = At(Contents[r], p)
  BY <1>1 DEF View, RootsInv, Shows
<1>3. At(nodes, p) = Undef
  BY DEF RootsInv, At
<1>4. p \in DOMAIN View(r) \/ p \notin DOMAIN current
  BY <1>1 DEF View, RootsInv
<1>5. QED
  BY <1>1, <1>2, <1>3, <1>4 DEF Get, At

\* Each Root shows its own arcs for ever, if the paths are apart.
LEMMA RootsAlways == Apart => (Spec => []RootsInv)
<1> SUFFICES ASSUME Apart PROVE Spec => []RootsInv
  OBVIOUS
<1>1. RootsInv /\ [Next]_vars => RootsInv'
  BY RootsNext
<1>2. QED
  BY <1>1, RootsInit, PTL DEF Spec

\* Every materialized Root shows its own arcs, if entries without Root keep to
\* paths of their own (Update, Get and Snapshot of the store).
THEOREM RootsShow == Apart => (Spec => []RootsShowContents)
<1> SUFFICES ASSUME Apart PROVE Spec => []RootsShowContents
  OBVIOUS
<1>1. RootsInv => RootsShowContents
  BY GetShows DEF RootsShowContents
<1>2. Spec => []RootsInv
  BY RootsAlways
<1>3. QED
  BY <1>1, <1>2, PTL

\* What a Root shows never changes on those terms ("Update materializes a new immutable
\* ArcSet root"): a path of an unversioned entry is all that Get ever lets through.
THEOREM RootsStay == Apart => (Spec => RootsNeverChange)
<1> SUFFICES ASSUME Apart PROVE Spec => RootsNeverChange
  OBVIOUS
<1> DEFINE Told == \A r \in DOMAIN roots : \A p \in Paths : Get(r, p) = At(Contents[r], p)
           Stay == branching => \A r \in DOMAIN roots, p \in Paths : Get(r, p)' = Get(r, p)
<1>1. RootsInv => Told
  BY GetShows
<1>2. (RootsInv => Told)'
  BY <1>1, PTL
<1>3. [Next]_vars => (branching => DOMAIN roots \subseteq DOMAIN roots')
  BY DEF Next, vars, storeVars, Update, Materialized, UpdateCurrent, UpdateNode, PutNode,
         AskRoot, AskNode, Ask, Read
<1>4. RootsInv /\ RootsInv' /\ [Next]_vars => [Stay]_vars
  <2> SUFFICES ASSUME RootsInv, RootsInv', [Next]_vars, branching,
                      NEW r \in DOMAIN roots, NEW p \in Paths
               PROVE  Get(r, p)' = Get(r, p)
    OBVIOUS
  <2>1. Get(r, p) = At(Contents[r], p)
    BY <1>1
  <2>2. r \in DOMAIN roots'
    BY <1>3
  <2>3. Get(r, p)' = At(Contents[r], p)
    BY <1>2, <2>2
  <2> QED BY <2>1, <2>3
<1>5. Spec => []RootsInv
  BY RootsAlways
<1> QED BY <1>4, <1>5, PTL DEF Spec, RootsNeverChange

-----------------------------------------------------------------------------
(* Nodes.                                                                   *)

Store == IF rooted THEN nodes ELSE current
Other == IF rooted THEN current ELSE nodes

\* What a path of a node shows once the node is stored.
Cell(ref, i) == At(NodeArcs(ref), NodePath(ref, i))

Missing(f, ref) == \A i \in 0..Slots : At(f, NodePath(ref, i)) = Undef
Present(f, ref) == \A i \in 0..Slots : At(f, NodePath(ref, i)) = Cell(ref, i)

NodesInv ==
    /\ DOMAIN Other \cap NodePaths = {}
    /\ \A ref \in Refs : Missing(Store, ref) \/ Present(Store, ref)

\* Of a step: a node that is stored stays.
Stays == \A ref \in Refs : Present(Store, ref) => Present(Store', ref)

\* The marker is always there, and a slot unless it is empty.
LEMMA CellOf ==
    ASSUME NEW ref \in Refs
    PROVE  /\ Cell(ref, 0) = Width
           /\ \A i \in 1..Slots : Cell(ref, i) = Vector[ref][i]
           /\ \A i \in 0..Slots : NodePath(ref, i) \in NodePaths
BY PathsAssumption DEF Cell, At, NodeArcs, NodePath, NodePaths

\* A change of other paths, or of another node, leaves a node as it is.
LEMMA NodeApart ==
    ASSUME NEW ref \in Refs, NEW i \in 0..Slots, NEW other \in Refs, other # ref
    PROVE  NodePath(ref, i) \notin DOMAIN NodeArcs(other)
BY PathsAssumption DEF NodeArcs, NodePath

\* A store that changes on other paths only keeps its nodes.
LEMMA NodesKept ==
    ASSUME NEW f, NEW g, NEW ref \in Refs,
           \A i \in 0..Slots : At(g, NodePath(ref, i)) = At(f, NodePath(ref, i)),
           Missing(f, ref) \/ Present(f, ref)
    PROVE  (Missing(g, ref) \/ Present(g, ref)) /\ (Present(f, ref) => Present(g, ref))
BY DEF Missing, Present

\* No nodes are stored at first (Store).
LEMMA NodesInit == Init => NodesInv
<1>1. DOMAIN NoMap = {} /\ \A path : At(NoMap, path) = Undef
  BY DEF NoMap, At
<1>2. QED
  BY <1>1 DEF Init, NodesInv, Store, Other, Missing

\* Unversioned entries on paths without nodes.
LEMMA NodesOther ==
    ASSUME NodesInv, rooted' = rooted,
           \A path \in NodePaths : At(current', path) = At(current, path),
           \A path \in NodePaths : At(nodes', path) = At(nodes, path),
           (DOMAIN current' \ DOMAIN current) \cap NodePaths = {},
           (DOMAIN nodes' \ DOMAIN nodes) \cap NodePaths = {}
    PROVE  NodesInv' /\ Stays
<1>1. DOMAIN Other' \cap NodePaths = {}
  BY DEF NodesInv, Other
<1>2. ASSUME NEW ref \in Refs
      PROVE  /\ Missing(Store', ref) \/ Present(Store', ref)
             /\ Present(Store, ref) => Present(Store', ref)
  <2>1. \A i \in 0..Slots : At(Store', NodePath(ref, i)) = At(Store, NodePath(ref, i))
    BY CellOf DEF Store
  <2>2. QED
    BY <2>1, NodesKept DEF NodesInv
<1>3. QED
  BY <1>1, <1>2 DEF NodesInv, Missing, Present, Stays

\* A node is written as a whole, where nodes of the adapter are written.
LEMMA NodesPut ==
    ASSUME NodesInv, NEW ref \in Refs, PutNode(ref)
    PROVE  NodesInv' /\ Stays
<1>1. rooted' = rooted
  BY DEF PutNode, UpdateNode, UpdateCurrent
<1>2. \A path : path \in DOMAIN NodeArcs(ref) => NodeArcs(ref)[path] # Undef
  BY PathsAssumption DEF NodeArcs, NodePath
<1>3. Defined(NodeArcs(ref)) = DOMAIN NodeArcs(ref) /\ Deletable(ref, NodeArcs(ref)) = {}
  BY <1>2 DEF Defined, Deletable
<1>4. \A path : At(Store', path) = IF path \in DOMAIN NodeArcs(ref) THEN NodeArcs(ref)[path]
                                  ELSE At(Store, path)
  <2>1. CASE rooted
    BY <1>1, <1>3, <2>1, AtUpdateNode DEF PutNode, Store
  <2>2. CASE ~rooted
    BY <1>1, <2>2, AtApplied DEF PutNode, Store, UpdateCurrent
  <2>3. QED
    BY <2>1, <2>2
<1>5. Other' = Other
  BY <1>1 DEF PutNode, UpdateNode, UpdateCurrent, Other
<1>6. ASSUME NEW r \in Refs
      PROVE  /\ Missing(Store', r) \/ Present(Store', r)
             /\ Present(Store, r) => Present(Store', r)
  <2>1. CASE r = ref
    <3>1. \A i \in 0..Slots : At(Store', NodePath(r, i)) = Cell(r, i)
      <4> SUFFICES ASSUME NEW i \in 0..Slots PROVE At(Store', NodePath(r, i)) = Cell(r, i)
        OBVIOUS
      <4>1. At(Store, NodePath(r, i)) = Undef \/ At(Store, NodePath(r, i)) = Cell(r, i)
        BY DEF NodesInv, Missing, Present
      <4>2. QED
        BY <1>4, <2>1, <4>1 DEF Cell, At
    <3>2. QED
      BY <3>1 DEF Present
  <2>2. CASE r # ref
    BY <1>4, <2>2, NodeApart, NodesKept DEF NodesInv
  <2>3. QED
    BY <2>1, <2>2
<1>7. QED
  BY <1>5, <1>6 DEF NodesInv, Missing, Present, Stays

\* Every step leaves a node missing or whole, and a stored one where it is (PutNode).
LEMMA NodesNext == NodesInv /\ [Next]_vars => NodesInv' /\ Stays
<1> SUFFICES ASSUME NodesInv, [Next]_vars PROVE NodesInv' /\ Stays
  OBVIOUS
<1>1. ASSUME NEW new \in Roots, NEW old \in Roots \cup {Undef}, Update(new, old)
      PROVE  NodesInv' /\ Stays
  <2>1. CASE branching
    BY <1>1, <2>1, NodesOther DEF Update
  <2>2. CASE ~branching
    <3>1. current' = Applied(current, Changes(old, new)) /\ nodes' = nodes /\ rooted' = rooted
      BY <1>1, <2>2 DEF Update, Base
    <3>2. DOMAIN Changes(old, new) \cap NodePaths = {}
      BY ChangesDomain, PathsAssumption
    <3>3. \A path \in NodePaths : At(current', path) = At(current, path)
      BY <3>1, <3>2, AtApplied
    <3>4. (DOMAIN current' \ DOMAIN current) \cap NodePaths = {}
      BY <3>1, <3>2, AppliedDomain
    <3>5. QED
      BY <3>1, <3>3, <3>4, NodesOther
  <2>3. QED
    BY <2>1, <2>2
<1>2. ASSUME NEW owner \in Owners, NEW delta \in Maps(OwnedPaths, Targets \cup {Undef}),
             UpdateNode(owner, delta)
      PROVE  NodesInv' /\ Stays
  <2>1. DOMAIN delta \cap NodePaths = {}
    BY PathsAssumption DEF Maps
  <2>2. \A path \in NodePaths : At(nodes', path) = At(nodes, path)
    BY <1>2, <2>1, AtUpdateNode DEF Defined, Deletable
  <2>3. (DOMAIN nodes' \ DOMAIN nodes) \cap NodePaths = {}
    BY <1>2, <2>1 DEF UpdateNode, Defined
  <2>4. QED
    BY <1>2, <2>2, <2>3, NodesOther DEF UpdateNode
<1>3. ASSUME NEW delta \in LooseDeltas, UpdateCurrent(delta) PROVE NodesInv' /\ Stays
  <2>1. DOMAIN delta \cap NodePaths = {}
    BY PathsAssumption DEF LoosePaths
  <2>2. \A path \in NodePaths : At(current', path) = At(current, path)
    BY <1>3, <2>1, AtApplied DEF UpdateCurrent
  <2>3. (DOMAIN current' \ DOMAIN current) \cap NodePaths = {}
    BY <1>3, <2>1, AppliedDomain DEF UpdateCurrent
  <2>4. QED
    BY <1>3, <2>2, <2>3, NodesOther DEF UpdateCurrent
<1>4. CASE UNCHANGED <<branching, rooted, storeVars>>
  BY <1>4, NodesOther DEF storeVars
<1>5. QED
  BY <1>1, <1>2, <1>3, <1>4, NodesPut DEF Next, vars, storeVars, AskRoot, AskNode, Ask, Read

\* What the invariant says of Get.
LEMMA GetNodes ==
    ASSUME NodesInv, NEW path \in NodePaths
    PROVE  Get(Undef, path) = At(Store, path)
BY DEF NodesInv, Get, View, Store, Other, At

-----------------------------------------------------------------------------
(* Batches.                                                                 *)

BatchType ==
    /\ batch = [x \in Readers |-> batch[x]]
    /\ \A x \in Readers :
          /\ batch[x] = [asked |-> batch[x].asked, known |-> batch[x].known,
                         query |-> batch[x].query, at |-> batch[x].at, found |-> batch[x].found]
          /\ batch[x].at \in Nat \ {0}

\* What a batch for a node has read, the marker first.
NodeBatch(b) ==
    /\ b.query = NodeQuery(b.asked)
    /\ b.known => Present(Store, b.asked)
    /\ DOMAIN b.found \subseteq {NodePath(b.asked, j) : j \in 0..(b.at - 2)}
    /\ b.known /\ b.at > 1 => NodePath(b.asked, 0) \in DOMAIN b.found
    /\ NodePath(b.asked, 0) \in DOMAIN b.found =>
          /\ Present(Store, b.asked)
          /\ \A i \in 0..Slots : i + 1 < b.at => At(b.found, NodePath(b.asked, i)) = Cell(b.asked, i)

\* What a batch at a Root has read.
RootBatch(b) ==
    /\ b.query \in Queries
    /\ b.known =>
          /\ b.asked \in DOMAIN roots
          /\ DOMAIN b.found \subseteq {b.query[j] : j \in {k \in DOMAIN b.query : k < b.at}}
          /\ \A j \in DOMAIN b.query : j < b.at =>
                At(b.found, b.query[j]) = At(Contents[b.asked], b.query[j])

BatchInv ==
    \A x \in Readers :
        /\ batch[x].asked \in Refs => NodeBatch(batch[x])
        /\ batch[x].asked \in Roots /\ branching => RootBatch(batch[x])

IInv == RootsInv /\ NodesInv /\ BatchType /\ BatchInv

\* What was found before is kept, and a path that is there is added.
LEMMA AtFound ==
    ASSUME NEW found, NEW path, NEW target, NEW q
    PROVE  /\ At(Found(found, path, target), q) =
                 IF q = path /\ target # Undef THEN target ELSE At(found, q)
           /\ DOMAIN Found(found, path, target) \subseteq DOMAIN found \cup {path}
           /\ q # path => (q \in DOMAIN Found(found, path, target) <=> q \in DOMAIN found)
           /\ path \notin DOMAIN found =>
                 (path \in DOMAIN Found(found, path, target) <=> target # Undef)
BY DEF Found, Applied, At, Defined

\* No reader has asked for anything at first (BatchGet).
LEMMA BatchInit == Init => BatchType /\ BatchInv
<1> SUFFICES ASSUME Init PROVE BatchType /\ BatchInv
  OBVIOUS
<1>1. \A x \in Readers : batch[x] = NoBatch
  BY DEF Init
<1>2. Undef \notin Refs \cup Roots
  BY PathsAssumption
<1>3. NoBatch = [asked |-> NoBatch.asked, known |-> NoBatch.known,
                 query |-> NoBatch.query, at |-> NoBatch.at, found |-> NoBatch.found]
      /\ NoBatch.at = 1 /\ NoBatch.asked = Undef
  BY DEF NoBatch
<1>4. batch = [x \in Readers |-> batch[x]]
  BY DEF Init
<1>5. QED
  BY <1>1, <1>2, <1>3, <1>4 DEF BatchType, BatchInv

\* A step that reads nothing disturbs no batch: nodes and snapshots stay.
LEMMA BatchKept ==
    ASSUME IInv, UNCHANGED <<batch, branching>>, Stays,
           branching => DOMAIN roots \subseteq DOMAIN roots'
    PROVE  BatchType' /\ BatchInv'
<1>1. BatchType'
  BY DEF IInv, BatchType
<1>2. ASSUME NEW x \in Readers, batch[x].asked \in Refs PROVE NodeBatch(batch[x])'
  <2>1. NodeBatch(batch[x])
    BY <1>2 DEF IInv, BatchInv
  <2>2. Present(Store, batch[x].asked) => Present(Store', batch[x].asked)
    BY <1>2 DEF Stays
  <2>3. Present(Store, batch[x].asked)' = Present(Store', batch[x].asked)
    BY DEF Present
  <2>4. QED
    BY <2>1, <2>2, <2>3 DEF NodeBatch
<1>3. ASSUME NEW x \in Readers, batch[x].asked \in Roots, branching PROVE RootBatch(batch[x])'
  BY <1>3 DEF IInv, BatchInv, RootBatch
<1>4. QED
  BY <1>1, <1>2, <1>3 DEF BatchInv

\* A batch begins with nothing found.
LEMMA BatchAsk ==
    ASSUME IInv, NEW x \in Readers, NEW asked \in Refs \cup Roots, NEW known, NEW query,
           Ask(x, asked, known, query),
           asked \in Refs => query = NodeQuery(asked) /\ (known => Present(Store, asked)),
           asked \in Roots => query \in Queries /\ (known => asked \in DOMAIN roots)
    PROVE  BatchType' /\ BatchInv'
<1>1. /\ batch' = [batch EXCEPT ![x] =
              [asked |-> asked, known |-> known, query |-> query, at |-> 1, found |-> NoMap]]
      /\ UNCHANGED <<branching, rooted, storeVars>>
  BY DEF Ask
<1>2. /\ batch'[x] = [asked |-> asked, known |-> known, query |-> query, at |-> 1, found |-> NoMap]
      /\ \A y \in Readers : y # x => batch'[y] = batch[y]
  BY <1>1 DEF IInv, BatchType
<1>3. BatchType'
  BY <1>1, <1>2 DEF IInv, BatchType
<1>4. Store' = Store /\ roots' = roots /\ branching' = branching
  BY <1>1 DEF Store, storeVars
<1>5. DOMAIN NoMap = {}
  BY DEF NoMap
<1>6. ASSUME NEW y \in Readers, batch'[y].asked \in Refs PROVE NodeBatch(batch[y])'
  <2>1. CASE y = x
    <3>1. Refs \cap Roots = {}
      BY PathsAssumption
    <3>2. QED
      BY <1>2, <1>4, <1>5, <1>6, <2>1, <3>1 DEF NodeBatch, Present
  <2>2. CASE y # x
    <3>1. batch'[y] = batch[y] /\ NodeBatch(batch[y])
      BY <1>2, <1>6, <2>2 DEF IInv, BatchInv
    <3>2. QED
      BY <1>4, <3>1 DEF NodeBatch, Present
  <2>3. QED
    BY <2>1, <2>2
<1>7. ASSUME NEW y \in Readers, batch'[y].asked \in Roots, branching PROVE RootBatch(batch[y])'
  <2>1. CASE y = x
    <3>1. asked \in Roots /\ query \in Queries /\ (known => asked \in DOMAIN roots)
      BY <1>2, <1>7, <2>1
    <3>2. \A j \in DOMAIN query : ~(j < 1)
      BY <3>1, PathsAssumption
    <3>3. QED
      BY <1>2, <1>4, <1>5, <2>1, <3>1, <3>2 DEF RootBatch
  <2>2. CASE y # x
    BY <1>2, <1>4, <1>7, <2>2 DEF IInv, BatchInv, RootBatch
  <2>3. QED
    BY <2>1, <2>2
<1>8. QED
  BY <1>3, <1>4, <1>6, <1>7 DEF BatchInv

\* A read of a node's path: the marker decides whether the slots count.
LEMMA NodeRead ==
    ASSUME IInv, NEW x \in Readers, Read(x), batch[x].asked \in Refs
    PROVE  NodeBatch(batch[x])'
<1> DEFINE b == batch[x]
           ref == b.asked
           i == b.at - 1
           path == NodePath(ref, i)
           target == Get(Undef, path)
<1>1. NodeBatch(b) /\ b.at \in Nat \ {0} /\ b.at \in DOMAIN b.query
  BY DEF IInv, BatchInv, BatchType, Read, Finished
<1>2. i \in 0..Slots /\ b.query[b.at] = path /\ ref \notin Roots
  BY <1>1, PathsAssumption DEF NodeBatch, NodeQuery
<1>3. target = At(Store, path)
  BY <1>2, CellOf, GetNodes DEF IInv
<1>4. /\ batch'[x].asked = ref /\ batch'[x].known = b.known /\ batch'[x].query = b.query
      /\ batch'[x].at = b.at + 1 /\ batch'[x].found = Found(b.found, path, target)
  <2>1. batch' = [batch EXCEPT ![x] =
             [asked |-> b.asked, known |-> b.known, query |-> b.query,
              at |-> b.at + 1, found |-> Found(b.found, path, target)]]
    BY <1>2 DEF Read
  <2>2. QED
    BY <2>1 DEF IInv, BatchType
<1>5. Store' = Store
  BY DEF Read, Store, storeVars
<1>6. path \notin DOMAIN b.found
  <2>1. \A j \in 0..(b.at - 2) : NodePath(ref, j) # path
    BY <1>1 DEF NodePath
  <2>2. QED
    BY <1>1, <2>1 DEF NodeBatch
<1>7. DOMAIN batch'[x].found \subseteq {NodePath(ref, j) : j \in 0..(batch'[x].at - 2)}
  BY <1>1, <1>4, AtFound DEF NodeBatch
<1>8. Missing(Store, ref) \/ Present(Store, ref)
  BY DEF IInv, NodesInv
<1>9. target = Undef \/ target = Cell(ref, i)
  BY <1>2, <1>3, <1>8 DEF Missing, Present
<1>10. CASE i = 0
  <2>1. path = NodePath(ref, 0) /\ Cell(ref, 0) = Width /\ Width # Undef /\ 0 \in 0..Slots
    BY <1>10, CellOf, PathsAssumption
  <2>2. path \in DOMAIN batch'[x].found <=> target # Undef
    BY <1>4, <1>6, AtFound
  <2>3. target # Undef => Present(Store, ref)
    BY <1>3, <1>8, <2>1 DEF Missing
  <2>4. b.known => target # Undef
    BY <1>1, <1>3, <2>1 DEF NodeBatch, Present
  <2>5. target # Undef => \A j \in 0..Slots :
            j + 1 < batch'[x].at => At(batch'[x].found, NodePath(ref, j)) = Cell(ref, j)
    <3>1. b.at = 1
      BY <1>1, <1>10
    <3>2. target # Undef => At(batch'[x].found, path) = Cell(ref, 0)
      BY <1>4, <1>9, <1>10, AtFound
    <3>3. \A j \in 0..Slots : j + 1 < batch'[x].at => j = 0
      BY <1>4, <3>1
    <3>4. QED
      BY <2>1, <3>2, <3>3
  <2>6. QED
    BY <1>1, <1>4, <1>5, <1>7, <2>1, <2>2, <2>3, <2>4, <2>5 DEF NodeBatch, Present
<1>11. CASE i # 0
  <2>1. path # NodePath(ref, 0)
    BY <1>11 DEF NodePath
  <2>2. NodePath(ref, 0) \in DOMAIN batch'[x].found <=> NodePath(ref, 0) \in DOMAIN b.found
    BY <1>4, <2>1, AtFound
  <2>3. ASSUME NodePath(ref, 0) \in DOMAIN b.found, NEW j \in 0..Slots, j + 1 < batch'[x].at
        PROVE  At(batch'[x].found, NodePath(ref, j)) = Cell(ref, j)
    <3>1. Present(Store, ref) /\ (j + 1 < b.at => At(b.found, NodePath(ref, j)) = Cell(ref, j))
      BY <1>1, <2>3 DEF NodeBatch
    <3>2. CASE j = i
      <4>1. target = Cell(ref, i)
        BY <1>2, <1>3, <3>1 DEF Present
      <4>2. At(b.found, path) = Undef
        BY <1>6 DEF At
      <4>3. QED
        BY <1>4, <3>2, <4>1, <4>2, AtFound
    <3>3. CASE j # i
      <4>1. NodePath(ref, j) # path /\ j + 1 < b.at
        BY <1>1, <1>4, <2>3, <3>3 DEF NodePath
      <4>2. QED
        BY <1>4, <3>1, <4>1, AtFound
    <3>4. QED
      BY <3>2, <3>3
  <2>4. b.known => NodePath(ref, 0) \in DOMAIN b.found
    BY <1>1, <1>11 DEF NodeBatch
  <2>5. QED
    BY <1>1, <1>4, <1>5, <1>7, <2>2, <2>3, <2>4 DEF NodeBatch, Present
<1>12. QED
  BY <1>10, <1>11

\* A read at a Root finds the arc of the Root.
LEMMA RootRead ==
    ASSUME IInv, NEW x \in Readers, Read(x), batch[x].asked \in Roots, branching
    PROVE  RootBatch(batch[x])'
<1> DEFINE b == batch[x]
           path == b.query[b.at]
           target == Get(b.asked, path)
<1>1. RootBatch(b) /\ b.at \in Nat \ {0} /\ b.at \in DOMAIN b.query
  BY DEF IInv, BatchInv, BatchType, Read, Finished
<1>2. /\ batch'[x].asked = b.asked /\ batch'[x].known = b.known /\ batch'[x].query = b.query
      /\ batch'[x].at = b.at + 1 /\ batch'[x].found = Found(b.found, path, target)
      /\ roots' = roots
  <2>1. batch' = [batch EXCEPT ![x] =
             [asked |-> b.asked, known |-> b.known, query |-> b.query,
              at |-> b.at + 1, found |-> Found(b.found, path, target)]]
    BY DEF Read
  <2>2. roots' = roots
    BY DEF Read, storeVars
  <2>3. QED
    BY <2>1, <2>2 DEF IInv, BatchType
<1>3. path \in Paths /\ DOMAIN b.query = 1..Len(b.query) /\ Len(b.query) \in Nat
  BY <1>1, PathsAssumption DEF RootBatch
<1>4. ASSUME b.known
      PROVE  /\ DOMAIN batch'[x].found \subseteq
                   {b.query[j] : j \in {k \in DOMAIN b.query : k < batch'[x].at}}
             /\ \A j \in DOMAIN b.query : j < batch'[x].at =>
                   At(batch'[x].found, b.query[j]) = At(Contents[b.asked], b.query[j])
  <2>1. target = At(Contents[b.asked], path)
    BY <1>1, <1>3, <1>4, GetShows DEF RootBatch, IInv
  <2>2. \A q : At(batch'[x].found, q) = IF q = path /\ target # Undef THEN target ELSE At(b.found, q)
    BY <1>2, AtFound
  <2>3. ASSUME NEW j \in DOMAIN b.query, j < batch'[x].at
        PROVE  At(batch'[x].found, b.query[j]) = At(Contents[b.asked], b.query[j])
    <3>1. CASE j < b.at
      BY <1>1, <1>4, <2>1, <2>2, <3>1 DEF RootBatch
    <3>2. CASE b.query[j] = path /\ \E k \in DOMAIN b.query : k < b.at /\ b.query[k] = path
      BY <1>1, <1>4, <2>1, <2>2, <3>2 DEF RootBatch
    <3>3. CASE j = b.at /\ \A k \in DOMAIN b.query : k < b.at => b.query[k] # path
      <4>1. path \notin DOMAIN b.found
        BY <1>1, <1>4, <3>3 DEF RootBatch
      <4>2. At(b.found, path) = Undef
        BY <4>1 DEF At
      <4>3. QED
        BY <2>1, <2>2, <3>3, <4>2
    <3>4. j < b.at \/ j = b.at
      BY <1>1, <1>2, <1>3, <2>3
    <3>5. QED
      BY <3>1, <3>2, <3>3, <3>4
  <2>4. DOMAIN batch'[x].found \subseteq DOMAIN b.found \cup {path}
    BY <1>2, AtFound
  <2>5. \A k \in DOMAIN b.query : (k < b.at => k < batch'[x].at) /\ b.at < batch'[x].at
    BY <1>1, <1>2, <1>3
  <2>6. QED
    BY <1>1, <1>4, <2>3, <2>4, <2>5 DEF RootBatch
<1>5. QED
  BY <1>1, <1>2, <1>4 DEF RootBatch

\* A step of BatchGet keeps what is known of every batch.
LEMMA BatchRead ==
    ASSUME IInv, NEW x \in Readers, Read(x)
    PROVE  BatchType' /\ BatchInv'
<1> DEFINE b == batch[x]
           path == b.query[b.at]
           target == Get(IF b.asked \in Roots THEN b.asked ELSE Undef, path)
           next == [asked |-> b.asked, known |-> b.known, query |-> b.query,
                    at |-> b.at + 1, found |-> Found(b.found, path, target)]
<1>1. batch' = [batch EXCEPT ![x] = next] /\ UNCHANGED <<branching, rooted, storeVars>>
  BY DEF Read
<1>2. batch'[x] = next /\ \A y \in Readers : y # x => batch'[y] = batch[y]
  BY <1>1 DEF IInv, BatchType
<1>3. next.at \in Nat \ {0} /\ next.asked = b.asked
      /\ next = [asked |-> next.asked, known |-> next.known, query |-> next.query,
                 at |-> next.at, found |-> next.found]
  BY DEF IInv, BatchType
<1>4. batch' = [y \in Readers |-> batch'[y]]
  BY <1>1 DEF IInv, BatchType
<1>5. BatchType'
  <2> HIDE DEF next
  <2>1. ASSUME NEW y \in Readers
        PROVE  /\ batch'[y] = [asked |-> batch'[y].asked, known |-> batch'[y].known,
                               query |-> batch'[y].query, at |-> batch'[y].at, found |-> batch'[y].found]
               /\ batch'[y].at \in Nat \ {0}
    BY <1>2, <1>3 DEF IInv, BatchType
  <2>2. QED
    BY <1>4, <2>1 DEF BatchType
<1>6. Store' = Store /\ roots' = roots /\ branching' = branching
  BY <1>1 DEF Store, storeVars
<1>7. ASSUME NEW y \in Readers, batch'[y].asked \in Refs PROVE NodeBatch(batch[y])'
  <2>1. CASE y = x
    BY <1>2, <1>3, <1>7, <2>1, NodeRead
  <2>2. CASE y # x
    <3>1. batch'[y] = batch[y] /\ NodeBatch(batch[y])
      BY <1>2, <1>7, <2>2 DEF IInv, BatchInv
    <3>2. QED
      BY <1>6, <3>1 DEF NodeBatch, Present
  <2>3. QED
    BY <2>1, <2>2
<1>8. ASSUME NEW y \in Readers, batch'[y].asked \in Roots, branching PROVE RootBatch(batch[y])'
  <2>1. CASE y = x
    BY <1>2, <1>3, <1>8, <2>1, RootRead
  <2>2. CASE y # x
    BY <1>2, <1>6, <1>8, <2>2 DEF IInv, BatchInv, RootBatch
  <2>3. QED
    BY <2>1, <2>2
<1>9. QED
  BY <1>5, <1>6, <1>7, <1>8 DEF BatchInv

\* The marker of a stored node is read as one.
LEMMA StoredPresent ==
    ASSUME IInv, NEW ref \in Refs, Stored(ref)
    PROVE  Present(Store, ref)
<1>1. NodePath(ref, 0) \in NodePaths /\ 0 \in 0..Slots
  <2>1. 0 \in 0..Slots
    BY PathsAssumption
  <2>2. QED
    BY <2>1, CellOf
<1>2. At(Store, NodePath(ref, 0)) # Undef
  BY <1>1, GetNodes DEF Stored, IInv
<1>3. QED
  BY <1>1, <1>2 DEF IInv, NodesInv, Missing

\* Every step of a reader and of the writers keeps what the readers hold (BatchGet).
LEMMA BatchNext == Apart /\ IInv /\ [Next]_vars => BatchType' /\ BatchInv'
<1> SUFFICES ASSUME Apart, IInv, [Next]_vars PROVE BatchType' /\ BatchInv'
  OBVIOUS
<1>1. Stays
  BY NodesNext DEF IInv
<1>2. ASSUME NEW new \in Roots, NEW old \in Roots \cup {Undef}, Update(new, old)
      PROVE  BatchType' /\ BatchInv'
  <2>1. branching => DOMAIN roots \subseteq DOMAIN roots'
    BY <1>2 DEF Update, Materialized
  <2>2. QED
    BY <1>1, <1>2, <2>1, BatchKept DEF Update
<1>3. ASSUME NEW owner \in Owners, NEW delta \in Maps(OwnedPaths, Targets \cup {Undef}),
             UpdateNode(owner, delta)
      PROVE  BatchType' /\ BatchInv'
  BY <1>1, <1>3, BatchKept DEF UpdateNode
<1>4. ASSUME NEW delta \in LooseDeltas, UpdateCurrent(delta) PROVE BatchType' /\ BatchInv'
  BY <1>1, <1>4, BatchKept DEF UpdateCurrent
<1>5. ASSUME NEW ref \in Refs, PutNode(ref) PROVE BatchType' /\ BatchInv'
  BY <1>1, <1>5, BatchKept DEF PutNode, UpdateNode, UpdateCurrent
<1>6. ASSUME NEW x \in Readers, NEW root \in Roots, NEW query \in Queries, AskRoot(x, root, query)
      PROVE  BatchType' /\ BatchInv'
  <2>1. root \notin Refs
    BY PathsAssumption
  <2>2. QED
    BY <1>6, <2>1, BatchAsk DEF AskRoot
<1>7. ASSUME NEW x \in Readers, NEW ref \in Refs, AskNode(x, ref) PROVE BatchType' /\ BatchInv'
  <2>1. ref \notin Roots
    BY PathsAssumption
  <2>2. QED
    BY <1>7, <2>1, BatchAsk, StoredPresent DEF AskNode
<1>8. CASE UNCHANGED vars
  BY <1>1, <1>8, BatchKept DEF vars, storeVars
<1>9. QED
  BY <1>2, <1>3, <1>4, <1>5, <1>6, <1>7, <1>8, BatchRead DEF Next

\* What a finished reader holds is whole (BatchGet).
LEMMA WholeByBatches == ASSUME IInv PROVE BatchesAreWhole
<1> SUFFICES ASSUME NEW x \in Readers, Finished(x)
             PROVE  LET b == batch[x]
                        marker == NodePath(b.asked, 0)
                    IN  /\ b.asked \in Refs =>
                              /\ b.known => marker \in DOMAIN b.found
                              /\ marker \in DOMAIN b.found => \A i \in 1..Slots :
                                     At(b.found, NodePath(b.asked, i)) = Vector[b.asked][i]
                        /\ b.asked \in Roots /\ b.known /\ branching => \A i \in DOMAIN b.query :
                              At(b.found, b.query[i]) = At(Contents[b.asked], b.query[i])
  BY DEF BatchesAreWhole
<1> DEFINE b == batch[x]
           marker == NodePath(b.asked, 0)
<1>1. b.at \in Nat \ {0} /\ b.at \notin DOMAIN b.query
  BY DEF IInv, BatchType, Finished
<1>2. ASSUME b.asked \in Refs
      PROVE  /\ b.known => marker \in DOMAIN b.found
             /\ marker \in DOMAIN b.found => \A i \in 1..Slots :
                    At(b.found, NodePath(b.asked, i)) = Vector[b.asked][i]
  <2>1. NodeBatch(b)
    BY <1>2 DEF IInv, BatchInv
  <2>2. DOMAIN b.query = 1..(Slots + 1)
    BY <2>1 DEF NodeBatch, NodeQuery
  <2>3. b.at > Slots + 1 /\ b.at > 1
    BY <1>1, <2>2, PathsAssumption
  <2>4. \A i \in 1..Slots : i \in 0..Slots /\ i + 1 < b.at
    BY <1>1, <2>3, PathsAssumption
  <2>5. \A i \in 1..Slots : Cell(b.asked, i) = Vector[b.asked][i]
    BY <1>2, CellOf
  <2>6. QED
    BY <2>1, <2>3, <2>4, <2>5 DEF NodeBatch
<1>3. ASSUME b.asked \in Roots, b.known, branching
      PROVE  \A i \in DOMAIN b.query : At(b.found, b.query[i]) = At(Contents[b.asked], b.query[i])
  <2>1. RootBatch(b)
    BY <1>3 DEF IInv, BatchInv
  <2>2. DOMAIN b.query = 1..Len(b.query) /\ Len(b.query) \in Nat
    BY <2>1, PathsAssumption DEF RootBatch
  <2>3. \A i \in DOMAIN b.query : i < b.at
    BY <1>1, <2>2
  <2>4. QED
    BY <1>3, <2>1, <2>3 DEF RootBatch
<1>4. QED
  BY <1>2, <1>3

\* Nobody reads half a node or a mixture of a Root's arcs, although BatchGet takes
\* the lock anew for each path.
THEOREM BatchesWhole == Apart => (Spec => []BatchesAreWhole)
<1> SUFFICES ASSUME Apart PROVE Spec => []BatchesAreWhole
  OBVIOUS
<1>1. Init => IInv
  BY RootsInit, NodesInit, BatchInit DEF IInv
<1>2. IInv /\ [Next]_vars => IInv'
  BY RootsNext, NodesNext, BatchNext DEF IInv
<1>3. IInv => BatchesAreWhole
  BY WholeByBatches
<1>4. QED
  BY <1>1, <1>2, <1>3, PTL DEF Spec
=============================================================================
