----------------------------- MODULE Candidates -----------------------------
(***************************************************************************)
(* A Writer on the way to another host: its export as a candidate, that is *)
(* a Root, the entries of its state and its nodes, and the import of such  *)
(* a candidate by someone who trusts none of the three (sdk/authentication *)
(* and Materialization of auth/tree).                                      *)
(***************************************************************************)
EXTENDS WriterDelta

OfMaps == INSTANCE MapProof
OfLists == INSTANCE ListProof

StateOf(w) == [layout |-> w.layout, bindings |-> w.bindings, payload |-> w.payload]

EachOnce(S) == FoldSet(LAMBDA x, seq : Append(seq, x), <<>>, S)

Sorted(x, entries) ==
    SortSeq(entries, LAMBDA a, b : TrieKey(x, a.label) < TrieKey(x, b.label))

\* Writer.State: the entries in the order of the trie.
Entries(w) == Sorted(w, EachOnce(w.bindings))

\* Writer.Export; CopyTo yields every node once.
Export(w) ==
    [root |-> w.root, layout |-> w.layout, payload |-> w.payload,
     entries |-> Entries(w), nodes |-> EachOnce(NodesOf(w.root))]

-----------------------------------------------------------------------------
(* Import.                                                                  *)

Store(c) == Range(c.nodes)

\* SnapshotBounded: what the nodes hold at the Root, in the order of coordinates.
Snapshot(c) ==
    IF IsList(c)
    THEN LET items == OfLists!Snapshot(Store(c), c.root, Len(c.entries))
         IN  [items EXCEPT !.items = [i \in DOMAIN @ |-> Binding(i - 1, @[i])]]
    ELSE OfMaps!Snapshot(Store(c), c.root, Len(c.entries))

PayloadOf(c) == IF IsList(c) THEN c.root[0].payload ELSE Undef

\* Faulty: the number of bindings and the payload are not compared.
MatchViewPartly(c, view) ==
    \A i \in DOMAIN c.entries : i \in DOMAIN view => Sorted(c, c.entries)[i] = view[i]

\* The sorted entries are the view, label by label.
MatchView(c, view) ==
    /\ c.payload = PayloadOf(c)
    /\ Len(c.entries) = Len(view)
    /\ Sorted(c, c.entries) = view

\* importCandidate: each node once, the whole state, and no node beside it.
Imports(c) ==
    LET snapshot == Snapshot(c) IN
    /\ \A i \in DOMAIN c.entries : c.entries[i].target # Undef
    /\ \A i, j \in DOMAIN c.nodes : c.nodes[i] = c.nodes[j] => i = j
    /\ snapshot.ok
    /\ MatchView(c, snapshot.items)
    /\ NodesOf(c.root) = Store(c)

\* NewWriter: the retained nodes are those the snapshot checked.
Imported(c) ==
    [layout |-> c.layout, bindings |-> Range(c.entries), payload |-> c.payload, root |-> c.root]

\* PrepareUpdate, where the candidate and the update are accepted.
PrepareUpdate(c, state) == Export(NewWriter(Imported(c), DeltaTo(Imported(c), state)))

-----------------------------------------------------------------------------
\* Candidates that somebody changed: nodes left out, sent twice or added, another
\* Root or payload, entries left out, sent twice, exchanged or with other targets.
Doctored(c, strays) ==
    {c, [c EXCEPT !.entries = Reverse(@)], [c EXCEPT !.nodes = Reverse(@)],
     [c EXCEPT !.nodes = Append(@, c.root)]}
        \cup {[c EXCEPT !.nodes = Append(@, stray)] : stray \in strays}
        \cup {[c EXCEPT !.nodes = RemoveAt(@, i)] : i \in DOMAIN c.nodes}
        \cup {[c EXCEPT !.root = c.nodes[i]] : i \in DOMAIN c.nodes}
        \cup {[c EXCEPT !.payload = p] : p \in {Undef, "other"}}
        \cup {[c EXCEPT !.entries = RemoveAt(@, i)] : i \in DOMAIN c.entries}
        \cup {[c EXCEPT !.entries = Append(@, c.entries[i])] : i \in DOMAIN c.entries}
        \cup {[c EXCEPT !.entries[i].target = t] : i \in DOMAIN c.entries, t \in {Undef, "other"}}

\* What a writer exports is imported as the same writer.  Of everything else, a
\* candidate is taken if and only if its Root is the one that a build of its
\* entries gives and its nodes are the nodes of that Root, each once, in any order:
\* a host that never computes a commitment of its own cannot be made to retain
\* other state than its Root has (NewWriter, importCandidate, MatchView).
ImportsExactly ==
    LET sent == Export(writer)
        strays == {w.root : w \in {BuildWriter(s) : s \in {x \in States :
                       Buildable(x) /\ x.layout = writer.layout /\ Count(x.bindings) = 1}}}
    IN  /\ Imports(sent) /\ Imported(sent) = writer
        /\ \A c \in Doctored(sent, strays) :
              Imports(c) <=>
                  /\ Len(c.entries) = Cardinality(Range(c.entries))
                  /\ Buildable(StateOf(Imported(c)))
                  /\ c.root = TreeOf(StateOf(Imported(c)))
                  /\ Store(c) = NodesOf(c.root) /\ Len(c.nodes) = Cardinality(Store(c))
=============================================================================
