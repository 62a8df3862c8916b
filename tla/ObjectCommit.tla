---------------------------- MODULE ObjectCommit ----------------------------
(***************************************************************************)
(* The recursive Commit of sdk/object.  An outermost Commit opens a scope, *)
(* visits the references of each vertex children first, stages one new     *)
(* snapshot per visited history and, if nothing failed on the way, makes   *)
(* all of them visible together.  Custom objects take part: they may       *)
(* return any CID, fail, delegate to a built-in Commit, and swallow or     *)
(* replace what the delegate returned.  The caller may cancel at any time. *)
(*                                                                         *)
(* A commitment is collision-free here: a Root is the record of what it    *)
(* commits to.  Labels and list indices are numbers, in the order in which *)
(* the code visits them.                                                   *)
(***************************************************************************)
EXTENDS Naturals, Sequences, FiniteSets, Functions, FiniteSetsExt

CONSTANTS
    Maps,        \* Map objects and tagged structs: references under labels
    Lists,       \* List objects: references under the indices 0, 1, ...
    Leaves,      \* Immutable objects
    Customs,     \* objects with a Commit of their own
    Wrappers,    \* Maps whose own Commit wraps CommitTagged of themselves
    Delegate,    \* the built-in object each custom Commit may call
    Block,       \* the content CID of each Leaf
    HistoryOf,   \* the history of each built-in object, shared if Bases are
    IdOf,        \* the vertex marker of each history, equal if it was copied
    Labels,      \* the labels of Map references
    Configs,     \* commit configurations
    FirstConfigs, \* the configurations the Maps may have at first
    Reserved,    \* the payload label of each configuration
    Cids,        \* content CIDs an application or a custom object may use
    Graphs,      \* the references the application may have set up at first
    Outermost,   \* objects whose Commit the application calls itself
    Undef,       \* cid.Undef
    Nothing,     \* an absent owner, marker or history
    MaxEdits,    \* bound: edits made by the application
    MaxCommits,  \* bound: outermost Commits
    MaxItems     \* bound: length of a List

Containers == Maps \cup Lists
Managed == Containers \cup Leaves
Objects == Managed \cup Customs
Histories == {HistoryOf[o] : o \in Managed}
Ids == {IdOf[h] : h \in Histories}

ASSUME KindAssumption ==
    /\ Maps \cap Lists = {} /\ Containers \cap Leaves = {} /\ Managed \cap Customs = {}
    /\ Wrappers \subseteq Maps /\ Outermost \subseteq Managed
    /\ Delegate \in [Customs -> Managed]
    /\ Nothing \notin Objects \cup Histories

ASSUME GraphAssumption ==
    /\ Labels \subseteq Nat /\ MaxItems \in Nat
    /\ FirstConfigs \subseteq [Maps -> Configs]
    /\ \A g \in Graphs :
          /\ DOMAIN g = Containers
          /\ \A o \in Maps : DOMAIN g[o] \subseteq Labels
          /\ \A o \in Lists : \E n \in 0..MaxItems : DOMAIN g[o] = 0..(n - 1)
          /\ \A o \in Containers : \A l \in DOMAIN g[o] : g[o][l] \in Objects

VARIABLES
    entries,   \* the references of each container
    payload,   \* the payload of each container
    config,    \* Config() of each Map
    before,    \* history.before
    after,     \* history.after
    ctx,       \* the context of the Commit: live or canceled
    active,    \* commitScope.active
    done,      \* commitScope.done
    byCID,     \* commitScope.byCID: snapshots of the scope, by root
    staged,    \* commitScope.staged
    ids,       \* commitScope.ids
    failed,    \* commitScope.failed
    stack,     \* the Commit calls in progress, innermost last
    reg,       \* the call about to be made or the result just returned
    edits,     \* number of edits made
    commits,   \* number of outermost Commits begun
    built,     \* auxiliary: the vertices built in this scope, once each
    erred      \* auxiliary: some Commit of this scope returned an error

graphVars == <<entries, payload, config>>
histVars  == <<before, after>>
scopeVars == <<active, done, byCID, staged, ids, failed>>
auxVars   == <<built, erred>>
countVars == <<edits, commits>>
vars == <<graphVars, histVars, ctx, scopeVars, stack, reg, countVars, auxVars>>

Top == stack[Len(stack)]
Frame(o) == [self |-> o, todo |-> DOMAIN entries[o], got |-> <<>>]
CustomFrame(o) == [self |-> o, todo |-> {}, got |-> <<>>]

Idle == [op |-> "idle", obj |-> Nothing, root |-> Undef, err |-> "ok"]
Enter(o) == [op |-> "enter", obj |-> o, root |-> Undef, err |-> "ok"]
Run == [op |-> "run", obj |-> Nothing, root |-> Undef, err |-> "ok"]
Returned(o, r, e) == [op |-> "return", obj |-> o, root |-> r, err |-> e]

\* No snapshot (nil), and a history not staged in this scope.
NoSnapshot == [id |-> Nothing, root |-> Undef, local |-> "absent", children |-> <<>>]
NotStaged == [owner |-> Nothing, value |-> NoSnapshot]

Opaque(r) == [id |-> Nothing, root |-> r, local |-> "none", children |-> <<>>]

Init ==
    /\ entries \in Graphs
    /\ payload = [o \in Containers |-> Undef]
    /\ config \in FirstConfigs
    /\ before = [h \in Histories |-> NoSnapshot]
    /\ after = [h \in Histories |-> NoSnapshot]
    /\ ctx = "live"
    /\ active = {} /\ done = [o \in Objects |-> NoSnapshot] /\ byCID = <<>>
    /\ staged = [h \in Histories |-> NotStaged] /\ ids = [i \in Ids |-> Nothing]
    /\ failed = "ok"
    /\ stack = <<>> /\ reg = Idle
    /\ edits = 0 /\ commits = 0
    /\ built = {} /\ erred = FALSE

-----------------------------------------------------------------------------
(* Edits, between Commits: objects are not mutated while one runs.          *)

Edit ==
    /\ reg = Idle /\ edits < MaxEdits
    /\ edits' = edits + 1
    /\ UNCHANGED <<histVars, ctx, scopeVars, stack, reg, commits, auxVars>>

MapSet(o, l, t) ==
    /\ Edit
    /\ l # Reserved[config[o]]
    /\ entries' = [entries EXCEPT ![o] = [x \in DOMAIN @ \cup {l} |->
                                            IF x = l THEN t ELSE @[x]]]
    /\ UNCHANGED <<payload, config>>

MapDelete(o, l) ==
    /\ Edit
    /\ l \in DOMAIN entries[o]
    /\ entries' = [entries EXCEPT ![o] = Restrict(@, DOMAIN @ \ {l})]
    /\ UNCHANGED <<payload, config>>

Length(o) == Cardinality(DOMAIN entries[o])

ListSet(o, i, t) ==
    /\ Edit
    /\ i \in DOMAIN entries[o]
    /\ entries' = [entries EXCEPT ![o][i] = t]
    /\ UNCHANGED <<payload, config>>

ListAppend(o, t) ==
    /\ Edit
    /\ Length(o) < MaxItems
    /\ entries' = [entries EXCEPT ![o] = [x \in 0..Length(o) |->
                                            IF x = Length(o) THEN t ELSE @[x]]]
    /\ UNCHANGED <<payload, config>>

ListRemove(o, i) ==
    /\ Edit
    /\ i \in DOMAIN entries[o]
    /\ entries' = [entries EXCEPT ![o] = [x \in DOMAIN @ \ {Length(o) - 1} |->
                                            IF x < i THEN @[x] ELSE @[x + 1]]]
    /\ UNCHANGED <<payload, config>>

SetPayload(o, p) ==
    /\ Edit
    /\ payload' = [payload EXCEPT ![o] = p]
    /\ UNCHANGED <<entries, config>>

\* An outer struct may override Config and return another one each time.
SetConfig(o, c) ==
    /\ Edit
    /\ config' = [config EXCEPT ![o] = c]
    /\ UNCHANGED <<entries, payload>>

-----------------------------------------------------------------------------
(* withCommit up to the call of build.                                      *)

Begin(o) ==
    /\ reg = Idle /\ stack = <<>> /\ commits < MaxCommits
    /\ commits' = commits + 1
    /\ ctx' = "live"
    /\ reg' = Enter(o)
    /\ built' = {} /\ erred' = FALSE
    /\ UNCHANGED <<graphVars, histVars, scopeVars, stack, edits>>

Cancel ==
    /\ reg # Idle /\ ctx = "live"
    /\ ctx' = "canceled"
    /\ UNCHANGED <<graphVars, histVars, scopeVars, stack, reg, countVars, auxVars>>

\* The first error of the scope is kept.
Fail(e) ==
    /\ failed' = IF failed = "ok" THEN e ELSE failed
    /\ erred' = TRUE

EnterManaged(o) == reg = Enter(o) /\ o \in Managed

EnterCanceled(o) ==
    /\ EnterManaged(o) /\ ctx = "canceled"
    /\ reg' = Returned(o, Undef, "canceled")
    /\ erred' = TRUE
    /\ UNCHANGED <<graphVars, histVars, ctx, scopeVars, stack, countVars, built>>

EnterCycle(o) ==
    /\ EnterManaged(o) /\ ctx = "live" /\ o \in active
    /\ Fail("cycle")
    /\ reg' = Returned(o, Undef, "cycle")
    /\ UNCHANGED <<graphVars, histVars, ctx, active, done, byCID, staged, ids,
                   stack, countVars, built>>

\* Faulty: a vertex committed earlier is not visited again.
EnterDoneBefore(o) ==
    /\ EnterManaged(o) /\ ctx = "live" /\ o \notin active
    /\ after[HistoryOf[o]] # NoSnapshot
    /\ reg' = Returned(o, after[HistoryOf[o]].root, "ok")
    /\ UNCHANGED <<graphVars, histVars, ctx, scopeVars, stack, countVars, auxVars>>

EnterDone(o) ==
    /\ EnterManaged(o) /\ ctx = "live" /\ o \notin active /\ done[o] # NoSnapshot
    /\ reg' = Returned(o, done[o].root, "ok")
    /\ UNCHANGED <<graphVars, histVars, ctx, scopeVars, stack, countVars, auxVars>>

\* Faulty: withCommit does not look at done.
EnterableAgain(o) == EnterManaged(o) /\ ctx = "live" /\ o \notin active

Enterable(o) ==
    EnterManaged(o) /\ ctx = "live" /\ o \notin active /\ done[o] = NoSnapshot

\* commitReferences validates all labels before it visits any child.
BadLabels(o) == o \in Maps /\ Reserved[config[o]] \in DOMAIN entries[o]

EnterRefused(o) ==
    /\ Enterable(o) /\ BadLabels(o)
    /\ Fail("label")
    /\ reg' = Returned(o, Undef, "label")
    /\ UNCHANGED <<graphVars, histVars, ctx, active, done, byCID, staged, ids,
                   stack, countVars, built>>

EnterBuild(o) ==
    /\ Enterable(o) /\ ~BadLabels(o)
    /\ active' = active \cup {o}
    /\ stack' = Append(stack, IF o \in Leaves THEN CustomFrame(o) ELSE Frame(o))
    /\ reg' = Run
    /\ built' = built \cup {o}
    /\ UNCHANGED <<graphVars, histVars, ctx, done, byCID, staged, ids, failed,
                   countVars, erred>>

-----------------------------------------------------------------------------
(* build: commitChild for each reference in order.                          *)

Pop == stack' = SubSeq(stack, 1, Len(stack) - 1)

\* withCommit returns an error and forgets that self was active.
Abort(e) ==
    /\ Fail(e)
    /\ Pop
    /\ active' = active \ {Top.self}
    /\ reg' = Returned(Top.self, Undef, e)
    /\ UNCHANGED <<graphVars, histVars, ctx, done, byCID, staged, ids, countVars, built>>

Building == stack # <<>> /\ Top.self \in Managed
Visiting == Building /\ reg = Run /\ Top.todo # {}
NextLabel == Min(Top.todo)
Child == entries[Top.self][NextLabel]

Got(s) == stack' = [stack EXCEPT ![Len(stack)] =
              [self |-> @.self, todo |-> @.todo \ {NextLabel},
               got |-> Append(@.got, [label |-> NextLabel, value |-> s])]]

ChildCanceled == Visiting /\ ctx = "canceled" /\ Abort("canceled")

ChildCycle == Visiting /\ ctx = "live" /\ Child \in active /\ Abort("cycle")

ChildDone ==
    /\ Visiting /\ ctx = "live" /\ Child \notin active /\ done[Child] # NoSnapshot
    /\ Got(done[Child])
    /\ UNCHANGED <<graphVars, histVars, ctx, scopeVars, reg, countVars, auxVars>>

ChildCalled ==
    /\ Visiting /\ ctx = "live" /\ Child \notin active /\ done[Child] = NoSnapshot
    /\ reg' = Enter(Child)
    /\ UNCHANGED <<graphVars, histVars, ctx, scopeVars, stack, countVars, auxVars>>

ChildReturning == Building /\ reg.op = "return"

\* Faulty: the child is committed again.
ChildRetried ==
    /\ ChildReturning /\ reg.err # "ok"
    /\ reg' = Run
    /\ UNCHANGED <<graphVars, histVars, ctx, scopeVars, stack, countVars, auxVars>>

ChildFailed == ChildReturning /\ reg.err # "ok" /\ Abort(reg.err)

ChildUndefined ==
    ChildReturning /\ reg.err = "ok" /\ reg.root = Undef /\ Abort("undefined")

\* What the scope knows of a child that returned a root: its own snapshot, that
\* of another vertex with the same root, or nothing but the root.
Resolved(c, r) ==
    IF done[c] # NoSnapshot THEN done[c]
    ELSE IF r \in DOMAIN byCID THEN byCID[r]
    ELSE Opaque(r)

ChildMismatch ==
    /\ ChildReturning /\ reg.err = "ok" /\ reg.root # Undef
    /\ done[Child] # NoSnapshot /\ done[Child].root # reg.root
    /\ Abort("mismatch")

\* Faulty: any root a child returns is taken for its snapshot.
ChildTrusted ==
    /\ ChildReturning /\ reg.err = "ok" /\ reg.root # Undef
    /\ done' = [done EXCEPT ![Child] = Opaque(reg.root)]
    /\ Got(Opaque(reg.root))
    /\ reg' = Run
    /\ UNCHANGED <<graphVars, histVars, ctx, active, byCID, staged, ids, failed,
                   countVars, auxVars>>

ChildCommitted ==
    /\ ChildReturning /\ reg.err = "ok" /\ reg.root # Undef
    /\ Resolved(Child, reg.root).root = reg.root
    /\ done' = [done EXCEPT ![Child] = Resolved(Child, reg.root)]
    /\ Got(Resolved(Child, reg.root))
    /\ reg' = Run
    /\ UNCHANGED <<graphVars, histVars, ctx, active, byCID, staged, ids, failed,
                   countVars, auxVars>>

-----------------------------------------------------------------------------
(* The end of build, stage and the end of withCommit.                       *)

Payloads(o) == IF payload[o] = Undef THEN {} ELSE {payload[o]}

\* The bindings of a Map include its payload, under the reserved label.
Arcs(o, got) ==
    {<<got[i].label, got[i].value.root>> : i \in DOMAIN got}
        \cup {<<Reserved[config[o]], p>> : p \in IF o \in Maps THEN Payloads(o) ELSE {}}

MapRoot(o, got) ==
    [layout |-> "map", config |-> config[o], arcs |-> Arcs(o, got), payload |-> Undef]
ListRoot(o, got) ==
    [layout |-> "list", config |-> Nothing, arcs |-> Arcs(o, got), payload |-> payload[o]]

\* Children in label order, then the payload as a vertex without local state.
ChildSnapshots(o, got) ==
    [i \in DOMAIN got |-> got[i].value]
        \o (IF payload[o] = Undef THEN <<>> ELSE <<Opaque(payload[o])>>)

NewSnapshot(o, got) ==
    IF o \in Leaves
    THEN [id |-> IdOf[HistoryOf[o]], root |-> Block[o], local |-> "block",
          children |-> <<>>]
    ELSE [id |-> IdOf[HistoryOf[o]],
          root |-> IF o \in Maps THEN MapRoot(o, got) ELSE ListRoot(o, got),
          local |-> "writer", children |-> ChildSnapshots(o, got)]

Finishing == Building /\ reg = Run /\ Top.todo = {}

\* The engine, or the context it was given, refuses to build the writer.
BuildFails == Finishing /\ Top.self \in Containers /\ Abort("build")

\* Faulty: whoever staged a history last owns it.
SharedBaseIgnored(o) == FALSE

SharedBase(o) ==
    staged[HistoryOf[o]] # NotStaged /\ staged[HistoryOf[o]].owner # o
CopiedState(o) ==
    ids[IdOf[HistoryOf[o]]] \notin {Nothing, HistoryOf[o]}

StageRefused ==
    Finishing /\ (SharedBase(Top.self) \/ CopiedState(Top.self)) /\ Abort("stage")

Stage(o, s) ==
    /\ Finishing /\ ~SharedBase(o) /\ ~CopiedState(o)
    /\ ids' = [ids EXCEPT ![IdOf[HistoryOf[o]]] = HistoryOf[o]]
    /\ staged' = [staged EXCEPT ![HistoryOf[o]] = [owner |-> o, value |-> s]]

\* Staged, and then canceled or found failed: the error of the scope wins.
StagedInVain ==
    \E e \in {IF ctx = "canceled" THEN "canceled" ELSE failed} :
        /\ e # "ok"
        /\ Stage(Top.self, NewSnapshot(Top.self, Top.got))
        /\ Fail(e) /\ Pop
        /\ active' = active \ {Top.self}
        /\ reg' = Returned(Top.self, Undef, e)
        /\ UNCHANGED <<graphVars, histVars, ctx, done, byCID, countVars, built>>

\* done and byCID learn the vertex, and the outermost Commit confirms.
Succeed(o, s) ==
    /\ Stage(o, s) /\ ctx = "live" /\ failed = "ok"
    /\ Pop
    /\ active' = active \ {o}
    /\ done' = [done EXCEPT ![o] = s]
    /\ byCID' = [r \in DOMAIN byCID \cup {s.root} |-> IF r = s.root THEN s ELSE byCID[r]]
    /\ reg' = Returned(o, s.root, "ok")
    /\ UNCHANGED <<graphVars, ctx, failed, countVars, auxVars>>

\* Faulty: a vertex becomes visible as soon as it is committed.
NestedConfirms ==
    /\ Len(stack) > 1
    /\ Succeed(Top.self, NewSnapshot(Top.self, Top.got))
    /\ before' = [before EXCEPT ![HistoryOf[Top.self]] = after[HistoryOf[Top.self]]]
    /\ after' = [after EXCEPT ![HistoryOf[Top.self]] = NewSnapshot(Top.self, Top.got)]

Nested ==
    /\ Len(stack) > 1
    /\ Succeed(Top.self, NewSnapshot(Top.self, Top.got))
    /\ UNCHANGED histVars

\* confirm: every staged history advances, whoever it belongs to.
Confirm ==
    /\ before' = [h \in Histories |-> IF staged'[h] # NotStaged THEN after[h] ELSE before[h]]
    /\ after' = [h \in Histories |->
                   IF staged'[h] # NotStaged THEN staged'[h].value ELSE after[h]]

Confirmed ==
    /\ Len(stack) = 1
    /\ Succeed(Top.self, NewSnapshot(Top.self, Top.got))
    /\ Confirm

\* The outermost Commit returns and its scope is closed.
End ==
    /\ stack = <<>> /\ reg.op = "return"
    /\ reg' = Idle
    /\ active' = {} /\ done' = [o \in Objects |-> NoSnapshot] /\ byCID' = <<>>
    /\ staged' = [h \in Histories |-> NotStaged] /\ ids' = [i \in Ids |-> Nothing]
    /\ failed' = "ok"
    /\ UNCHANGED <<graphVars, histVars, ctx, stack, countVars, auxVars>>

-----------------------------------------------------------------------------
(* A custom Commit: calls back into the package at most once.               *)

CustomOutcome(o, r, e) ==
    /\ (e # "ok") => (r = Undef)
    /\ reg' = Returned(o, r, e)

CustomReturns(o, r, e) ==
    /\ reg = Enter(o) /\ o \in Customs
    /\ CustomOutcome(o, r, e)
    /\ UNCHANGED <<graphVars, histVars, ctx, scopeVars, stack, countVars, auxVars>>

CustomDelegates(o) ==
    /\ reg = Enter(o) /\ o \in Customs
    /\ stack' = Append(stack, CustomFrame(o))
    /\ reg' = Enter(Delegate[o])
    /\ UNCHANGED <<graphVars, histVars, ctx, scopeVars, countVars, auxVars>>

CustomReturning ==
    stack # <<>> /\ Top.self \in Customs /\ reg.op = "return" /\ Pop

\* It hands on what the delegate returned.
CustomForwards ==
    /\ CustomReturning
    /\ reg' = Returned(Top.self, reg.root, reg.err)
    /\ UNCHANGED <<graphVars, histVars, ctx, scopeVars, countVars, auxVars>>

\* It swallows the result, an error included, and returns something else.
CustomReplaces(r, e) ==
    /\ CustomReturning
    /\ CustomOutcome(Top.self, r, e)
    /\ UNCHANGED <<graphVars, histVars, ctx, scopeVars, countVars, auxVars>>

\* A wrapper hands out another CID or an error instead of its staged Root, or
\* swallows the error of its own CommitTagged.
WrapperReplaces(r, e) ==
    /\ stack # <<>> /\ reg.op = "return" /\ reg.obj \in Wrappers
    /\ CustomOutcome(Nothing, r, e)
    /\ UNCHANGED <<graphVars, histVars, ctx, scopeVars, stack, countVars, auxVars>>

-----------------------------------------------------------------------------
EditStep ==
    \/ \E o \in Maps, l \in Labels, t \in Objects : MapSet(o, l, t)
    \/ \E o \in Maps, l \in Labels : MapDelete(o, l)
    \/ \E o \in Maps, c \in Configs : SetConfig(o, c)
    \/ \E o \in Lists, i \in 0..MaxItems, t \in Objects : ListSet(o, i, t)
    \/ \E o \in Lists, t \in Objects : ListAppend(o, t)
    \/ \E o \in Lists, i \in 0..MaxItems : ListRemove(o, i)
    \/ \E o \in Containers, p \in Cids \cup {Undef} : SetPayload(o, p)

CustomStep ==
    \/ \E o \in Customs : CustomDelegates(o)
    \/ \E o \in Customs, r \in Cids \cup {Undef}, e \in {"ok", "custom"} :
           CustomReturns(o, r, e)
    \/ CustomForwards
    \/ \E r \in Cids \cup {Undef}, e \in {"ok", "custom"} :
           CustomReplaces(r, e) \/ WrapperReplaces(r, e)

CommitStep ==
    \/ \E o \in Managed : EnterCanceled(o) \/ EnterCycle(o) \/ EnterDone(o)
                          \/ EnterRefused(o) \/ EnterBuild(o)
    \/ ChildCanceled \/ ChildCycle \/ ChildDone \/ ChildCalled
    \/ ChildFailed \/ ChildUndefined \/ ChildMismatch \/ ChildCommitted
    \/ BuildFails \/ StageRefused \/ StagedInVain \/ Nested \/ Confirmed \/ End
    \/ CustomStep

Next ==
    \/ EditStep \/ Cancel \/ CommitStep
    \/ \E o \in Outermost : Begin(o)

Spec == Init /\ [][Next]_vars

\* A Commit that can take its next step takes it; custom methods return.
FairSpec == Spec /\ WF_vars(CommitStep)

-----------------------------------------------------------------------------
(* Properties.                                                              *)

TypeOK ==
    /\ DOMAIN entries = Containers
    /\ \A o \in Maps : DOMAIN entries[o] \subseteq Labels
    /\ \A o \in Lists : DOMAIN entries[o] = 0..(Length(o) - 1)
    /\ payload \in [Containers -> Cids \cup {Undef}]
    /\ config \in [Maps -> Configs]
    /\ ctx \in {"live", "canceled"}
    /\ active \subseteq Managed
    /\ \A i \in Ids : ids[i] \in Histories \cup {Nothing}
    /\ reg.op \in {"idle", "enter", "run", "return"}
    /\ \A i \in 1..Len(stack) : stack[i].self \in Objects
    /\ built \subseteq Managed /\ erred \in BOOLEAN

Succeeded == stack = <<>> /\ reg.op = "return" /\ reg.err = "ok"

\* The built-in vertices reached from o through built-in vertices: those that
\* every set with o and the references of its own members contains.
References(p) == {entries[p][l] : l \in DOMAIN entries[p]}
Closed(S) == \A p \in S \cap Containers : References(p) \cap Managed \subseteq S
Reached(o) == {c \in Managed : \A S \in SUBSET Managed : o \in S /\ Closed(S) => c \in S}

\* A successful Commit returns the Root of the current graph: every vertex
\* reached from it shows a snapshot whose bindings are exactly its present
\* labels, each bound to the Root its child shows, and its present payload.
CommitIsMerkle ==
    Succeeded =>
        /\ \A o \in Reached(reg.obj) : after[HistoryOf[o]] # NoSnapshot
        /\ reg.root = after[HistoryOf[reg.obj]].root
        /\ \A o \in Reached(reg.obj) \cap Containers :
              LET root == after[HistoryOf[o]].root
                  bound == {<<l, entries[o][l]>> : l \in DOMAIN entries[o]}
                  Shown(c) == after[HistoryOf[c]].root
              IN  /\ {a[1] : a \in root.arcs} = DOMAIN entries[o] \cup
                        {l \in {Reserved[config[m]] : m \in {o} \cap Maps} :
                            payload[o] # Undef}
                  /\ \A b \in bound : b[2] \in Managed => <<b[1], Shown(b[2])>> \in root.arcs
                  /\ Cardinality(root.arcs) = Cardinality({a[1] : a \in root.arcs})
                  /\ o \in Lists => root.payload = payload[o]

\* All histories staged by a Commit advance in one step, with its success, and
\* nothing else ever changes a history (confirm).
AllOrNothing ==
    [][UNCHANGED histVars \/
        /\ Succeeded'
        /\ \A o \in Reached(reg'.obj) : before'[HistoryOf[o]] = after[HistoryOf[o]]
        /\ \A h \in Histories : \/ before'[h] = after[h]
                                \/ UNCHANGED <<before[h], after[h]>>]_vars

\* No custom object can turn the failure of a built-in Commit into a success.
FailureSticks == Succeeded => ~erred

\* Custom objects can neither hide a failure nor put a Root of their own in the place
\* of the one that was staged (commitChild, fail).
CustomsCannotLie == CommitIsMerkle /\ FailureSticks

\* "Objects cannot share a Base", and a copied Object is refused: vertices
\* committed together have histories and markers of their own (stage).
OneOwner ==
    Succeeded => \A o, p \in built : o # p =>
        IdOf[HistoryOf[o]] # IdOf[HistoryOf[p]]

\* A shared child is committed once: it is never entered again in a scope that
\* already staged it (done, commitChild).
SharedOnce ==
    [][\A o \in Managed : o \in built /\ built' # {} /\ done[o] # NoSnapshot =>
        (done'[o] = done[o] \/ reg' = Idle) /\ o \notin active']_vars

\* Every Commit ends, whatever the graph and the custom objects do.
CommitEnds == reg # Idle ~> reg = Idle
=============================================================================
