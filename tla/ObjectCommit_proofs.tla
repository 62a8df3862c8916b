------------------------ MODULE ObjectCommit_proofs ------------------------
(***************************************************************************)
(* Safety of the recursive Commit for any graph of objects, whatever the   *)
(* custom objects do and whenever the caller cancels.                      *)
(*                                                                         *)
(* The argument: the calls in progress are a path of the graph (StackInv,  *)
(* RegInv); a scope knows a built-in vertex only when it is no longer      *)
(* active, and remembers every failure (ScopeInv); as long as nothing      *)
(* failed, what a scope knows of a vertex is its content and the Roots     *)
(* known for all its children (CleanInv), so that at the end everything    *)
(* reached is staged as it is shown.                                       *)
(***************************************************************************)
EXTENDS ObjectCommit, TLAPS, FiniteSetTheorems, SequenceTheorems, WellFoundedInduction

Known(o) == done[o] # NoSnapshot

\* A sequence of anything.
IsSeq(s) == \E S : s \in Seq(S)

\* The graph: references are objects, labels and indices are numbers.
GraphInv ==
    /\ DOMAIN entries = Containers
    /\ \A o \in Maps : DOMAIN entries[o] \subseteq Labels
    /\ \A o \in Lists : \E n \in Nat : DOMAIN entries[o] = 0..(n - 1)
    /\ \A o \in Containers : References(o) \subseteq Objects

\* The scope of no Commit: nothing active, known, staged or failed.
NewScope ==
    /\ active = {} /\ DOMAIN byCID = {} /\ failed = "ok"
    /\ \A o \in Objects : ~Known(o)
    /\ \A h \in Histories : staged[h] = NotStaged
    /\ \A i \in Ids : ids[i] = Nothing

\* A call waits for the Commit of its next child, and has one.
Awaits(f, c) == f.todo # {} /\ entries[f.self][Min(f.todo)] = c

WellFormed(f) ==
    /\ f = [self |-> f.self, todo |-> f.todo, got |-> f.got] /\ IsSeq(f.got)
    /\ f.self \in Objects
    /\ f.self \in Containers => f.todo \subseteq DOMAIN entries[f.self]
    /\ f.self \notin Containers => f.todo = {}

\* The calls in progress, each called by the one below it.
StackInv ==
    /\ IsSeq(stack)
    /\ \A i \in 1..Len(stack) : WellFormed(stack[i])
    /\ stack # <<>> => stack[1].self \in Managed
    /\ \A i \in 1..(Len(stack) - 1) :
          stack[i].self \in Managed => Awaits(stack[i], stack[i + 1].self)
    /\ \A i, k \in 1..Len(stack) :
          stack[i].self \in Managed /\ stack[k].self = stack[i].self => i = k
    /\ active = {stack[i].self : i \in 1..Len(stack)} \cap Managed

\* The call about to be made or just returned belongs to the innermost call.
RegInv ==
    /\ reg.op \in {"idle", "enter", "run", "return"}
    /\ reg.op = "idle" => reg = Idle /\ stack = <<>> /\ NewScope
    /\ reg.op = "enter" =>
          /\ reg = Enter(reg.obj) /\ reg.obj \in Objects
          /\ stack = <<>> => reg.obj \in Managed /\ NewScope /\ ~erred /\ built = {}
    /\ reg.op = "run" => stack # <<>> /\ Top.self \in Managed
    /\ reg.op \in {"enter", "return"} /\ stack # <<>> /\ Top.self \in Managed =>
          /\ Top.todo # {} /\ Child \notin active
          /\ reg.op = "enter" => Child = reg.obj

\* What is known is not active, and a failure is remembered.
ScopeInv ==
    /\ DOMAIN done = Objects /\ DOMAIN staged = Histories /\ DOMAIN ids = Ids
    /\ \A o \in Managed : Known(o) => o \notin active
    /\ \A r \in DOMAIN byCID : byCID[r] # NoSnapshot
    /\ built \subseteq Managed
    /\ reg.op # "idle" /\ erred => ctx = "canceled" \/ failed # "ok"

\* The children a call has behind it, each with the snapshot known for it.
FrameInv(f) ==
    /\ f.self \in Maps => Reserved[config[f.self]] \notin DOMAIN entries[f.self]
    /\ \A k \in DOMAIN f.got :
          /\ f.got[k].label \in DOMAIN entries[f.self]
          /\ Known(entries[f.self][f.got[k].label])
          /\ f.got[k].value = done[entries[f.self][f.got[k].label]]
    /\ \A l \in DOMAIN entries[f.self] \ f.todo : \E k \in DOMAIN f.got : f.got[k].label = l

\* The bindings of o when the Roots of its children are the ones known.
KnownArcs(o) ==
    {<<l, done[entries[o][l]].root>> : l \in DOMAIN entries[o]}
        \cup {<<Reserved[config[o]], p>> : p \in IF o \in Maps THEN Payloads(o) ELSE {}}

\* A known vertex is staged as it is known, and shows its content.
VertexInv(o) ==
    /\ staged[HistoryOf[o]] = [owner |-> o, value |-> done[o]]
    /\ ids[IdOf[HistoryOf[o]]] = HistoryOf[o]
    /\ o \in Containers =>
          /\ \A c \in References(o) : Known(c)
          /\ o \in Maps => Reserved[config[o]] \notin DOMAIN entries[o]
          /\ IsFiniteSet(KnownArcs(o)) /\ done[o].root.arcs = KnownArcs(o)
          /\ o \in Lists => done[o].root.payload = payload[o]

Clean == reg.op # "idle" /\ ctx = "live" /\ failed = "ok"

\* A failure that returns is a custom object's, a returned vertex is known.
ReturnInv ==
    /\ reg.op = "return" /\ reg.err # "ok" => reg.obj \notin Managed
    /\ reg.op = "return" /\ reg.err = "ok" /\ stack # <<>> /\ Top.self \in Managed =>
          (Child \in Managed => Known(Child))
BuiltInv == \A o \in built : o \in active \/ Known(o)
FramesInv == \A f \in Range(stack) : f.self \in Containers => FrameInv(f)
VerticesInv == \A o \in Managed : Known(o) => VertexInv(o)

CleanInv == Clean => ReturnInv /\ BuiltInv /\ FramesInv /\ VerticesInv

\* What a successful Commit leaves, once it returned.
ResultInv == CommitIsMerkle /\ FailureSticks /\ OneOwner

Inv == GraphInv /\ StackInv /\ RegInv /\ ScopeInv /\ CleanInv /\ ResultInv

-----------------------------------------------------------------------------
(* Sequences, least elements and records.                                   *)

\* A sequence has a length and is empty when that is zero (scope.active, got).
LEMMA SeqFacts ==
    ASSUME NEW s, IsSeq(s)
    PROVE  /\ Len(s) \in Nat /\ DOMAIN s = 1..Len(s)
           /\ s = <<>> <=> Len(s) = 0
           /\ IsFiniteSet(DOMAIN s)
<1> PICK S : s \in Seq(S)
  BY DEF IsSeq
<1>1. Len(s) \in Nat /\ DOMAIN s = 1..Len(s)
  BY LenProperties
<1>2. s = <<>> <=> Len(s) = 0
  BY EmptySeq
<1>3. IsFiniteSet(1..Len(s))
  BY <1>1, FS_Interval
<1> QED BY <1>1, <1>2, <1>3

\* The empty sequence is one (<<>>).
LEMMA SeqEmpty == IsSeq(<<>>) /\ Len(<<>>) = 0 /\ DOMAIN <<>> = {}
<1>1. <<>> \in Seq({}) /\ Len(<<>>) = 0
  BY EmptySeq
<1> QED BY <1>1, LenProperties DEF IsSeq

\* Append adds one element at the end (a call, a child behind a call).
LEMMA SeqAppend ==
    ASSUME NEW s, IsSeq(s), NEW e
    PROVE  /\ IsSeq(Append(s, e))
           /\ Len(Append(s, e)) = Len(s) + 1
           /\ \A i \in 1..Len(s) : Append(s, e)[i] = s[i]
           /\ Append(s, e)[Len(s) + 1] = e
<1> PICK S : s \in Seq(S)
  BY DEF IsSeq
<1>1. s \in Seq(S \cup {e})
  BY SeqMonotonic
<1>2. Append(s, e) \in Seq(S \cup {e})
  BY <1>1
<1> QED BY <1>1, <1>2 DEF IsSeq

\* A return takes the last element away (Pop).
LEMMA SeqPop ==
    ASSUME NEW s, IsSeq(s), s # <<>>
    PROVE  /\ Len(s) \in Nat \ {0}
           /\ IsSeq(SubSeq(s, 1, Len(s) - 1))
           /\ Len(SubSeq(s, 1, Len(s) - 1)) = Len(s) - 1
           /\ \A i \in 1..(Len(s) - 1) : SubSeq(s, 1, Len(s) - 1)[i] = s[i]
<1> PICK S : s \in Seq(S)
  BY DEF IsSeq
<1>1. Len(s) \in Nat \ {0}
  BY EmptySeq
<1> DEFINE m == Len(s) - 1
<1>2. m \in Nat /\ Len(s) = m + 1
  BY <1>1
<1>3. \A i \in 1..m : s[i] \in S
  BY <1>2, ElementOfSeq
<1> HIDE DEF m
<1>4. /\ SubSeq(s, 1, m) \in Seq(S)
      /\ Len(SubSeq(s, 1, m)) = IF 1 <= m THEN m - 1 + 1 ELSE 0
      /\ \A i \in 1..(m - 1 + 1) : SubSeq(s, 1, m)[i] = s[1 + i - 1]
  BY <1>2, <1>3, SubSeqProperties
<1>5. Len(SubSeq(s, 1, m)) = m
  BY <1>2, <1>4
<1>6. \A i \in 1..m : SubSeq(s, 1, m)[i] = s[i]
  BY <1>2, <1>4
<1> QED BY <1>1, <1>4, <1>5, <1>6 DEF m, IsSeq

\* A call that moves on changes the last element only (commitChild).
LEMMA SeqReplace ==
    ASSUME NEW s, IsSeq(s), s # <<>>, NEW e
    PROVE  /\ IsSeq([s EXCEPT ![Len(s)] = e])
           /\ Len([s EXCEPT ![Len(s)] = e]) = Len(s)
           /\ \A i \in 1..(Len(s) - 1) : [s EXCEPT ![Len(s)] = e][i] = s[i]
           /\ [s EXCEPT ![Len(s)] = e][Len(s)] = e
<1> PICK S : s \in Seq(S)
  BY DEF IsSeq
<1>1. Len(s) \in Nat /\ Len(s) \in 1..Len(s)
  BY EmptySeq
<1>2. s \in Seq(S \cup {e})
  BY SeqMonotonic
<1>3. /\ [s EXCEPT ![Len(s)] = e] \in Seq(S \cup {e})
      /\ Len([s EXCEPT ![Len(s)] = e]) = Len(s)
      /\ \A j \in 1..Len(s) :
            [s EXCEPT ![Len(s)] = e][j] = IF j = Len(s) THEN e ELSE s[j]
  BY <1>1, <1>2, ExceptSeq
<1>4. \A i \in 1..(Len(s) - 1) : i \in 1..Len(s) /\ i # Len(s)
  BY <1>1
<1> HIDE DEF IsSeq
<1>5. IsSeq([s EXCEPT ![Len(s)] = e])
  BY <1>3 DEF IsSeq
<1> QED BY <1>1, <1>3, <1>4, <1>5

\* A nonempty set of numbers has a least element (references in label order).
LEMMA MinIsLeast ==
    ASSUME NEW S, S \subseteq Nat, S # {}
    PROVE  Min(S) \in S
<1>1. \E x \in S : \A y \in S : ~(<<y, x>> \in OpToRel(<, Nat))
  BY NatLessThanWellFounded, WFMin
<1>2. PICK x \in S : \A y \in S : <<y, x>> \notin OpToRel(<, Nat)
  BY <1>1
<1>3. \A y \in S : x <= y
  <2> TAKE y \in S
  <2>1. y < x => <<y, x>> \in OpToRel(<, Nat)
    BY DEF OpToRel
  <2>2. ~(y < x)
    BY <1>2, <2>1
  <2>3. x \in Nat /\ y \in Nat
    OBVIOUS
  <2> QED BY <2>2, <2>3
<1> QED BY <1>3 DEF Min

-----------------------------------------------------------------------------
(* The graph.                                                               *)

\* A List has the indices 0 to its length (List).
LEMMA IndicesOfList ==
    ASSUME GraphInv, NEW o \in Lists
    PROVE  Length(o) \in Nat /\ DOMAIN entries[o] = 0..(Length(o) - 1)
<1>1. PICK n \in Nat : DOMAIN entries[o] = 0..(n - 1)
  BY DEF GraphInv
<1>2. Cardinality(0..(n - 1)) = n
  BY FS_Interval
<1> QED BY <1>1, <1>2 DEF Length

\* An edit of one container, which keeps its shape, keeps the graph's (Map, List).
LEMMA OneContainerEdited ==
    ASSUME GraphInv, NEW o \in Containers,
           DOMAIN entries' = Containers,
           \A p \in Containers \ {o} : entries'[p] = entries[p],
           o \in Maps => DOMAIN entries'[o] \subseteq Labels,
           o \in Lists => \E n \in Nat : DOMAIN entries'[o] = 0..(n - 1),
           \A l \in DOMAIN entries'[o] : entries'[o][l] \in Objects
    PROVE  GraphInv'
<1>1. \A p \in Maps : DOMAIN entries'[p] \subseteq Labels
  BY DEF GraphInv, Containers
<1>2. \A p \in Lists : \E n \in Nat : DOMAIN entries'[p] = 0..(n - 1)
  BY DEF GraphInv, Containers
<1>3. \A p \in Containers : References(p)' \subseteq Objects
  BY DEF GraphInv, References
<1> QED BY <1>1, <1>2, <1>3 DEF GraphInv

\* Every edit keeps references to objects under labels or indices (Map, List).
LEMMA EditKeepsGraph ==
    ASSUME GraphInv, EditStep
    PROVE  GraphInv'
<1>1. ASSUME NEW o \in Maps, NEW l \in Labels, NEW t \in Objects, MapSet(o, l, t)
      PROVE  GraphInv'
  <2>1. entries' = [entries EXCEPT ![o] = [x \in DOMAIN @ \cup {l} |->
                                             IF x = l THEN t ELSE @[x]]]
    BY <1>1 DEF MapSet
  <2>5. DOMAIN entries' = Containers /\ \A p \in Containers \ {o} : entries'[p] = entries[p]
    BY <2>1 DEF GraphInv
  <2>2. o \in Containers /\ o \notin Lists
    BY KindAssumption DEF Containers, KindAssumption
  <2>3. /\ DOMAIN entries'[o] = DOMAIN entries[o] \cup {l}
        /\ \A x \in DOMAIN entries'[o] : entries'[o][x] = IF x = l THEN t ELSE entries[o][x]
    BY <2>1, <2>2 DEF GraphInv
  <2>4. \A x \in DOMAIN entries'[o] : entries'[o][x] \in Objects
    BY <2>2, <2>3 DEF GraphInv, References
  <2>6. DOMAIN entries'[o] \subseteq Labels
    BY <2>3 DEF GraphInv
  <2> QED BY <2>2, <2>4, <2>5, <2>6, OneContainerEdited
<1>2. ASSUME NEW o \in Maps, NEW l \in Labels, MapDelete(o, l)
      PROVE  GraphInv'
  <2>1. entries' = [entries EXCEPT ![o] = Restrict(@, DOMAIN @ \ {l})]
    BY <1>2 DEF MapDelete
  <2>2. o \in Containers /\ o \notin Lists
    BY KindAssumption DEF Containers, KindAssumption
  <2>3. /\ DOMAIN entries'[o] = DOMAIN entries[o] \ {l}
        /\ \A x \in DOMAIN entries'[o] : entries'[o][x] = entries[o][x]
    BY <2>1, <2>2 DEF GraphInv, Restrict
  <2>4. \A x \in DOMAIN entries'[o] : entries'[o][x] \in Objects
    BY <2>2, <2>3 DEF GraphInv, References
  <2> QED BY <2>1, <2>2, <2>3, <2>4, OneContainerEdited DEF GraphInv
<1>3. ASSUME NEW o \in Lists, NEW i, NEW t \in Objects, ListSet(o, i, t)
      PROVE  GraphInv'
  <2>1. entries' = [entries EXCEPT ![o][i] = t]
    BY <1>3 DEF ListSet
  <2>2. o \in Containers /\ o \notin Maps
    BY KindAssumption DEF Containers, KindAssumption
  <2>3. /\ DOMAIN entries'[o] = DOMAIN entries[o]
        /\ \A x \in DOMAIN entries'[o] : entries'[o][x] = IF x = i THEN t ELSE entries[o][x]
    BY <2>1, <2>2 DEF GraphInv
  <2>4. \A x \in DOMAIN entries'[o] : entries'[o][x] \in Objects
    BY <2>2, <2>3 DEF GraphInv, References
  <2> QED BY <2>1, <2>2, <2>3, <2>4, OneContainerEdited DEF GraphInv
<1>4. ASSUME NEW o \in Lists, NEW t \in Objects, ListAppend(o, t)
      PROVE  GraphInv'
  <2> DEFINE n == Length(o)
  <2>1. n \in Nat /\ DOMAIN entries[o] = 0..(n - 1)
    BY IndicesOfList
  <2>2. entries' = [entries EXCEPT ![o] = [x \in 0..n |-> IF x = n THEN t ELSE @[x]]]
    BY <1>4 DEF ListAppend
  <2> HIDE DEF n
  <2>3. o \in Containers /\ o \notin Maps
    BY KindAssumption DEF Containers, KindAssumption
  <2>4. /\ DOMAIN entries'[o] = 0..n
        /\ \A x \in 0..n : entries'[o][x] = IF x = n THEN t ELSE entries[o][x]
    BY <2>2, <2>3 DEF GraphInv
  <2>5. DOMAIN entries'[o] = 0..((n + 1) - 1) /\ n + 1 \in Nat
    BY <2>1, <2>4
  <2>6. \A x \in DOMAIN entries'[o] : entries'[o][x] \in Objects
    BY <2>1, <2>3, <2>4 DEF GraphInv, References
  <2> QED BY <2>2, <2>3, <2>5, <2>6, OneContainerEdited DEF GraphInv
<1>5. ASSUME NEW o \in Lists, NEW i, ListRemove(o, i)
      PROVE  GraphInv'
  <2> DEFINE n == Length(o)
  <2>1. n \in Nat /\ DOMAIN entries[o] = 0..(n - 1)
    BY IndicesOfList
  <2>2. entries' = [entries EXCEPT ![o] = [x \in DOMAIN @ \ {n - 1} |->
                                             IF x < i THEN @[x] ELSE @[x + 1]]]
    BY <1>5 DEF ListRemove
  <2>3. i \in 0..(n - 1)
    BY <1>5, <2>1 DEF ListRemove
  <2> HIDE DEF n
  <2>4. o \in Containers /\ o \notin Maps
    BY KindAssumption DEF Containers, KindAssumption
  <2>5. DOMAIN entries'[o] = 0..((n - 1) - 1) /\ n - 1 \in Nat
    BY <2>1, <2>2, <2>3, <2>4 DEF GraphInv
  <2>6. \A x \in DOMAIN entries'[o] : entries'[o][x] \in Objects
    <3>1. \A x \in DOMAIN entries'[o] :
             /\ entries'[o][x] = IF x < i THEN entries[o][x] ELSE entries[o][x + 1]
             /\ x \in DOMAIN entries[o] /\ x + 1 \in DOMAIN entries[o]
      BY <2>1, <2>2, <2>4, <2>5 DEF GraphInv
    <3> QED BY <2>4, <3>1 DEF GraphInv, References
  <2> QED BY <2>2, <2>4, <2>5, <2>6, OneContainerEdited DEF GraphInv
<1>6. ASSUME UNCHANGED entries PROVE GraphInv'
  BY <1>6 DEF GraphInv, References
<1> QED BY <1>1, <1>2, <1>3, <1>4, <1>5, <1>6 DEF EditStep, SetConfig, SetPayload

\* Outside of edits nothing touches the graph (Commit).
LEMMA CommitKeepsGraph ==
    ASSUME [Next]_vars, ~EditStep
    PROVE  UNCHANGED graphVars
BY DEF Next, vars, CommitStep, CustomStep, Begin, Cancel, EnterCanceled, EnterCycle,
       EnterDone, EnterRefused, EnterBuild, ChildCanceled, ChildCycle, ChildDone,
       ChildCalled, ChildFailed, ChildUndefined, ChildMismatch, ChildCommitted,
       BuildFails, StageRefused, StagedInVain, Nested, Confirmed, End, Abort, Succeed,
       CustomDelegates, CustomReturns, CustomForwards, CustomReplaces, WrapperReplaces

-----------------------------------------------------------------------------
(* The shapes of a step: what the proofs need to know of each action.       *)

\* A Commit refuses to enter o: canceled, a cycle or a reserved label.
EntryFails(o) ==
    /\ reg = Enter(o) /\ o \in Managed
    /\ reg' = Returned(o, Undef, reg'.err) /\ reg'.err # "ok"
    /\ ctx = "canceled" \/ failed' # "ok"
    /\ failed # "ok" => failed' # "ok"
    /\ erred'
    /\ UNCHANGED <<graphVars, histVars, ctx, active, done, byCID, staged, ids, stack, built>>

\* The innermost call is given up.
CallFails ==
    /\ Building /\ reg.op \in {"run", "return"} /\ Pop
    /\ active' = active \ {Top.self}
    /\ reg' = Returned(Top.self, Undef, reg'.err) /\ reg'.err # "ok"
    /\ failed' # "ok" /\ erred'
    /\ DOMAIN staged' = DOMAIN staged /\ DOMAIN ids' = DOMAIN ids
    /\ UNCHANGED <<graphVars, histVars, ctx, done, byCID, built>>

\* The vertex of the innermost call is staged and known from now on.
VertexDone(s) ==
    /\ s = NewSnapshot(Top.self, Top.got)
    /\ Succeed(Top.self, s)
    /\ IF Len(stack) = 1 THEN Confirm ELSE Len(stack) > 1 /\ UNCHANGED histVars

\* A custom Commit, or a wrapper, answers for the object it was called for.
CustomAnswers ==
    /\ \/ reg = Enter(reg.obj) /\ reg.obj \in Customs
       \/ stack # <<>> /\ reg.op = "return" /\ reg.obj \in Managed
    /\ reg' = Returned(reg'.obj, reg'.root, reg'.err) /\ reg'.obj \notin Managed
    /\ UNCHANGED <<graphVars, histVars, ctx, scopeVars, stack, auxVars>>

\* A custom Commit returns after its delegate.
CustomResumes ==
    /\ CustomReturning
    /\ reg' = Returned(Top.self, reg'.root, reg'.err)
    /\ UNCHANGED <<graphVars, histVars, ctx, scopeVars, auxVars>>

\* An edit, as far as a Commit is concerned.
Edited ==
    reg = Idle /\ UNCHANGED <<histVars, ctx, scopeVars, stack, reg, auxVars>>

Step ==
    \/ Edited \/ Cancel \/ End
    \/ \E o \in Outermost : Begin(o)
    \/ \E o \in Managed : EntryFails(o) \/ EnterDone(o) \/ EnterBuild(o)
    \/ CallFails \/ ChildDone \/ ChildCalled \/ ChildCommitted
    \/ \E s : VertexDone(s)
    \/ \E o \in Customs : CustomDelegates(o)
    \/ CustomAnswers \/ CustomResumes
    \/ UNCHANGED vars

\* Every step has one of these shapes (withCommit, commitChild, build, stage).
LEMMA StepShapes ==
    ASSUME [Next]_vars
    PROVE  Step
<1> USE DEF Step
<1>1. CASE EditStep
  BY <1>1 DEF EditStep, MapSet, MapDelete, SetConfig, ListSet, ListAppend, ListRemove,
              SetPayload, Edit, Edited
<1>2. CASE \E o \in Managed : EnterCanceled(o) \/ EnterCycle(o) \/ EnterRefused(o)
  <2>1. PICK o \in Managed : EnterCanceled(o) \/ EnterCycle(o) \/ EnterRefused(o)
    BY <1>2
  <2>2. EntryFails(o)
    BY <2>1 DEF EnterCanceled, EnterCycle, EnterRefused, Enterable, EnterManaged, Fail,
                EntryFails, Returned, scopeVars
  <2> QED BY <2>2
<1>3. ASSUME NEW e, e # "ok", Abort(e), Building, reg.op \in {"run", "return"}
      PROVE  CallFails
  BY <1>3 DEF Abort, Fail, CallFails, Returned
<1>4. CASE ChildCanceled \/ ChildCycle \/ ChildFailed \/ ChildUndefined \/ ChildMismatch
           \/ BuildFails \/ StageRefused
  BY <1>4, <1>3 DEF ChildCanceled, ChildCycle, ChildFailed, ChildUndefined, ChildMismatch,
       BuildFails, StageRefused, Visiting, ChildReturning, Finishing, Run
<1>5. CASE StagedInVain
  <2>1. PICK e : /\ e # "ok"
                 /\ Stage(Top.self, NewSnapshot(Top.self, Top.got))
                 /\ Fail(e) /\ Pop
                 /\ active' = active \ {Top.self}
                 /\ reg' = Returned(Top.self, Undef, e)
                 /\ UNCHANGED <<graphVars, histVars, ctx, done, byCID, countVars, built>>
    BY <1>5 DEF StagedInVain
  <2>2. CallFails
    BY <2>1 DEF Stage, Finishing, Run, Fail, CallFails, Returned
  <2> QED BY <2>2
<1>6. CASE Nested \/ Confirmed
  <2> DEFINE s == NewSnapshot(Top.self, Top.got)
  <2> HIDE DEF s
  <2>1. CASE Nested
    <3>1. Succeed(Top.self, s) /\ UNCHANGED histVars /\ Len(stack) > 1
      BY <2>1 DEF Nested, s
    <3>2. Len(stack) # 1
      <4>1. ~(1 > 1)
        OBVIOUS
      <4> QED BY <3>1, <4>1
    <3>3. VertexDone(s)
      BY <3>1, <3>2 DEF VertexDone, s
    <3> QED BY <3>3
  <2>2. CASE Confirmed
    <3>1. VertexDone(s)
      BY <2>2 DEF Confirmed, VertexDone, s
    <3> QED BY <3>1
  <2> QED BY <1>6, <2>1, <2>2
<1>7. CASE CustomStep
  <2>1. ASSUME NEW o \in Customs, NEW r, NEW e, CustomReturns(o, r, e)
        PROVE  CustomAnswers
    BY <2>1, KindAssumption DEF KindAssumption, CustomReturns, CustomOutcome, CustomAnswers,
             Returned, Enter
  <2>2. ASSUME NEW r, NEW e, WrapperReplaces(r, e)
        PROVE  CustomAnswers
    <3>1. Nothing \notin Managed /\ Wrappers \subseteq Managed
      BY KindAssumption DEF KindAssumption, Objects, Managed, Containers
    <3> QED BY <2>2, <3>1 DEF WrapperReplaces, CustomOutcome, CustomAnswers, Returned
  <2>3. ASSUME NEW r, NEW e, CustomReplaces(r, e)
        PROVE  CustomResumes
    BY <2>3 DEF CustomReplaces, CustomOutcome, CustomResumes, Returned
  <2>4. CASE CustomForwards
    BY <2>4 DEF CustomForwards, CustomResumes, Returned
  <2> QED BY <1>7, <2>1, <2>2, <2>3, <2>4 DEF CustomStep
<1>8. CASE Cancel \/ End \/ ChildDone \/ ChildCalled \/ ChildCommitted \/ UNCHANGED vars
  BY <1>8
<1>9. CASE \E o \in Managed : EnterDone(o) \/ EnterBuild(o)
  BY <1>9
<1> QED
  BY <1>1, <1>2, <1>4, <1>5, <1>6, <1>7, <1>8, <1>9 DEF Next, CommitStep

-----------------------------------------------------------------------------
(* The calls in progress.                                                   *)

\* The innermost call exists, and is active if it is one of the package.
LEMMA TopFacts ==
    ASSUME StackInv, stack # <<>>
    PROVE  /\ Len(stack) \in Nat \ {0} /\ Len(stack) \in 1..Len(stack)
           /\ WellFormed(Top) /\ Top.self \in Objects
           /\ Top.self \in Managed => Top.self \in active
           /\ active \subseteq Managed
<1>1. Len(stack) \in Nat \ {0} /\ Len(stack) \in 1..Len(stack)
  BY SeqFacts DEF StackInv
<1>2. WellFormed(Top)
  BY <1>1 DEF StackInv, Top, WellFormed
<1>3. Top.self \in Objects
  BY <1>2 DEF WellFormed
<1> QED BY <1>1, <1>2, <1>3 DEF StackInv, Top

\* Where no call begins or ends the calls stay as they are.
LEMMA SameStack ==
    ASSUME StackInv, UNCHANGED <<stack, active>>, stack = <<>> \/ UNCHANGED entries
    PROVE  StackInv'
<1>1. CASE stack = <<>>
  BY <1>1, SeqEmpty DEF StackInv
<1>2. CASE UNCHANGED entries
  BY <1>2 DEF StackInv, WellFormed, Awaits
<1> QED BY <1>1, <1>2

\* A new call is one the innermost call waits for, and is not in progress.
LEMMA PushKeepsStack ==
    ASSUME StackInv, UNCHANGED entries, NEW f, stack' = Append(stack, f),
           WellFormed(f),
           stack = <<>> => f.self \in Managed,
           stack # <<>> /\ Top.self \in Managed => Awaits(Top, f.self),
           f.self \notin active,
           active' = active \cup ({f.self} \cap Managed)
    PROVE  /\ StackInv'
           /\ Len(stack') = Len(stack) + 1 /\ Top' = f
           /\ \A i \in 1..Len(stack) : stack'[i] = stack[i]
<1> DEFINE n == Len(stack)
<1>1. /\ n \in Nat /\ Len(stack') = n + 1 /\ stack'[n + 1] = f
      /\ \A i \in 1..n : stack'[i] = stack[i]
      /\ IsSeq(stack)'
  <2>1. IsSeq(stack)
    BY DEF StackInv
  <2>2. /\ IsSeq(Append(stack, f))
        /\ Len(Append(stack, f)) = n + 1
        /\ \A i \in 1..n : Append(stack, f)[i] = stack[i]
        /\ Append(stack, f)[n + 1] = f
    BY <2>1, SeqAppend
  <2>3. n \in Nat
    BY <2>1, SeqFacts
  <2> HIDE DEF n
  <2> QED BY <2>2, <2>3
<1>2. stack = <<>> <=> n = 0
  BY SeqFacts DEF StackInv
<1> HIDE DEF n
<1>3. \A i \in 1..(n + 1) : i \in 1..n \/ i = n + 1
  BY <1>1
<1>4. \A i \in 1..Len(stack') : WellFormed(stack[i])'
  <2> SUFFICES ASSUME NEW i \in 1..(n + 1) PROVE WellFormed(stack[i])'
    BY <1>1
  <2>1. CASE i \in 1..n
    BY <1>1, <2>1 DEF StackInv, WellFormed, n
  <2>2. CASE i = n + 1
    BY <1>1, <2>2 DEF WellFormed
  <2> QED BY <1>3, <2>1, <2>2
<1>5. stack'[1].self \in Managed
  <2>1. CASE n = 0
    BY <1>1, <1>2, <2>1
  <2>2. CASE n # 0
    BY <1>1, <1>2, <2>2 DEF StackInv
  <2> QED BY <2>1, <2>2
<1>6. \A i \in 1..(Len(stack') - 1) :
         stack'[i].self \in Managed => Awaits(stack[i], stack[i + 1].self)'
  <2> SUFFICES ASSUME NEW i \in 1..n, stack'[i].self \in Managed
               PROVE  Awaits(stack[i], stack[i + 1].self)'
    BY <1>1
  <2>1. CASE i = n
    BY <1>1, <1>2, <2>1 DEF Awaits, Top, n
  <2>2. CASE i # n
    <3>1. i \in 1..(n - 1) /\ i + 1 \in 1..n
      BY <1>1, <2>2
    <3> QED BY <1>1, <3>1 DEF StackInv, Awaits, n
  <2> QED BY <2>1, <2>2
<1>7. \A i, k \in 1..Len(stack') :
         stack'[i].self \in Managed /\ stack'[k].self = stack'[i].self => i = k
  <2>1. \A i \in 1..n : stack'[i].self \in Managed => stack'[i].self # f.self
    BY <1>1 DEF StackInv, n
  <2> QED BY <1>1, <1>3, <2>1 DEF StackInv, n
<1>8. active' = {stack'[i].self : i \in 1..Len(stack')} \cap Managed
  BY <1>1, <1>3 DEF StackInv, n
<1>9. StackInv'
  BY <1>1, <1>4, <1>5, <1>6, <1>7, <1>8 DEF StackInv
<1> QED BY <1>1, <1>9 DEF Top, n

\* A call that returns is the one the next one waits for (withCommit).
LEMMA PopKeepsStack ==
    ASSUME StackInv, UNCHANGED entries, stack # <<>>, Pop,
           active' = active \ {Top.self}
    PROVE  /\ StackInv'
           /\ Len(stack') = Len(stack) - 1
           /\ \A i \in 1..Len(stack') : stack'[i] = stack[i]
           /\ stack' = <<>> => Top.self \in Managed
           /\ stack' # <<>> /\ Top'.self \in Managed =>
                 Top'.todo # {} /\ Child' = Top.self /\ Top.self \notin active'
<1> DEFINE n == Len(stack)
<1>1. /\ n \in Nat \ {0} /\ Len(stack') = n - 1
      /\ \A i \in 1..(n - 1) : stack'[i] = stack[i]
      /\ IsSeq(stack)'
  BY SeqFacts, SeqPop DEF StackInv, Pop, IsSeq
<1>2. stack' = <<>> <=> n - 1 = 0
  BY <1>1, SeqFacts
<1> HIDE DEF n
<1>3. \A i \in 1..(n - 1) : i \in 1..n /\ i # n
  BY <1>1
<1>4. Top = stack[n] /\ n \in 1..n
  BY <1>1 DEF Top, n
<1>5. \A i \in 1..Len(stack') : WellFormed(stack[i])'
  BY <1>1, <1>3 DEF StackInv, WellFormed, n
<1>6. stack' # <<>> => stack'[1].self \in Managed
  BY <1>1, <1>2 DEF StackInv
<1>7. \A i \in 1..(n - 1) : stack'[i].self \in Managed =>
         stack[i].todo # {} /\ entries[stack[i].self][Min(stack[i].todo)] = stack[i + 1].self
  BY <1>1, <1>3 DEF StackInv, Awaits, n
<1>8. \A i \in 1..(Len(stack') - 1) :
         stack'[i].self \in Managed => Awaits(stack[i], stack[i + 1].self)'
  <2> SUFFICES ASSUME NEW i \in 1..(n - 2), stack'[i].self \in Managed
               PROVE  Awaits(stack[i], stack[i + 1].self)'
    BY <1>1
  <2>1. i \in 1..(n - 1) /\ i + 1 \in 1..(n - 1)
    BY <1>1
  <2> QED BY <1>1, <1>7, <2>1 DEF Awaits
<1>9. \A i, k \in 1..Len(stack') :
         stack'[i].self \in Managed /\ stack'[k].self = stack'[i].self => i = k
  BY <1>1, <1>3 DEF StackInv, n
<1>10. active' = {stack'[i].self : i \in 1..Len(stack')} \cap Managed
  <2>1. \A i \in 1..(n - 1) : stack[i].self \in Managed => stack[i].self # stack[n].self
    BY <1>3, <1>4 DEF StackInv, n
  <2>2. \A i \in 1..n : i \in 1..(n - 1) \/ i = n
    BY <1>1
  <2> QED BY <1>1, <1>3, <1>4, <2>1, <2>2 DEF StackInv, n
<1>11. StackInv'
  BY <1>1, <1>5, <1>6, <1>8, <1>9, <1>10 DEF StackInv
<1>12. stack' # <<>> /\ Top'.self \in Managed =>
         Top'.todo # {} /\ Child' = Top.self /\ Top.self \notin active'
  <2> SUFFICES ASSUME stack' # <<>>, Top'.self \in Managed
               PROVE  Top'.todo # {} /\ Child' = Top.self
    OBVIOUS
  <2>1. n - 1 \in 1..(n - 1) /\ (n - 1) + 1 = n
    BY <1>1, <1>2
  <2>2. Top' = stack[n - 1]
    BY <1>1, <2>1 DEF Top
  <2> QED BY <1>4, <1>7, <1>1, <2>1, <2>2 DEF Child, NextLabel
<1>13. stack' = <<>> => Top.self \in Managed
  BY <1>1, <1>2, <1>4 DEF StackInv
<1> QED BY <1>1, <1>11, <1>12, <1>13 DEF n

\* A call that got a child waits for the next one (commitChild).
LEMMA GotKeepsStack ==
    ASSUME StackInv, UNCHANGED <<entries, active>>, stack # <<>>,
           Top.self \in Containers, Top.todo # {}, NEW v, Got(v)
    PROVE  /\ StackInv'
           /\ Len(stack') = Len(stack)
           /\ \A i \in 1..(Len(stack) - 1) : stack'[i] = stack[i]
           /\ Top' = [self |-> Top.self, todo |-> Top.todo \ {NextLabel},
                      got |-> Append(Top.got, [label |-> NextLabel, value |-> v])]
<1> DEFINE n == Len(stack)
           f == [self |-> Top.self, todo |-> Top.todo \ {NextLabel},
                 got |-> Append(Top.got, [label |-> NextLabel, value |-> v])]
<1>1. Top = [self |-> Top.self, todo |-> Top.todo, got |-> Top.got] /\ WellFormed(Top)
  BY TopFacts DEF WellFormed
<1>2. n \in Nat \ {0} /\ n \in 1..n
  BY TopFacts
<1>3. stack' = [stack EXCEPT ![Len(stack)] = f]
  BY DEF Got, Top
<1> HIDE DEF f
<1>4. /\ IsSeq(stack)' /\ Len(stack') = n
      /\ \A i \in 1..(n - 1) : stack'[i] = stack[i]
      /\ stack'[n] = f
  <2>1. IsSeq(stack)
    BY DEF StackInv
  <2>2. /\ IsSeq([stack EXCEPT ![n] = f])
        /\ Len([stack EXCEPT ![n] = f]) = n
        /\ \A i \in 1..(n - 1) : [stack EXCEPT ![n] = f][i] = stack[i]
        /\ [stack EXCEPT ![n] = f][n] = f
    BY <2>1, SeqReplace
  <2>3. stack' = [stack EXCEPT ![n] = f]
    BY <1>3
  <2> HIDE DEF n
  <2> QED BY <2>2, <2>3
<1> HIDE DEF n
<1>5. Top = stack[n] /\ f.self = Top.self
  BY DEF Top, n, f
<1>6. \A i \in 1..n : i \in 1..(n - 1) \/ i = n
  BY <1>2
<1>7. WellFormed(f)
  <2>1. IsSeq(f.got)
    BY <1>1, SeqAppend DEF WellFormed, f
  <2>2. f = [self |-> f.self, todo |-> f.todo, got |-> f.got] /\ f.todo \subseteq Top.todo
    BY DEF f
  <2> QED BY <1>1, <1>5, <2>1, <2>2 DEF WellFormed
<1>8. \A i \in 1..n : WellFormed(stack[i])'
  <2> TAKE i \in 1..n
  <2>1. CASE i = n
    BY <1>4, <1>7, <2>1 DEF WellFormed
  <2>2. CASE i # n
    BY <1>4, <1>6, <2>2 DEF StackInv, WellFormed, n
  <2> QED BY <2>1, <2>2
<1>9. \A i \in 1..n : stack'[i].self = stack[i].self
  BY <1>4, <1>5, <1>6
<1>10. \A i \in 1..(n - 1) :
         stack'[i].self \in Managed => Awaits(stack[i], stack[i + 1].self)'
  <2> SUFFICES ASSUME NEW i \in 1..(n - 1), stack'[i].self \in Managed
               PROVE  Awaits(stack[i], stack[i + 1].self)'
    OBVIOUS
  <2>1. i + 1 \in 1..n /\ i \in 1..n
    BY <1>2
  <2>2. stack'[i + 1].self = stack[i + 1].self /\ stack'[i] = stack[i]
    BY <1>4, <1>9, <2>1
  <2> QED BY <2>2 DEF StackInv, Awaits, n
<1>11. StackInv'
  <2>1. 1 \in 1..n
    BY <1>2
  <2>2. stack'[1].self \in Managed
    BY <1>9, <2>1 DEF StackInv
  <2>3. active' = {stack'[i].self : i \in 1..n} \cap Managed
    BY <1>9 DEF StackInv, n
  <2>4. \A i, k \in 1..n :
           stack'[i].self \in Managed /\ stack'[k].self = stack'[i].self => i = k
    BY <1>9 DEF StackInv, n
  <2> QED BY <1>4, <1>8, <1>10, <2>2, <2>3, <2>4 DEF StackInv
<1>12. Top' = f
  BY <1>4 DEF Top
<1> QED BY <1>4, <1>11, <1>12 DEF n, f

\* Snapshots are not nil (newSnapshot, opaque).
LEMMA SnapshotsExist ==
    /\ \A o, got : NewSnapshot(o, got) # NoSnapshot
    /\ \A r : Opaque(r) # NoSnapshot
<1>1. \A r : Opaque(r).local # NoSnapshot.local
  BY DEF Opaque, NoSnapshot
<1>2. \A o, got : NewSnapshot(o, got).local # NoSnapshot.local
  BY DEF NewSnapshot, NoSnapshot
<1> QED BY <1>1, <1>2

\* The kinds of objects are disjoint (Object).
LEMMA Kinds ==
    /\ Managed \subseteq Objects /\ Containers \subseteq Managed
    /\ Maps \subseteq Containers /\ Lists \subseteq Containers
    /\ \A o \in Managed : o \in Leaves \/ o \in Containers
    /\ \A o \in Leaves : o \notin Containers
    /\ \A o \in Lists : o \notin Maps
    /\ \A o \in Customs : o \in Objects /\ o \notin Managed /\ Delegate[o] \in Managed
    /\ Outermost \subseteq Managed /\ Nothing \notin Objects /\ Nothing \notin Histories
    /\ \A o \in Managed : HistoryOf[o] \in Histories /\ IdOf[HistoryOf[o]] \in Ids
BY KindAssumption DEF KindAssumption, Objects, Managed, Containers, Histories, Ids

\* While a call waits for a child, it is of a container and has the child.
LEMMA ChildFacts ==
    ASSUME GraphInv, StackInv, Building, Top.todo # {}
    PROVE  /\ Top.self \in Containers
           /\ NextLabel \in Top.todo /\ NextLabel \in DOMAIN entries[Top.self]
           /\ Child \in References(Top.self) /\ Child \in Objects
<1>1. WellFormed(Top) /\ stack # <<>>
  BY TopFacts DEF Building
<1>2. Top.self \in Containers /\ Top.todo \subseteq DOMAIN entries[Top.self]
  BY <1>1 DEF WellFormed
<1>3. Top.todo \subseteq Nat
  <2>1. CASE Top.self \in Maps
    BY <1>2, <2>1, GraphAssumption DEF GraphInv, GraphAssumption
  <2>2. CASE Top.self \in Lists
    <3>1. PICK n \in Nat : DOMAIN entries[Top.self] = 0..(n - 1)
      BY <2>2 DEF GraphInv
    <3> QED BY <1>2, <3>1
  <2> QED BY <1>2, <2>1, <2>2 DEF Containers
<1>4. NextLabel \in Top.todo
  BY <1>3, MinIsLeast DEF NextLabel
<1> QED BY <1>2, <1>4 DEF GraphInv, References, Child

\* The calls in progress stay a path, whatever the step (withCommit, commitChild).
LEMMA StackStep ==
    ASSUME GraphInv, StackInv, RegInv, Step
    PROVE  StackInv'
<1>1. CASE Edited
  BY <1>1, SameStack DEF Edited, Idle, RegInv, scopeVars
<1>2. CASE Cancel \/ UNCHANGED vars \/ ChildCalled \/ CustomAnswers
  <2>1. UNCHANGED <<stack, active, entries>>
    BY <1>2 DEF Cancel, ChildCalled, CustomAnswers, vars, scopeVars, graphVars
  <2> QED BY <2>1, SameStack
<1>3. CASE \E o \in Managed : EntryFails(o) \/ EnterDone(o)
  <2>1. UNCHANGED <<stack, active, entries>>
    BY <1>3 DEF EntryFails, EnterDone, vars, scopeVars, graphVars
  <2> QED BY <2>1, SameStack
<1>4. CASE \E o \in Outermost : Begin(o)
  <2>1. UNCHANGED <<stack, active, entries>>
    BY <1>4 DEF Begin, scopeVars, graphVars
  <2> QED BY <2>1, SameStack
<1>5. CASE End
  <2>1. active = {}
    BY <1>5, SeqEmpty DEF End, StackInv
  <2> QED BY <1>5, <2>1, SameStack DEF End
<1>6. ASSUME NEW o \in Managed, EnterBuild(o) PROVE StackInv'
  <2> DEFINE f == IF o \in Leaves THEN CustomFrame(o) ELSE Frame(o)
  <2>1. WellFormed(f) /\ f.self = o
    BY Kinds, SeqEmpty DEF WellFormed, CustomFrame, Frame
  <2>2. reg = Enter(o) /\ o \notin active /\ UNCHANGED entries
    BY <1>6 DEF EnterBuild, Enterable, EnterManaged, graphVars
  <2>3. stack # <<>> /\ Top.self \in Managed => Awaits(Top, o)
    BY <2>2 DEF RegInv, Enter, Awaits, Child, NextLabel
  <2>4. stack' = Append(stack, f) /\ active' = active \cup ({o} \cap Managed)
    BY <1>6 DEF EnterBuild
  <2> HIDE DEF f
  <2> QED BY <2>1, <2>2, <2>3, <2>4, PushKeepsStack
<1>7. ASSUME NEW o \in Customs, CustomDelegates(o) PROVE StackInv'
  <2> DEFINE f == CustomFrame(o)
  <2>1. WellFormed(f) /\ f.self = o
    BY Kinds, SeqEmpty DEF WellFormed, CustomFrame
  <2>2. reg = Enter(o) /\ UNCHANGED <<active, entries>>
    BY <1>7 DEF CustomDelegates, graphVars, scopeVars
  <2>3. stack # <<>> /\ (Top.self \in Managed => Awaits(Top, o))
    BY <2>2, Kinds DEF RegInv, Enter, Awaits, Child, NextLabel
  <2>4. o \notin active
    BY Kinds DEF StackInv
  <2>5. stack' = Append(stack, f) /\ active' = active \cup ({o} \cap Managed)
    BY <1>7, <2>2, Kinds DEF CustomDelegates
  <2> HIDE DEF f
  <2> QED BY <2>1, <2>2, <2>3, <2>4, <2>5, PushKeepsStack
<1>8. CASE CallFails \/ (\E s : VertexDone(s)) \/ CustomResumes
  <2>1. stack # <<>> /\ Pop /\ UNCHANGED entries
    BY <1>8 DEF CallFails, VertexDone, CustomResumes, CustomReturning, Building, Succeed,
                Stage, Finishing, graphVars
  <2>2. CASE CustomResumes
    <3>1. active' = active \ {Top.self}
      BY <2>2, Kinds DEF CustomResumes, CustomReturning, scopeVars, StackInv
    <3> QED BY <2>1, <3>1, PopKeepsStack
  <2>3. CASE CallFails \/ \E s : VertexDone(s)
    <3>1. active' = active \ {Top.self}
      BY <2>3 DEF CallFails, VertexDone, Succeed
    <3> QED BY <2>1, <3>1, PopKeepsStack
  <2> QED BY <1>8, <2>2, <2>3
<1>9. CASE ChildDone \/ ChildCommitted
  <2>1. Building /\ Top.todo # {} /\ UNCHANGED <<entries, active>>
    BY <1>9 DEF ChildDone, ChildCommitted, Visiting, ChildReturning, RegInv, Building,
                graphVars, scopeVars
  <2>2. \E v : Got(v)
    BY <1>9 DEF ChildDone, ChildCommitted
  <2> QED BY <2>1, <2>2, ChildFacts, GotKeepsStack DEF Building
<1> QED
  BY <1>1, <1>2, <1>3, <1>4, <1>5, <1>6, <1>7, <1>8, <1>9 DEF Step

\* The call about to be made or just returned is the innermost one's next child.
LEMMA RegStep ==
    ASSUME GraphInv, StackInv, RegInv, Step
    PROVE  RegInv'
<1>1. CASE Edited \/ UNCHANGED vars
  <2>1. CASE Edited
    BY <2>1 DEF Edited, Idle, RegInv, NewScope, Known, scopeVars, auxVars
  <2>2. CASE UNCHANGED vars
    BY <2>2 DEF vars, RegInv, NewScope, Known, scopeVars, auxVars, graphVars, Top, Child,
             NextLabel
  <2> QED BY <1>1, <2>1, <2>2
<1>2. CASE Cancel
  BY <1>2 DEF Cancel, RegInv, NewScope, Known, scopeVars, auxVars, graphVars, Top, Child,
           NextLabel
<1>3. CASE \E o \in Outermost : Begin(o)
  <2>1. PICK o \in Outermost : Begin(o)
    BY <1>3
  <2>2. reg = Idle /\ NewScope /\ stack = <<>>
    BY <2>1 DEF Begin, RegInv, Idle
  <2>3. NewScope' /\ stack' = <<>>
    BY <2>1, <2>2 DEF Begin, NewScope, Known, scopeVars
  <2>4. reg' = Enter(o) /\ ~erred' /\ built' = {}
    BY <2>1 DEF Begin
  <2> QED BY <2>3, <2>4, Kinds DEF RegInv, Enter
<1>4. CASE End
  <2>1. NewScope' /\ reg' = Idle /\ stack' = <<>>
    BY <1>4, SeqEmpty, Kinds DEF End, NewScope, Known
  <2> QED BY <2>1 DEF RegInv, Idle
<1>5. ASSUME NEW o \in Managed, EntryFails(o) \/ EnterDone(o) PROVE RegInv'
  <2>1. reg = Enter(o) /\ reg'.op = "return"
    BY <1>5 DEF EntryFails, EnterDone, EnterManaged, Returned
  <2>2. UNCHANGED <<entries, stack, active>>
    BY <1>5 DEF EntryFails, EnterDone, graphVars, scopeVars
  <2> QED BY <2>1, <2>2 DEF RegInv, Enter, Top, Child, NextLabel
<1>6. ASSUME NEW o \in Managed, EnterBuild(o) PROVE RegInv'
  <2> DEFINE f == IF o \in Leaves THEN CustomFrame(o) ELSE Frame(o)
  <2>1. stack' = Append(stack, f) /\ reg' = Run /\ f.self = o
    BY <1>6 DEF EnterBuild, CustomFrame, Frame
  <2> HIDE DEF f
  <2>2. stack' # <<>> /\ Top' = f
    <3>1. IsSeq(stack)
      BY DEF StackInv
    <3>2. /\ IsSeq(stack') /\ Len(stack') = Len(stack) + 1 /\ Len(stack) \in Nat
          /\ stack'[Len(stack) + 1] = f
      BY <2>1, <3>1, SeqAppend, SeqFacts
    <3> QED BY <3>2, SeqFacts DEF Top
  <2> QED BY <2>1, <2>2 DEF RegInv, Run
<1>7. CASE CallFails \/ (\E s : VertexDone(s)) \/ CustomResumes
  <2>1. stack # <<>> /\ Pop /\ UNCHANGED entries
    BY <1>7 DEF CallFails, VertexDone, CustomResumes, CustomReturning, Building, Succeed,
                Stage, Finishing, graphVars
  <2>2. active' = active \ {Top.self}
    <3>1. CASE CustomResumes
      BY <3>1, Kinds DEF CustomResumes, CustomReturning, scopeVars, StackInv
    <3>2. CASE CallFails \/ \E s : VertexDone(s)
      BY <3>2 DEF CallFails, VertexDone, Succeed
    <3> QED BY <1>7, <3>1, <3>2
  <2>3. stack' # <<>> /\ Top'.self \in Managed =>
          Top'.todo # {} /\ Child' = Top.self /\ Top.self \notin active'
    BY <2>1, <2>2, PopKeepsStack
  <2>4. reg'.op = "return"
    <3>1. \A o, r, e : Returned(o, r, e).op = "return"
      BY DEF Returned
    <3>2. \E o, r, e : reg' = Returned(o, r, e)
      <4>1. CASE CallFails
        BY <4>1 DEF CallFails
      <4>2. CASE CustomResumes
        BY <4>2 DEF CustomResumes
      <4>3. ASSUME NEW s, VertexDone(s) PROVE \E o, r, e : reg' = Returned(o, r, e)
        BY <4>3 DEF VertexDone, Succeed
      <4> QED BY <1>7, <4>1, <4>2, <4>3
    <3> QED BY <3>1, <3>2
  <2> QED BY <2>3, <2>4 DEF RegInv
<1>8. CASE ChildDone \/ ChildCommitted
  <2>1. Building /\ Top.todo # {} /\ UNCHANGED <<entries, active>>
    BY <1>8 DEF ChildDone, ChildCommitted, Visiting, ChildReturning, RegInv, Building,
                graphVars, scopeVars
  <2>2. \E v : Got(v)
    BY <1>8 DEF ChildDone, ChildCommitted
  <2>3. StackInv' /\ Len(stack') = Len(stack) /\ Top'.self = Top.self
    <3>1. stack # <<>> /\ Top.self \in Containers
      BY <2>1, ChildFacts DEF Building
    <3>2. PICK v : Got(v)
      BY <2>2
    <3>3. /\ StackInv' /\ Len(stack') = Len(stack)
          /\ Top' = [self |-> Top.self, todo |-> Top.todo \ {NextLabel},
                     got |-> Append(Top.got, [label |-> NextLabel, value |-> v])]
      BY <2>1, <3>1, <3>2, GotKeepsStack
    <3> QED BY <3>3
  <2>4. stack' # <<>>
    BY <2>1, <2>3, SeqFacts DEF StackInv, Building
  <2>5. reg' = Run
    BY <1>8 DEF ChildDone, ChildCommitted, Visiting
  <2> QED BY <2>1, <2>3, <2>4, <2>5 DEF RegInv, Run, Building
<1>9. CASE ChildCalled
  <2>1. /\ Building /\ Top.todo # {} /\ Child \notin active /\ reg' = Enter(Child)
        /\ UNCHANGED <<entries, active, stack>>
    BY <1>9 DEF ChildCalled, Visiting, graphVars, scopeVars
  <2>2. Child \in Objects
    BY <2>1, ChildFacts
  <2>3. Child' = Child /\ Top' = Top
    BY <2>1 DEF Child, NextLabel, Top
  <2>4. PICK c : c = Child
    OBVIOUS
  <2> QED BY <2>1, <2>2, <2>3, <2>4 DEF RegInv, Enter, Building
<1>10. CASE CustomAnswers
  <2>1. /\ reg.op \in {"enter", "return"} /\ stack # <<>> /\ reg'.op = "return"
        /\ UNCHANGED <<entries, active, stack>>
    BY <1>10, Kinds DEF CustomAnswers, RegInv, Enter, Returned, graphVars, scopeVars
  <2>2. Child' = Child /\ Top' = Top
    BY <2>1 DEF Child, NextLabel, Top
  <2> QED BY <2>1, <2>2 DEF RegInv
<1>11. ASSUME NEW o \in Customs, CustomDelegates(o) PROVE RegInv'
  <2>1. reg' = Enter(Delegate[o]) /\ Delegate[o] \in Objects
    BY <1>11, Kinds DEF CustomDelegates
  <2>2. stack' = Append(stack, CustomFrame(o)) /\ CustomFrame(o).self \notin Managed
    BY <1>11, Kinds DEF CustomDelegates, CustomFrame
  <2>3. stack' # <<>> /\ Top'.self \notin Managed
    <3>1. IsSeq(stack)
      BY DEF StackInv
    <3>2. /\ IsSeq(stack') /\ Len(stack') = Len(stack) + 1 /\ Len(stack) \in Nat
          /\ stack'[Len(stack) + 1] = CustomFrame(o)
      BY <2>2, <3>1, SeqAppend, SeqFacts
    <3> QED BY <2>2, <3>2, SeqFacts DEF Top
  <2> QED BY <2>1, <2>3 DEF RegInv, Enter
<1> QED
  BY <1>1, <1>2, <1>3, <1>4, <1>5, <1>6, <1>7, <1>8, <1>9, <1>10, <1>11 DEF Step

\* What is known is not active, and a failure is remembered (fail, withCommit).
LEMMA ScopeStep ==
    ASSUME GraphInv, StackInv, RegInv, ScopeInv, Step
    PROVE  ScopeInv'
<1>1. CASE Edited \/ Cancel \/ UNCHANGED vars \/ ChildDone \/ ChildCalled \/ CustomAnswers
           \/ CustomResumes \/ (\E o \in Customs : CustomDelegates(o))
           \/ (\E o \in Managed : EnterDone(o))
  <2>1. UNCHANGED <<active, done, byCID, staged, ids, failed, built, erred>>
    BY <1>1 DEF Edited, Cancel, vars, ChildDone, ChildCalled, CustomAnswers, CustomResumes,
                CustomDelegates, EnterDone, scopeVars, auxVars
  <2>2. (reg'.op # "idle" => reg.op # "idle") /\ (ctx = "canceled" => ctx' = "canceled")
    BY <1>1 DEF Edited, Cancel, vars, ChildDone, ChildCalled, CustomAnswers, CustomResumes,
                CustomDelegates, EnterDone, CustomReturning, EnterManaged, Enter, Visiting,
                Run, Idle, RegInv, scopeVars, auxVars
  <2> QED BY <2>1, <2>2 DEF ScopeInv, Known
<1>2. CASE \E o \in Outermost : Begin(o)
  BY <1>2 DEF Begin, ScopeInv, Known, scopeVars
<1>3. CASE End
  BY <1>3, SeqEmpty DEF End, ScopeInv, Idle, auxVars
<1>4. CASE \E o \in Managed : EntryFails(o)
  BY <1>4 DEF EntryFails, ScopeInv, Known
<1>5. CASE \E o \in Managed : EnterBuild(o)
  BY <1>5 DEF EnterBuild, Enterable, EnterManaged, Enter, Run, ScopeInv, Known
<1>6. CASE CallFails
  BY <1>6 DEF CallFails, ScopeInv, Known
<1>7. ASSUME NEW s, VertexDone(s) PROVE ScopeInv'
  <2>1. PICK o : o = Top.self
    OBVIOUS
  <2>2. o \in Managed /\ s # NoSnapshot
    BY <1>7, <2>1, SnapshotsExist DEF VertexDone, Succeed, Stage, Finishing, Building
  <2>3. done' = [done EXCEPT ![o] = s] /\ active' = active \ {o}
    BY <1>7, <2>1 DEF VertexDone, Succeed
  <2>4. byCID' = [r \in DOMAIN byCID \cup {s.root} |-> IF r = s.root THEN s ELSE byCID[r]]
    BY <1>7 DEF VertexDone, Succeed
  <2>5. DOMAIN staged' = DOMAIN staged /\ DOMAIN ids' = DOMAIN ids
    BY <1>7 DEF VertexDone, Succeed, Stage
  <2>6. UNCHANGED <<built, erred, ctx, failed>> /\ ctx = "live" /\ failed = "ok"
        /\ reg.op = "run"
    BY <1>7 DEF VertexDone, Succeed, Stage, Finishing, Run, auxVars
  <2> QED BY <2>2, <2>3, <2>4, <2>5, <2>6 DEF ScopeInv, Known
<1>8. CASE ChildCommitted
  <2>1. PICK c, s : c = Child /\ s = Resolved(Child, reg.root)
    OBVIOUS
  <2>2. c \notin active /\ reg.op = "return"
    BY <1>8, <2>1 DEF ChildCommitted, ChildReturning, Building, RegInv
  <2>3. s # NoSnapshot
    BY <2>1, SnapshotsExist DEF Resolved, ScopeInv
  <2>4. done' = [done EXCEPT ![c] = s]
    BY <1>8, <2>1 DEF ChildCommitted
  <2>5. UNCHANGED <<active, byCID, staged, ids, built, erred, ctx, failed>>
    BY <1>8 DEF ChildCommitted, auxVars
  <2> QED BY <2>2, <2>3, <2>4, <2>5 DEF ScopeInv, Known
<1> QED
  BY <1>1, <1>2, <1>3, <1>4, <1>5, <1>6, <1>7, <1>8 DEF Step

-----------------------------------------------------------------------------
(* What a scope knows as long as nothing failed.                            *)

\* What is known stays known as it is (done).
KeepsKnown == \A o \in Objects : Known(o) => done'[o] = done[o]

\* A call keeps the children it has behind it (commitChild).
LEMMA FrameKept ==
    ASSUME GraphInv, KeepsKnown, UNCHANGED <<entries, config>>,
           NEW f, f.self \in Containers, FrameInv(f)
    PROVE  FrameInv(f)'
<1>1. \A l \in DOMAIN entries[f.self] : entries[f.self][l] \in Objects
  BY DEF GraphInv, References
<1>2. \A k \in DOMAIN f.got :
         done'[entries[f.self][f.got[k].label]] = done[entries[f.self][f.got[k].label]]
  BY <1>1 DEF FrameInv, KeepsKnown
<1> QED BY <1>2 DEF FrameInv, Known

\* A known vertex keeps its content and its place in the scope (stage).
LEMMA VertexKept ==
    ASSUME GraphInv, KeepsKnown, UNCHANGED graphVars,
           NEW o \in Managed, Known(o), VertexInv(o),
           staged'[HistoryOf[o]] = staged[HistoryOf[o]],
           ids'[IdOf[HistoryOf[o]]] = ids[IdOf[HistoryOf[o]]]
    PROVE  Known(o)' /\ VertexInv(o)'
<1>1. done'[o] = done[o]
  BY Kinds DEF KeepsKnown
<1>2. CASE o \notin Containers
  BY <1>1, <1>2 DEF VertexInv, Known
<1>3. CASE o \in Containers
  <2>1. \A l \in DOMAIN entries[o] : done'[entries[o][l]] = done[entries[o][l]]
    BY <1>3 DEF GraphInv, References, KeepsKnown, VertexInv
  <2>2. entries' = entries /\ config' = config /\ payload' = payload
    BY DEF graphVars
  <2>3. KnownArcs(o)' = KnownArcs(o)
    BY <2>1, <2>2 DEF KnownArcs, Payloads
  <2>4. \A c \in References(o)' : Known(c)'
    BY <1>3, <2>1, <2>2 DEF VertexInv, Known, References
  <2> QED BY <1>1, <1>3, <2>2, <2>3, <2>4 DEF VertexInv, Known
<1> QED BY <1>2, <1>3

\* All calls keep what they have, but for the one that changed (commitChild).
LEMMA FramesKept ==
    ASSUME GraphInv, KeepsKnown, UNCHANGED <<entries, config>>, FramesInv,
           \A f \in Range(stack') :
              f.self \in Containers => f \in Range(stack) \/ FrameInv(f)'
    PROVE  FramesInv'
<1> SUFFICES ASSUME NEW f \in Range(stack'), f.self \in Containers
             PROVE  FrameInv(f)'
  BY DEF FramesInv
<1>1. CASE f \in Range(stack)
  <2>1. FrameInv(f)
    BY <1>1 DEF FramesInv
  <2> QED BY <2>1, FrameKept
<1> QED BY <1>1

\* All known vertices stay as they are (stage).
LEMMA VerticesKept ==
    ASSUME GraphInv, UNCHANGED <<graphVars, done, staged, ids>>, VerticesInv
    PROVE  VerticesInv'
<1> SUFFICES ASSUME NEW o \in Managed, Known(o)' PROVE VertexInv(o)'
  BY DEF VerticesInv
<1>1. KeepsKnown /\ Known(o) /\ VertexInv(o)
  BY DEF KeepsKnown, Known, VerticesInv
<1> QED BY <1>1, VertexKept

\* A call that got a child has it behind it as it is known (commitChild).
LEMMA FrameGrows ==
    ASSUME GraphInv, KeepsKnown, UNCHANGED <<entries, config>>,
           NEW f, WellFormed(f), f.self \in Containers, FrameInv(f),
           NEW l \in DOMAIN entries[f.self], NEW v,
           Known(entries[f.self][l])', v = done'[entries[f.self][l]],
           NEW g, g = [self |-> f.self, todo |-> f.todo \ {l},
                       got |-> Append(f.got, [label |-> l, value |-> v])]
    PROVE  FrameInv(g)'
<1> DEFINE e == [label |-> l, value |-> v]
           n == Len(f.got)
<1>1. FrameInv(f)'
  BY FrameKept
<1>2. IsSeq(f.got)
  BY DEF WellFormed
<1>3. g.self = f.self /\ g.todo = f.todo \ {l} /\ g.got = Append(f.got, e)
  OBVIOUS
<1>4. e.label = l /\ e.value = v
  OBVIOUS
<1> HIDE DEF e
<1>5. /\ n \in Nat /\ DOMAIN f.got = 1..n
      /\ IsSeq(g.got) /\ Len(g.got) = n + 1
      /\ \A k \in 1..n : g.got[k] = f.got[k]
      /\ g.got[n + 1] = e
  BY <1>2, <1>3, SeqAppend, SeqFacts
<1>6. DOMAIN g.got = 1..(n + 1)
  BY <1>5, SeqFacts
<1> HIDE DEF n
<1>7. \A k \in DOMAIN g.got : k \in DOMAIN f.got \/ k = n + 1
  BY <1>5, <1>6
<1> DEFINE d == done'[entries[f.self][l]]
<1>8. d # NoSnapshot /\ v = d /\ d = done'[entries'[g.self][l]]
  BY <1>3 DEF Known
<1> HIDE DEF d
<1>9. \A k \in DOMAIN g.got :
          /\ g.got[k].label \in DOMAIN entries'[g.self]
          /\ done'[entries'[g.self][g.got[k].label]] # NoSnapshot
          /\ g.got[k].value = done'[entries'[g.self][g.got[k].label]]
  <2> TAKE k \in DOMAIN g.got
  <2>1. CASE k \in DOMAIN f.got
    <3>1. g.got[k] = f.got[k]
      BY <1>5, <2>1
    <3>2. /\ f.got[k].label \in DOMAIN entries'[f.self]
          /\ done'[entries'[f.self][f.got[k].label]] # NoSnapshot
          /\ f.got[k].value = done'[entries'[f.self][f.got[k].label]]
      BY <1>1, <2>1 DEF FrameInv, Known
    <3> QED BY <1>3, <3>1, <3>2
  <2>2. CASE k = n + 1
    <3>1. g.got[k].label = l /\ g.got[k].value = d
      BY <1>4, <1>5, <1>8, <2>2
    <3>2. l \in DOMAIN entries'[g.self]
      BY <1>3
    <3> QED BY <1>8, <3>1, <3>2
  <2> QED BY <1>7, <2>1, <2>2
<1>10. \A x \in DOMAIN entries'[g.self] \ g.todo : \E k \in DOMAIN g.got : g.got[k].label = x
  <2> TAKE x \in DOMAIN entries'[g.self] \ g.todo
  <2>1. CASE x = l
    BY <1>4, <1>5, <1>6, <2>1
  <2>2. CASE x # l
    <3>1. PICK k \in DOMAIN f.got : f.got[k].label = x
      BY <1>1, <1>3, <2>2 DEF FrameInv
    <3>2. k \in DOMAIN g.got /\ g.got[k] = f.got[k]
      BY <1>5, <1>6
    <3> QED BY <3>1, <3>2
  <2> QED BY <2>1, <2>2
<1> QED BY <1>1, <1>3, <1>9, <1>10 DEF FrameInv, Known

\* The calls in progress after a call, a return or a child.
LEMMA CallsAfter ==
    ASSUME StackInv
    PROVE  /\ stack # <<>> => Top \in Range(stack)
           /\ \A f : stack' = Append(stack, f) => Range(stack') \subseteq Range(stack) \cup {f}
           /\ stack # <<>> /\ Pop => Range(stack') \subseteq Range(stack)
           /\ \A v : stack # <<>> /\ Got(v) => Range(stack') \subseteq Range(stack) \cup {Top'}
<1> DEFINE n == Len(stack)
<1>1. IsSeq(stack) /\ n \in Nat /\ DOMAIN stack = 1..n
  BY SeqFacts DEF StackInv
<1>2. stack # <<>> => Top \in Range(stack) /\ n \in 1..n
  BY TopFacts, <1>1 DEF Top, Range
<1>3. ASSUME NEW f, stack' = Append(stack, f)
      PROVE  Range(stack') \subseteq Range(stack) \cup {f}
  <2>1. /\ IsSeq(stack') /\ Len(stack') = n + 1
        /\ \A i \in 1..n : stack'[i] = stack[i]
        /\ stack'[n + 1] = f
    <3>1. /\ IsSeq(Append(stack, f)) /\ Len(Append(stack, f)) = n + 1
          /\ \A i \in 1..n : Append(stack, f)[i] = stack[i]
          /\ Append(stack, f)[n + 1] = f
      BY <1>1, SeqAppend
    <3> HIDE DEF n
    <3> QED BY <1>3, <3>1
  <2>2. DOMAIN stack' = 1..(n + 1)
    BY <2>1, SeqFacts
  <2> HIDE DEF n
  <2>3. \A i \in 1..(n + 1) : i \in 1..n \/ i = n + 1
    BY <1>1
  <2> QED BY <1>1, <2>1, <2>2, <2>3 DEF Range
<1>4. ASSUME stack # <<>>, Pop
      PROVE  Range(stack') \subseteq Range(stack)
  <2>1. /\ IsSeq(stack') /\ Len(stack') = n - 1
        /\ \A i \in 1..(n - 1) : stack'[i] = stack[i]
    BY <1>1, <1>4, SeqPop DEF Pop
  <2>2. DOMAIN stack' = 1..(n - 1)
    BY <2>1, SeqFacts
  <2> HIDE DEF n
  <2>3. \A i \in 1..(n - 1) : i \in 1..n
    BY <1>1
  <2> QED BY <1>1, <2>1, <2>2, <2>3 DEF Range
<1>5. ASSUME NEW v, stack # <<>>, Got(v)
      PROVE  Range(stack') \subseteq Range(stack) \cup {Top'}
  <2>1. PICK e : stack' = [stack EXCEPT ![n] = e]
    BY <1>5 DEF Got
  <2>2. DOMAIN stack' = 1..n /\ Len(stack') = n
    <3>1. Len([stack EXCEPT ![n] = e]) = n
      BY <1>1, <1>5, SeqReplace
    <3> QED BY <1>1, <2>1, <3>1
  <2> HIDE DEF n
  <2>3. \A i \in 1..n : i # n => stack'[i] = stack[i]
    BY <1>1, <2>1
  <2>4. Top' = stack'[n]
    BY <2>2 DEF Top
  <2> QED BY <1>1, <2>2, <2>3, <2>4 DEF Range
<1> QED BY <1>2, <1>3, <1>4, <1>5

\* Steps that teach the scope nothing keep what it knows (withCommit).
LEMMA QuietStep ==
    ASSUME GraphInv, CleanInv, Clean,
           UNCHANGED <<graphVars, done, staged, ids>>,
           ReturnInv',
           \A o \in built' : o \in active' \/ Known(o),
           \A f \in Range(stack') :
              f.self \in Containers => f \in Range(stack) \/ FrameInv(f)'
    PROVE  CleanInv'
<1>1. KeepsKnown /\ UNCHANGED <<entries, config>>
  BY DEF graphVars, KeepsKnown
<1>2. FramesInv'
  BY <1>1, FramesKept DEF CleanInv
<1>3. VerticesInv'
  BY VerticesKept DEF CleanInv
<1>4. BuiltInv'
  BY DEF BuiltInv, Known
<1> QED BY <1>2, <1>3, <1>4 DEF CleanInv

\* A child already known is put behind the call as it is known (commitChild).
LEMMA ChildDoneKeepsClean ==
    ASSUME GraphInv, StackInv, CleanInv, Clean, ChildDone
    PROVE  CleanInv'
<1>1. /\ Building /\ Top.todo # {} /\ stack # <<>> /\ reg' = Run
      /\ UNCHANGED <<graphVars, done, staged, ids, built, active>>
  BY DEF ChildDone, Visiting, Building, scopeVars, auxVars
<1>2. PICK f, l, c, v : f = Top /\ l = NextLabel /\ c = Child /\ v = done[Child]
  OBVIOUS
<1>3. WellFormed(f) /\ f.self \in Containers /\ l \in DOMAIN entries[f.self]
  BY <1>1, <1>2, TopFacts, ChildFacts DEF WellFormed
<1>4. FrameInv(f)
  BY <1>1, <1>2, <1>3, CallsAfter DEF CleanInv, FramesInv
<1>5. PICK g : g = Top'
  OBVIOUS
<1>6. g = [self |-> f.self, todo |-> f.todo \ {l},
           got |-> Append(f.got, [label |-> l, value |-> v])]
  <2>1. Top.self \in Containers
    BY <1>2, <1>3
  <2>2. Got(v) /\ UNCHANGED <<entries, active>>
    BY <1>1, <1>2 DEF ChildDone, Got, graphVars
  <2> QED BY <1>1, <1>2, <1>5, <2>1, <2>2, GotKeepsStack
<1>7. c = entries[f.self][l] /\ done[c] # NoSnapshot /\ v = done[c]
  BY <1>2 DEF Child, ChildDone
<1>8. FrameInv(g)'
  <2>1. KeepsKnown /\ UNCHANGED <<entries, config>> /\ done' = done
    BY <1>1 DEF graphVars, KeepsKnown
  <2>2. Known(entries[f.self][l])' /\ v = done'[entries[f.self][l]]
    BY <1>7, <2>1 DEF Known
  <2> QED BY <1>3, <1>4, <1>6, <2>1, <2>2, FrameGrows
<1>9. Range(stack') \subseteq Range(stack) \cup {g}
  BY <1>1, <1>5, CallsAfter DEF ChildDone
<1>10. ReturnInv'
  BY <1>1 DEF ReturnInv, Run
<1>11. \A o \in built' : o \in active' \/ Known(o)
  BY <1>1 DEF CleanInv, BuiltInv
<1> QED BY <1>1, <1>8, <1>9, <1>10, <1>11, QuietStep

\* Calls, and what custom objects do, keep what the scope knows.
LEMMA QuietStepsKeepClean ==
    ASSUME GraphInv, StackInv, RegInv, ScopeInv, CleanInv, Clean', Clean,
           \/ \E o \in Managed : EnterDone(o) \/ EnterBuild(o)
           \/ ChildCalled \/ CustomAnswers \/ CustomResumes \/ UNCHANGED vars
           \/ \E o \in Customs : CustomDelegates(o)
    PROVE  CleanInv'
<1>1. UNCHANGED <<graphVars, done, staged, ids>>
  BY DEF EnterDone, EnterBuild, ChildCalled, CustomAnswers, CustomResumes, CustomDelegates,
         vars, scopeVars
<1>2. ReturnInv /\ BuiltInv
  BY DEF CleanInv
<1>3. ASSUME NEW o \in Managed, EnterDone(o) PROVE CleanInv'
  <2>1. reg = Enter(o) /\ reg' = Returned(o, done[o].root, "ok") /\ done[o] # NoSnapshot
    BY <1>3 DEF EnterDone, EnterManaged
  <2>2. UNCHANGED <<entries, stack, active, built, done>>
    BY <1>3 DEF EnterDone, graphVars, scopeVars, auxVars
  <2>3. ReturnInv'
    BY <2>1, <2>2 DEF ReturnInv, RegInv, Enter, Returned, Top, Child, NextLabel, Known
  <2> QED BY <1>1, <1>2, <2>2, <2>3, QuietStep DEF BuiltInv
<1>4. ASSUME NEW o \in Managed, EnterBuild(o) PROVE CleanInv'
  <2>1. PICK f : f = IF o \in Leaves THEN CustomFrame(o) ELSE Frame(o)
    OBVIOUS
  <2>2. /\ stack' = Append(stack, f) /\ reg' = Run
        /\ active' = active \cup {o} /\ built' = built \cup {o} /\ ~BadLabels(o)
    BY <1>4, <2>1 DEF EnterBuild
  <2>3. f.self \in Containers => FrameInv(f)'
    <3>1. entries' = entries /\ config' = config
      BY <1>1 DEF graphVars
    <3>2. f.self = o /\ f.got = <<>>
      BY <2>1 DEF CustomFrame, Frame
    <3>3. o \in Containers => f.todo = DOMAIN entries[o]
      BY <2>1, Kinds DEF Frame
    <3> QED BY <2>2, <3>1, <3>2, <3>3, SeqEmpty DEF FrameInv, BadLabels
  <2>4. Range(stack') \subseteq Range(stack) \cup {f}
    BY <2>2, CallsAfter
  <2>5. ReturnInv'
    BY <2>2 DEF ReturnInv, Run
  <2> QED BY <1>1, <1>2, <2>2, <2>3, <2>4, <2>5, QuietStep DEF BuiltInv
<1>5. CASE ChildCalled
  <2>1. UNCHANGED <<stack, active, built>> /\ \E c : reg' = Enter(c)
    BY <1>5 DEF ChildCalled, scopeVars, auxVars
  <2>2. ReturnInv'
    BY <2>1 DEF ReturnInv, Enter
  <2> QED BY <1>1, <1>2, <2>1, <2>2, QuietStep DEF BuiltInv
<1>6. CASE CustomAnswers
  <2>1. /\ UNCHANGED <<entries, stack, active, built, done>>
        /\ reg'.obj \notin Managed /\ reg'.op = "return"
    BY <1>6 DEF CustomAnswers, graphVars, scopeVars, auxVars, Returned
  <2>2. stack # <<>> /\ Top.self \in Managed /\ Child \in Managed => Known(Child)
    <3>1. CASE reg = Enter(reg.obj) /\ reg.obj \in Customs
      BY <3>1, Kinds DEF RegInv, Enter
    <3>2. CASE reg.op = "return" /\ reg.obj \in Managed
      BY <1>2, <3>2 DEF ReturnInv
    <3> QED BY <1>6, <3>1, <3>2 DEF CustomAnswers
  <2>3. ReturnInv'
    BY <2>1, <2>2 DEF ReturnInv, Top, Child, NextLabel, Known
  <2> QED BY <1>1, <1>2, <2>1, <2>3, QuietStep DEF BuiltInv
<1>7. CASE CustomResumes
  <2>1. /\ UNCHANGED <<entries, active, built, done>> /\ stack # <<>> /\ Pop
        /\ Top.self \in Customs /\ reg'.obj = Top.self /\ reg'.op = "return"
    BY <1>7 DEF CustomResumes, CustomReturning, graphVars, scopeVars, auxVars, Returned
  <2>2. active' = active \ {Top.self}
    BY <2>1, Kinds DEF StackInv
  <2>3. stack' # <<>> /\ Top'.self \in Managed => Child' \notin Managed
    BY <2>1, <2>2, PopKeepsStack, Kinds
  <2>4. ReturnInv'
    BY <2>1, <2>3, Kinds DEF ReturnInv
  <2>5. Range(stack') \subseteq Range(stack)
    BY <2>1, CallsAfter
  <2> QED BY <1>1, <1>2, <2>1, <2>4, <2>5, QuietStep DEF BuiltInv
<1>8. CASE UNCHANGED vars
  <2>1. UNCHANGED <<entries, stack, active, built, done, reg>>
    BY <1>8 DEF vars, graphVars, scopeVars, auxVars
  <2>2. ReturnInv'
    BY <1>2, <2>1 DEF ReturnInv, Top, Child, NextLabel, Known
  <2> QED BY <1>1, <1>2, <2>1, <2>2, QuietStep DEF BuiltInv
<1>9. ASSUME NEW o \in Customs, CustomDelegates(o) PROVE CleanInv'
  <2>1. /\ UNCHANGED <<active, built>> /\ stack' = Append(stack, CustomFrame(o))
        /\ reg' = Enter(Delegate[o])
    BY <1>9 DEF CustomDelegates, scopeVars, auxVars
  <2>2. CustomFrame(o).self \notin Containers
    BY Kinds DEF CustomFrame
  <2>3. Range(stack') \subseteq Range(stack) \cup {CustomFrame(o)}
    BY <2>1, CallsAfter
  <2>4. ReturnInv'
    BY <2>1 DEF ReturnInv, Enter
  <2> QED BY <1>1, <1>2, <2>1, <2>2, <2>3, <2>4, QuietStep DEF BuiltInv
<1> QED BY <1>3, <1>4, <1>5, <1>6, <1>7, <1>8, <1>9

\* A child that returned its own Root is put behind the call with what the scope
\* knows of it, and a vertex of the package was known already (commitChild).
LEMMA ChildCommittedKeepsClean ==
    ASSUME GraphInv, StackInv, RegInv, ScopeInv, CleanInv, Clean, ChildCommitted
    PROVE  CleanInv'
<1>1. /\ Building /\ Top.todo # {} /\ stack # <<>> /\ reg' = Run
      /\ reg.op = "return" /\ reg.err = "ok" /\ Top.self \in Managed
      /\ UNCHANGED <<graphVars, staged, ids, built, active>>
  BY DEF ChildCommitted, ChildReturning, Building, RegInv, auxVars
<1>2. PICK f, l, c, s : f = Top /\ l = NextLabel /\ c = Child /\ s = Resolved(Child, reg.root)
  OBVIOUS
<1>3. /\ WellFormed(f) /\ f.self \in Containers /\ l \in DOMAIN entries[f.self]
      /\ c \in Objects /\ c = entries[f.self][l]
  BY <1>1, <1>2, TopFacts, ChildFacts DEF WellFormed, Child
<1>4. FrameInv(f)
  BY <1>1, <1>2, <1>3, CallsAfter DEF CleanInv, FramesInv
<1>5. done' = [done EXCEPT ![c] = s] /\ Got(s)
  BY <1>2 DEF ChildCommitted, Got
<1>6. c \in Managed => Known(c)
  BY <1>1, <1>2 DEF CleanInv, ReturnInv
<1>7. s # NoSnapshot /\ (Known(c) => s = done[c])
  BY <1>2, SnapshotsExist DEF Resolved, ScopeInv, Known
<1>8. KeepsKnown /\ done'[c] = s
  BY <1>3, <1>5, <1>7 DEF KeepsKnown, ScopeInv
<1>9. UNCHANGED <<entries, config>>
  BY <1>1 DEF graphVars
<1>10. PICK g : g = Top'
  OBVIOUS
<1>11. g = [self |-> f.self, todo |-> f.todo \ {l},
            got |-> Append(f.got, [label |-> l, value |-> s])]
  <2>1. Top.self \in Containers /\ UNCHANGED <<entries, active>>
    BY <1>1, <1>2, <1>3, <1>9
  <2> QED BY <1>1, <1>2, <1>5, <1>10, <2>1, GotKeepsStack
<1>12. FrameInv(g)'
  <2>1. Known(entries[f.self][l])' /\ s = done'[entries[f.self][l]]
    BY <1>3, <1>7, <1>8, <1>9 DEF Known
  <2> QED BY <1>3, <1>4, <1>8, <1>9, <1>11, <2>1, FrameGrows
<1>13. FramesInv'
  <2>1. Range(stack') \subseteq Range(stack) \cup {g}
    BY <1>1, <1>5, <1>10, CallsAfter
  <2> QED BY <1>8, <1>9, <1>12, <2>1, FramesKept DEF CleanInv
<1>14. VerticesInv'
  <2> SUFFICES ASSUME NEW o \in Managed, Known(o)' PROVE VertexInv(o)'
    BY DEF VerticesInv
  <2>1. Known(o)
    BY <1>5, <1>6, Kinds DEF Known, ScopeInv
  <2>2. staged'[HistoryOf[o]] = staged[HistoryOf[o]]
        /\ ids'[IdOf[HistoryOf[o]]] = ids[IdOf[HistoryOf[o]]]
    BY <1>1
  <2>3. VertexInv(o)
    BY <2>1 DEF CleanInv, VerticesInv
  <2> QED BY <1>1, <1>8, <2>1, <2>2, <2>3, VertexKept
<1>15. BuiltInv'
  <2>1. \A o \in Managed : Known(o) => Known(o)'
    BY <1>8, Kinds DEF KeepsKnown, Known
  <2> QED BY <1>1, <2>1 DEF CleanInv, BuiltInv, ScopeInv
<1>16. ReturnInv'
  BY <1>1 DEF ReturnInv, Run
<1> QED BY <1>13, <1>14, <1>15, <1>16 DEF CleanInv

\* The bindings of a call are finitely many (arcs of a Map, values of a List).
LEMMA ArcsAreFinite ==
    ASSUME NEW o, NEW got, IsSeq(got)
    PROVE  IsFiniteSet(Arcs(o, got))
<1> DEFINE Arc(i) == <<got[i].label, got[i].value.root>>
           A == {Arc(i) : i \in DOMAIN got}
           a == [i \in DOMAIN got |-> Arc(i)]
           P == {<<Reserved[config[o]], p>> : p \in IF o \in Maps THEN Payloads(o) ELSE {}}
<1>1. IsFiniteSet(A)
  <2>1. a \in Surjection(DOMAIN got, A)
    BY DEF Surjection
  <2>2. IsFiniteSet(DOMAIN got)
    BY SeqFacts
  <2> HIDE DEF a, A
  <2> QED BY <2>1, <2>2, FS_Surjection
<1>2. P = {} \/ P = {<<Reserved[config[o]], payload[o]>>}
  BY DEF Payloads
<1>3. IsFiniteSet(P)
  BY <1>2, FS_EmptySet, FS_Singleton
<1>4. Arcs(o, got) = A \cup P
  BY DEF Arcs
<1> HIDE DEF A, P
<1> QED BY <1>1, <1>3, <1>4, FS_Union

\* A call without children to visit commits to what is known of all its children.
LEMMA CommitsToKnown ==
    ASSUME GraphInv, KeepsKnown, UNCHANGED graphVars,
           NEW f, f.self \in Containers, FrameInv(f), f.todo = {}, IsSeq(f.got),
           NEW s, s = NewSnapshot(f.self, f.got)
    PROVE  /\ s.root.arcs = KnownArcs(f.self)' /\ IsFiniteSet(KnownArcs(f.self)')
           /\ \A c \in References(f.self) : Known(c) /\ Known(c)'
           /\ f.self \in Lists => s.root.payload = payload[f.self]
           /\ f.self \in Maps => Reserved[config[f.self]] \notin DOMAIN entries[f.self]
<1> PICK o, got : o = f.self /\ got = f.got
  OBVIOUS
<1>1. entries' = entries /\ config' = config /\ payload' = payload
  BY DEF graphVars
<1>2. s.root = IF o \in Maps THEN MapRoot(o, got) ELSE ListRoot(o, got)
  BY Kinds DEF NewSnapshot
<1>3. s.root.arcs = Arcs(o, got) /\ (o \in Lists => s.root.payload = payload[o])
  BY <1>2, Kinds DEF MapRoot, ListRoot
<1>4. \A l \in DOMAIN entries[o] : \E k \in DOMAIN got : got[k].label = l
  BY DEF FrameInv
<1>5. \A k \in DOMAIN got :
         /\ got[k].label \in DOMAIN entries[o]
         /\ Known(entries[o][got[k].label])
         /\ got[k].value = done[entries[o][got[k].label]]
  BY DEF FrameInv
<1>6. \A l \in DOMAIN entries[o] : /\ Known(entries[o][l]) /\ entries[o][l] \in Objects
                                   /\ done'[entries[o][l]] = done[entries[o][l]]
  BY <1>4, <1>5 DEF GraphInv, References, KeepsKnown
<1>7. {<<got[i].label, got[i].value.root>> : i \in DOMAIN got}
        = {<<l, done'[entries[o][l]].root>> : l \in DOMAIN entries[o]}
  BY <1>4, <1>5, <1>6
<1>8. Arcs(o, got) = KnownArcs(o)'
  BY <1>1, <1>7 DEF Arcs, KnownArcs, Payloads
<1>9. IsFiniteSet(Arcs(o, got))
  BY ArcsAreFinite
<1>10. \A c \in References(o) : Known(c) /\ Known(c)'
  BY <1>6 DEF References, Known
<1> QED BY <1>3, <1>8, <1>9, <1>10 DEF FrameInv

\* A new vertex is staged as it is known, under a history and a marker of its own
\* (stage, withCommit).
LEMMA VertexDoneKeepsClean ==
    ASSUME GraphInv, StackInv, ScopeInv, CleanInv, Clean, NEW s, VertexDone(s)
    PROVE  CleanInv'
<1>1. PICK f, o : f = Top /\ o = Top.self
  OBVIOUS
<1>2. /\ s = NewSnapshot(o, f.got) /\ s # NoSnapshot
      /\ stack # <<>> /\ o \in Managed /\ f.todo = {}
  BY <1>1, SnapshotsExist DEF VertexDone, Succeed, Stage, Finishing, Building
<1>3. /\ done' = [done EXCEPT ![o] = s] /\ active' = active \ {o} /\ Pop
      /\ UNCHANGED <<graphVars, built>>
      /\ \E r : reg' = Returned(o, r, "ok")
  BY <1>1 DEF VertexDone, Succeed, auxVars
<1>4. /\ ~SharedBase(o) /\ ~CopiedState(o)
      /\ ids' = [ids EXCEPT ![IdOf[HistoryOf[o]]] = HistoryOf[o]]
      /\ staged' = [staged EXCEPT ![HistoryOf[o]] = [owner |-> o, value |-> s]]
  BY <1>1 DEF VertexDone, Succeed, Stage
<1>5. ~Known(o)
  BY <1>1, <1>2, TopFacts DEF ScopeInv
<1>6. KeepsKnown /\ done'[o] = s /\ Known(o)'
  BY <1>2, <1>3, <1>5, Kinds DEF KeepsKnown, ScopeInv, Known
<1>7. UNCHANGED <<entries, config>>
  BY <1>3 DEF graphVars
<1>8. FramesInv'
  <2>1. Range(stack') \subseteq Range(stack)
    BY <1>2, <1>3, CallsAfter
  <2> QED BY <1>6, <1>7, <2>1, FramesKept DEF CleanInv
<1>9. ASSUME NEW p \in Managed, p # o, Known(p)'
      PROVE  VertexInv(p)'
  <2>1. Known(p)
    BY <1>3, <1>9, Kinds DEF Known, ScopeInv
  <2>2. VertexInv(p)
    BY <2>1 DEF CleanInv, VerticesInv
  <2>3. /\ staged[HistoryOf[p]] = [owner |-> p, value |-> done[p]]
        /\ ids[IdOf[HistoryOf[p]]] = HistoryOf[p]
    BY <2>2 DEF VertexInv
  <2>4. HistoryOf[p] # HistoryOf[o]
    <3>1. staged[HistoryOf[p]].owner = p /\ NotStaged.owner = Nothing
      BY <2>3 DEF NotStaged
    <3>2. p # Nothing
      BY Kinds
    <3> QED BY <1>4, <1>9, <3>1, <3>2 DEF SharedBase
  <2>5. IdOf[HistoryOf[p]] # IdOf[HistoryOf[o]]
    <3>1. HistoryOf[p] # Nothing
      BY Kinds
    <3> QED BY <1>4, <2>3, <2>4, <3>1 DEF CopiedState
  <2>6. /\ staged'[HistoryOf[p]] = staged[HistoryOf[p]]
        /\ ids'[IdOf[HistoryOf[p]]] = ids[IdOf[HistoryOf[p]]]
    BY <1>4, <2>4, <2>5, Kinds DEF ScopeInv
  <2> QED BY <1>3, <1>6, <2>1, <2>2, <2>6, VertexKept
<1>10. VertexInv(o)'
  <2>1. /\ staged'[HistoryOf[o]] = [owner |-> o, value |-> done'[o]]
        /\ ids'[IdOf[HistoryOf[o]]] = HistoryOf[o]
    BY <1>2, <1>4, <1>6, Kinds DEF ScopeInv
  <2>2. CASE o \notin Containers
    BY <2>1, <2>2 DEF VertexInv
  <2>3. CASE o \in Containers
    <3>1. FrameInv(f) /\ IsSeq(f.got) /\ f.self = o
      BY <1>1, <1>2, <2>3, CallsAfter, TopFacts DEF CleanInv, FramesInv, WellFormed
    <3>2. /\ s.root.arcs = KnownArcs(o)' /\ IsFiniteSet(KnownArcs(o)')
          /\ \A c \in References(o) : Known(c) /\ Known(c)'
          /\ o \in Lists => s.root.payload = payload[o]
          /\ o \in Maps => Reserved[config[o]] \notin DOMAIN entries[o]
      BY <1>2, <1>3, <1>6, <2>3, <3>1, CommitsToKnown
    <3>3. entries' = entries /\ config' = config /\ payload' = payload
      BY <1>3 DEF graphVars
    <3>4. References(o)' = References(o)
      BY <3>3 DEF References
    <3> HIDE DEF KnownArcs
    <3> QED BY <1>6, <2>1, <3>2, <3>3, <3>4 DEF VertexInv
  <2> QED BY <2>2, <2>3
<1>11. VerticesInv'
  BY <1>9, <1>10 DEF VerticesInv
<1>12. BuiltInv'
  <2>1. \A p \in Managed : Known(p) => Known(p)'
    BY <1>6, Kinds DEF KeepsKnown, Known
  <2> QED BY <1>3, <1>6, <2>1 DEF CleanInv, BuiltInv, ScopeInv
<1>13. ReturnInv'
  <2>1. stack' # <<>> /\ Top'.self \in Managed => Child' = o
    BY <1>1, <1>2, <1>3, <1>7, PopKeepsStack
  <2>2. reg'.err = "ok"
    BY <1>3 DEF Returned
  <2>3. PICK c : c = Child'
    OBVIOUS
  <2> QED BY <1>6, <2>1, <2>2, <2>3 DEF ReturnInv, Known
<1> QED BY <1>8, <1>11, <1>12, <1>13 DEF CleanInv

\* As long as nothing failed, what is known is right, whatever the step (Commit).
LEMMA CleanStep ==
    ASSUME GraphInv, StackInv, RegInv, ScopeInv, CleanInv, Step
    PROVE  CleanInv'
<1> SUFFICES ASSUME Clean' PROVE CleanInv'
  BY DEF CleanInv
<1>1. CASE Edited \/ Cancel \/ End \/ CallFails \/ (\E o \in Managed : EntryFails(o))
  <2>1. ~Clean'
    BY <1>1 DEF Edited, Cancel, End, CallFails, EntryFails, Clean, Idle
  <2> QED BY <2>1
<1>2. CASE \E o \in Outermost : Begin(o)
  <2>1. /\ \E o : reg' = Enter(o)
        /\ built' = {} /\ stack = <<>> /\ UNCHANGED <<stack, done>> /\ reg = Idle
    BY <1>2 DEF Begin, scopeVars
  <2>2. \A o \in Objects : ~Known(o)'
    BY <2>1 DEF RegInv, NewScope, Known, Idle
  <2>3. Range(stack') = {}
    BY <2>1, SeqEmpty DEF Range
  <2>4. VerticesInv' /\ FramesInv' /\ BuiltInv' /\ ReturnInv'
    BY <2>1, <2>2, <2>3, Kinds DEF VerticesInv, FramesInv, BuiltInv, ReturnInv, Enter
  <2> QED BY <2>4 DEF CleanInv
<1>3. CASE ChildDone \/ ChildCommitted \/ \E s : VertexDone(s)
  <2>1. Clean
    <3>1. CASE ChildDone
      BY <3>1 DEF ChildDone, Visiting, Run, Clean, scopeVars
    <3>2. CASE ChildCommitted
      BY <3>2 DEF ChildCommitted, ChildReturning, Clean
    <3>3. ASSUME NEW s, VertexDone(s) PROVE Clean
      BY <3>3 DEF VertexDone, Succeed, Stage, Finishing, Run, Clean
    <3> QED BY <1>3, <3>1, <3>2, <3>3
  <2> QED
    BY <1>3, <2>1, ChildDoneKeepsClean, ChildCommittedKeepsClean, VertexDoneKeepsClean
<1>4. CASE \/ \E o \in Managed : EnterDone(o) \/ EnterBuild(o)
           \/ ChildCalled \/ CustomAnswers \/ CustomResumes \/ UNCHANGED vars
           \/ \E o \in Customs : CustomDelegates(o)
  <2>1. UNCHANGED <<ctx, failed>>
    BY <1>4 DEF EnterDone, EnterBuild, ChildCalled, CustomAnswers, CustomResumes,
                CustomDelegates, vars, scopeVars
  <2>2. reg.op # "idle"
    BY <1>4 DEF EnterDone, EnterBuild, Enterable, EnterManaged, ChildCalled, Visiting, Run,
                CustomAnswers, CustomResumes, CustomReturning, CustomDelegates, vars, Enter,
                Clean
  <2>3. Clean
    BY <2>1, <2>2 DEF Clean
  <2> QED BY <1>4, <2>3, QuietStepsKeepClean
<1> QED BY <1>1, <1>2, <1>3, <1>4 DEF Step

-----------------------------------------------------------------------------
(* What a successful Commit leaves.                                         *)

\* The moment an outermost Commit succeeds: everything known is visible.
EndInv ==
    /\ GraphInv /\ VerticesInv /\ BuiltInv /\ built \subseteq Managed
    /\ active = {} /\ ~erred
    /\ \A o \in Managed : Known(o) => after[HistoryOf[o]] = done[o]
    /\ reg.obj \in Managed /\ Known(reg.obj) /\ reg.root = done[reg.obj].root

\* Everything reached from the committed vertex is known (commitReferences).
LEMMA ReachedIsKnown ==
    ASSUME EndInv, NEW o \in Reached(reg.obj)
    PROVE  o \in Managed /\ Known(o) /\ VertexInv(o)
<1> DEFINE K == {c \in Managed : Known(c)}
<1>1. \A p \in K : VertexInv(p)
  BY DEF EndInv, VerticesInv
<1>2. \A p \in K \cap Containers : \A c \in References(p) : Known(c)
  BY <1>1 DEF VertexInv
<1>3. Closed(K) /\ reg.obj \in K /\ K \in SUBSET Managed
  BY <1>2 DEF Closed, EndInv
<1> HIDE DEF K
<1>4. o \in K
  BY <1>3 DEF Reached
<1> QED BY <1>1, <1>4 DEF K

\* The bindings of a vertex are one for each label (arcs of MapRoot and ListRoot).
LEMMA OneArcForEachLabel ==
    ASSUME NEW o \in Containers, IsFiniteSet(KnownArcs(o)),
           o \in Maps => Reserved[config[o]] \notin DOMAIN entries[o]
    PROVE  /\ {a[1] : a \in KnownArcs(o)} =
                 DOMAIN entries[o] \cup
                    {l \in {Reserved[config[m]] : m \in {o} \cap Maps} : payload[o] # Undef}
           /\ Cardinality(KnownArcs(o)) = Cardinality({a[1] : a \in KnownArcs(o)})
<1> DEFINE A == {<<l, done[entries[o][l]].root>> : l \in DOMAIN entries[o]}
           P == {<<Reserved[config[o]], p>> : p \in IF o \in Maps THEN Payloads(o) ELSE {}}
           L == {l \in {Reserved[config[m]] : m \in {o} \cap Maps} : payload[o] # Undef}
           S == {a[1] : a \in KnownArcs(o)}
           f == [a \in KnownArcs(o) |-> a[1]]
<1>1. KnownArcs(o) = A \cup P
  BY DEF KnownArcs
<1>2. {a[1] : a \in A} = DOMAIN entries[o]
  <2>1. \A a \in A : a[1] \in DOMAIN entries[o]
    OBVIOUS
  <2>2. \A l \in DOMAIN entries[o] : \E a \in A : a[1] = l
    <3> TAKE l \in DOMAIN entries[o]
    <3>1. <<l, done[entries[o][l]].root>> \in A
      OBVIOUS
    <3>2. <<l, done[entries[o][l]].root>>[1] = l
      OBVIOUS
    <3> HIDE DEF A
    <3> QED BY <3>1, <3>2
  <2> HIDE DEF A
  <2> QED BY <2>1, <2>2
<1>3. {a[1] : a \in P} = L
  <2>1. CASE o \in Maps /\ payload[o] # Undef
    <3>1. P = {<<Reserved[config[o]], payload[o]>>} /\ L = {Reserved[config[o]]}
      BY <2>1 DEF Payloads
    <3> HIDE DEF P, L
    <3> QED BY <3>1
  <2>2. CASE o \notin Maps \/ payload[o] = Undef
    <3>1. P = {} /\ L = {}
      BY <2>2 DEF Payloads
    <3> HIDE DEF P, L
    <3> QED BY <3>1
  <2> QED BY <2>1, <2>2
<1>4. S = DOMAIN entries[o] \cup L
  BY <1>1, <1>2, <1>3
<1>5. \A a, b \in A : a[1] = b[1] => a = b
  OBVIOUS
<1>6. \A a, b \in P : a = b
  BY DEF Payloads
<1>7. \A a \in A, b \in P : a[1] # b[1]
  OBVIOUS
<1> HIDE DEF A, P, L
<1>8. \A a, b \in KnownArcs(o) : a[1] = b[1] => a = b
  BY <1>1, <1>5, <1>6, <1>7
<1>9. f \in Bijection(KnownArcs(o), S)
  BY <1>8 DEF Bijection, Injection, Surjection, IsInjective
<1>10. Cardinality(KnownArcs(o)) = Cardinality(S)
  <2> HIDE DEF f, S
  <2> QED BY <1>9, FS_Bijection DEF ExistsBijection
<1> QED BY <1>4, <1>10 DEF L

\* At that moment the Root is that of the graph, and nothing failed (confirm).
LEMMA EndIsRight == EndInv => ResultInv
<1> SUFFICES ASSUME EndInv PROVE ResultInv
  OBVIOUS
<1>1. \A o \in Reached(reg.obj) :
         /\ o \in Managed /\ Known(o) /\ VertexInv(o) /\ after[HistoryOf[o]] = done[o]
  BY ReachedIsKnown DEF EndInv
<1>2. \A o \in Reached(reg.obj) : after[HistoryOf[o]] # NoSnapshot
  BY <1>1 DEF Known
<1>3. reg.root = after[HistoryOf[reg.obj]].root
  BY DEF EndInv
<1>4. ASSUME NEW o \in Reached(reg.obj) \cap Containers
      PROVE  LET root == after[HistoryOf[o]].root
                 bound == {<<l, entries[o][l]>> : l \in DOMAIN entries[o]}
                 Shown(c) == after[HistoryOf[c]].root
             IN  /\ {a[1] : a \in root.arcs} = DOMAIN entries[o] \cup
                       {l \in {Reserved[config[m]] : m \in {o} \cap Maps} :
                           payload[o] # Undef}
                 /\ \A b \in bound : b[2] \in Managed => <<b[1], Shown(b[2])>> \in root.arcs
                 /\ Cardinality(root.arcs) = Cardinality({a[1] : a \in root.arcs})
                 /\ o \in Lists => root.payload = payload[o]
  <2> DEFINE root == after[HistoryOf[o]].root
  <2>1. VertexInv(o) /\ root = done[o].root
    BY <1>1
  <2>2. /\ root.arcs = KnownArcs(o) /\ IsFiniteSet(KnownArcs(o))
        /\ o \in Maps => Reserved[config[o]] \notin DOMAIN entries[o]
        /\ o \in Lists => root.payload = payload[o]
    BY <2>1 DEF VertexInv
  <2>3. \A l \in DOMAIN entries[o] :
           entries[o][l] \in Managed =>
              <<l, after[HistoryOf[entries[o][l]]].root>> \in KnownArcs(o)
    <3> SUFFICES ASSUME NEW l \in DOMAIN entries[o], entries[o][l] \in Managed
                 PROVE  <<l, after[HistoryOf[entries[o][l]]].root>> \in KnownArcs(o)
      OBVIOUS
    <3>1. Known(entries[o][l])
      BY <2>1 DEF VertexInv, References
    <3>2. after[HistoryOf[entries[o][l]]] = done[entries[o][l]]
      BY <3>1 DEF EndInv, Known
    <3> QED BY <3>2 DEF KnownArcs
  <2> HIDE DEF root
  <2>4. /\ {a[1] : a \in root.arcs} = DOMAIN entries[o] \cup
              {l \in {Reserved[config[m]] : m \in {o} \cap Maps} : payload[o] # Undef}
        /\ Cardinality(root.arcs) = Cardinality({a[1] : a \in root.arcs})
    BY <2>2, OneArcForEachLabel
  <2>5. \A b \in {<<l, entries[o][l]>> : l \in DOMAIN entries[o]} :
           b[2] \in Managed => <<b[1], after[HistoryOf[b[2]]].root>> \in root.arcs
    BY <2>2, <2>3
  <2> QED BY <2>2, <2>4, <2>5 DEF root
<1>5. CommitIsMerkle
  BY <1>2, <1>3, <1>4 DEF CommitIsMerkle
<1>6. FailureSticks
  BY DEF FailureSticks, EndInv
<1>7. OneOwner
  <2> SUFFICES ASSUME NEW o \in built, NEW p \in built,
                      IdOf[HistoryOf[o]] = IdOf[HistoryOf[p]]
               PROVE  o = p
    BY DEF OneOwner
  <2>1. VertexInv(o) /\ VertexInv(p)
    BY DEF EndInv, BuiltInv, VerticesInv
  <2>2. HistoryOf[o] = HistoryOf[p]
    BY <2>1 DEF VertexInv
  <2>3. staged[HistoryOf[o]].owner = o /\ staged[HistoryOf[p]].owner = p
    BY <2>1 DEF VertexInv
  <2> QED BY <2>2, <2>3
<1> QED BY <1>5, <1>6, <1>7 DEF ResultInv

\* The outermost vertex is done: what it leaves is what EndInv says (confirm).
LEMMA LastVertex ==
    ASSUME GraphInv, StackInv, ScopeInv, CleanInv, RegInv,
           GraphInv', StackInv', ScopeInv', CleanInv',
           NEW s, VertexDone(s), Len(stack) = 1
    PROVE  stack' = <<>> /\ Succeeded' /\ EndInv'
<1>1. PICK o : o = Top.self
  OBVIOUS
<1>2. /\ o \in Managed /\ reg = Run /\ ctx = "live" /\ failed = "ok" /\ stack # <<>> /\ Pop
      /\ done' = [done EXCEPT ![o] = s] /\ reg' = Returned(o, s.root, "ok")
      /\ UNCHANGED <<ctx, failed, erred>> /\ s # NoSnapshot
  BY <1>1, SnapshotsExist
     DEF VertexDone, Succeed, Stage, Finishing, Building, auxVars
<1>3. stack' = <<>>
  <2>1. IsSeq(stack') /\ Len(stack') = 0
    BY <1>2, SeqPop DEF Pop, StackInv
  <2> QED BY <2>1, SeqFacts
<1>4. active' = {}
  BY <1>3, SeqEmpty DEF StackInv
<1>5. reg'.op = "return" /\ reg'.obj = o /\ reg'.root = s.root /\ reg'.err = "ok"
  BY <1>2 DEF Returned
<1>6. Clean'
  BY <1>2, <1>5 DEF Clean
<1>7. ~erred'
  BY <1>2 DEF ScopeInv, Run
<1>8. \A p \in Managed : Known(p)' => after'[HistoryOf[p]] = done'[p]
  <2> SUFFICES ASSUME NEW p \in Managed, Known(p)'
               PROVE  after'[HistoryOf[p]] = done'[p]
    OBVIOUS
  <2>1. VertexInv(p)'
    BY <1>6 DEF CleanInv, VerticesInv
  <2>2. staged'[HistoryOf[p]] = [owner |-> p, value |-> done'[p]]
    BY <2>1 DEF VertexInv
  <2>3. staged'[HistoryOf[p]] # NotStaged
    BY <2>2, Kinds DEF NotStaged
  <2>4. after' = [h \in Histories |->
                    IF staged'[h] # NotStaged THEN staged'[h].value ELSE after[h]]
    BY DEF VertexDone, Confirm
  <2> QED BY <2>2, <2>3, <2>4, Kinds
<1>9. Known(o)' /\ done'[o] = s
  BY <1>2, Kinds DEF ScopeInv, Known
<1>10. Known(reg.obj)' /\ reg'.root = done'[reg'.obj].root
  BY <1>5, <1>9 DEF Known
<1>11. EndInv'
  BY <1>2, <1>4, <1>5, <1>6, <1>7, <1>8, <1>10 DEF EndInv, CleanInv, ScopeInv
<1> QED BY <1>3, <1>5, <1>11 DEF Succeeded

\* No other step makes a Commit succeed: a success is the last vertex's (withCommit).
LEMMA NoOtherSuccess ==
    ASSUME GraphInv, StackInv, RegInv, Step,
           ~UNCHANGED <<graphVars, histVars, stack, reg, erred, built>>,
           \A s : VertexDone(s) => Len(stack) # 1
    PROVE  ~Succeeded'
<1>1. CASE Edited
  BY <1>1 DEF Edited, Idle, Succeeded
<1>2. CASE Cancel \/ UNCHANGED vars
  BY <1>2 DEF Cancel, vars, auxVars
<1>3. CASE End \/ (\E o \in Outermost : Begin(o)) \/ ChildCalled \/ ChildCommitted
           \/ (\E o \in Managed : EnterBuild(o)) \/ (\E o \in Customs : CustomDelegates(o))
  <2>1. reg'.op # "return"
    BY <1>3 DEF End, Begin, ChildCalled, ChildCommitted, EnterBuild, CustomDelegates, Idle,
                Enter, Run
  <2> QED BY <2>1 DEF Succeeded
<1>4. CASE ChildDone
  BY <1>4 DEF ChildDone, Visiting, Run, Succeeded
<1>5. CASE CallFails \/ \E o \in Managed : EntryFails(o)
  BY <1>5 DEF CallFails, EntryFails, Succeeded
<1>6. ASSUME NEW o \in Managed, EnterDone(o) PROVE ~Succeeded'
  <2>1. stack # <<>> /\ UNCHANGED stack
    BY <1>6, Kinds DEF EnterDone, EnterManaged, Enter, RegInv, NewScope, Known
  <2> QED BY <2>1 DEF Succeeded
<1>7. CASE CustomAnswers
  <2>1. stack # <<>> /\ UNCHANGED stack
    BY <1>7, Kinds DEF CustomAnswers, Enter, RegInv
  <2> QED BY <2>1 DEF Succeeded
<1>8. CASE CustomResumes
  <2>1. stack # <<>> /\ Pop /\ UNCHANGED <<entries, active>> /\ Top.self \in Customs
    BY <1>8 DEF CustomResumes, CustomReturning, graphVars, scopeVars
  <2>2. active' = active \ {Top.self}
    BY <2>1, Kinds DEF StackInv
  <2>3. stack' # <<>>
    BY <2>1, <2>2, PopKeepsStack, Kinds
  <2> QED BY <2>3 DEF Succeeded
<1>9. ASSUME NEW s, VertexDone(s) PROVE ~Succeeded'
  <2>1. stack # <<>> /\ Pop /\ Len(stack) # 1
    BY <1>9 DEF VertexDone, Succeed, Stage, Finishing, Building
  <2>2. IsSeq(stack') /\ Len(stack') = Len(stack) - 1 /\ Len(stack) \in Nat \ {0}
    BY <2>1, SeqPop DEF Pop, StackInv
  <2>3. stack' # <<>>
    BY <2>1, <2>2, SeqFacts
  <2> QED BY <2>3 DEF Succeeded
<1> QED
  BY <1>1, <1>2, <1>3, <1>4, <1>5, <1>6, <1>7, <1>8, <1>9 DEF Step

\* What a successful Commit leaves stays right until the scope is closed (Commit).
LEMMA ResultStep ==
    ASSUME GraphInv, StackInv, RegInv, ScopeInv, CleanInv, ResultInv, Step,
           GraphInv', StackInv', ScopeInv', CleanInv'
    PROVE  ResultInv'
<1>1. CASE UNCHANGED <<graphVars, histVars, stack, reg, erred, built>>
  <2>1. Succeeded' = Succeeded
    BY <1>1 DEF Succeeded
  <2>2. CommitIsMerkle'
    <3>1. \A o : Reached(o)' = Reached(o)
      BY <1>1 DEF Reached, Closed, References, graphVars
    <3>2. Reached(reg.obj)' = Reached(reg.obj)
      BY <1>1 DEF Reached, Closed, References, graphVars
    <3>3. CommitIsMerkle
      BY DEF ResultInv
    <3> HIDE DEF Reached
    <3> QED BY <1>1, <2>1, <3>2, <3>3, SMTT(60) DEF CommitIsMerkle, graphVars, histVars
  <2>3. FailureSticks' /\ OneOwner'
    BY <1>1, <2>1 DEF ResultInv, FailureSticks, OneOwner
  <2> QED BY <2>2, <2>3 DEF ResultInv
<1>2. ASSUME NEW s, VertexDone(s), Len(stack) = 1 PROVE ResultInv'
  <2>1. EndInv'
    BY <1>2, LastVertex
  <2>2. (EndInv => ResultInv)'
    BY EndIsRight, PTL
  <2> QED BY <2>1, <2>2
<1>3. CASE ~Succeeded'
  BY <1>3 DEF ResultInv, CommitIsMerkle, FailureSticks, OneOwner
<1> QED BY <1>1, <1>2, <1>3, NoOtherSuccess

-----------------------------------------------------------------------------
(* The theorems.                                                            *)

\* The invariant of every Commit, whatever the graph and the custom objects.
THEOREM Invariance == Spec => []Inv
<1>1. Init => Inv
  <2> SUFFICES ASSUME Init PROVE Inv
    OBVIOUS
  <2>1. GraphInv
    BY GraphAssumption DEF Init, GraphInv, GraphAssumption, References
  <2>2. StackInv
    BY SeqEmpty DEF Init, StackInv
  <2>3. NewScope
    BY SeqEmpty, Kinds DEF Init, NewScope, Known
  <2>4. RegInv /\ ScopeInv /\ CleanInv /\ ResultInv
    BY <2>3, SeqEmpty, Kinds DEF Init, RegInv, Idle, ScopeInv, NewScope, Known, CleanInv,
       Clean, ResultInv, CommitIsMerkle, FailureSticks, OneOwner, Succeeded
  <2> QED BY <2>1, <2>2, <2>4 DEF Inv
<1>2. Inv /\ [Next]_vars => Inv'
  <2> SUFFICES ASSUME Inv, [Next]_vars PROVE Inv'
    OBVIOUS
  <2>1. Step
    BY StepShapes
  <2>2. GraphInv'
    <3>1. UNCHANGED graphVars => GraphInv'
      BY DEF Inv, GraphInv, References, graphVars
    <3> QED BY <3>1, EditKeepsGraph, CommitKeepsGraph DEF Inv
  <2>3. StackInv' /\ RegInv' /\ ScopeInv' /\ CleanInv'
    BY <2>1, StackStep, RegStep, ScopeStep, CleanStep DEF Inv
  <2>4. ResultInv'
    BY <2>1, <2>2, <2>3, ResultStep DEF Inv
  <2> QED BY <2>2, <2>3, <2>4 DEF Inv
<1> QED BY <1>1, <1>2, PTL DEF Spec

\* The Root a successful Commit returns is that of the current graph (Commit).
THEOREM RootsAreMerkle == Spec => []CommitIsMerkle
<1>1. Inv => CommitIsMerkle
  BY DEF Inv, ResultInv
<1> QED BY <1>1, Invariance, PTL

\* No custom object hides a failure or puts a Root of its own in the place of a
\* staged one (fail, commitChild).
THEOREM CustomsCannot == Spec => []CustomsCannotLie
<1>1. Inv => CustomsCannotLie
  BY DEF Inv, ResultInv, CustomsCannotLie
<1> QED BY <1>1, Invariance, PTL

\* Vertices committed together share neither a history nor a marker (stage).
THEOREM NoSharedBase == Spec => []OneOwner
<1>1. Inv => OneOwner
  BY DEF Inv, ResultInv
<1> QED BY <1>1, Invariance, PTL

\* Histories advance together, with the success of the outermost Commit, and with
\* them the history of everything reached (confirm).
THEOREM HistoriesAdvanceTogether == Spec => AllOrNothing
<1> DEFINE A == UNCHANGED histVars \/
        /\ Succeeded'
        /\ \A o \in Reached(reg'.obj) : before'[HistoryOf[o]] = after[HistoryOf[o]]
        /\ \A h \in Histories : \/ before'[h] = after[h]
                                \/ UNCHANGED <<before[h], after[h]>>
<1>1. (EndInv => \A p \in Reached(reg.obj) : p \in Managed /\ VertexInv(p))'
  <2>1. EndInv => \A p \in Reached(reg.obj) : p \in Managed /\ VertexInv(p)
    BY ReachedIsKnown
  <2> QED BY <2>1, PTL
<1>2. Inv /\ Inv' /\ [Next]_vars => [A]_vars
  <2> SUFFICES ASSUME Inv, Inv', [Next]_vars, ~UNCHANGED histVars PROVE A
    OBVIOUS
  <2>1. Step
    BY StepShapes
  <2>2. PICK s : VertexDone(s)
    BY <2>1 DEF Step, Edited, Cancel, End, Begin, EntryFails, EnterDone, EnterBuild,
                CallFails, ChildDone, ChildCalled, ChildCommitted, CustomDelegates,
                CustomAnswers, CustomResumes, vars
  <2>3. Len(stack) = 1 /\ Confirm
    BY <2>2 DEF VertexDone
  <2>4. Succeeded' /\ EndInv'
    BY <2>2, <2>3, LastVertex DEF Inv
  <2>5. \A h \in Histories :
           /\ staged'[h] # NotStaged => before'[h] = after[h]
           /\ staged'[h] = NotStaged => before'[h] = before[h] /\ after'[h] = after[h]
    BY <2>3 DEF Confirm
  <2>6. ASSUME NEW o \in Reached(reg'.obj)
        PROVE  before'[HistoryOf[o]] = after[HistoryOf[o]]
    <3>1. (EndInv => \A p \in Reached(reg.obj) : p \in Managed /\ VertexInv(p))'
      BY <1>1
    <3>2. entries' = entries
      BY <2>2 DEF VertexDone, Succeed, graphVars
    <3>3. o \in Reached(reg.obj)'
      BY <2>6, <3>2 DEF Reached, Closed, References
    <3>4. o \in Managed /\ VertexInv(o)'
      BY <2>4, <3>1, <3>3
    <3>5. staged'[HistoryOf[o]] # NotStaged
      BY <3>4, Kinds DEF VertexInv, NotStaged
    <3> QED BY <2>5, <3>4, <3>5, Kinds
  <2> QED BY <2>4, <2>5, <2>6
<1>3. AllOrNothing <=> [][A]_vars
  BY DEF AllOrNothing
<1> QED BY <1>2, <1>3, Invariance, PTL DEF Spec

\* A vertex committed once in a scope is not committed again (done, commitChild).
THEOREM CommittedOnce == Spec => SharedOnce
<1> DEFINE A == \A o \in Managed : o \in built /\ built' # {} /\ done[o] # NoSnapshot =>
                    (done'[o] = done[o] \/ reg' = Idle) /\ o \notin active'
<1>1. Inv /\ Inv' /\ [Next]_vars => [A]_vars
  <2> SUFFICES ASSUME Inv, Inv', [Next]_vars,
                      NEW o \in Managed, Known(o), built' # {}
               PROVE  (done'[o] = done[o] \/ reg' = Idle) /\ o \notin active'
    BY DEF Known
  <2>1. Step
    BY StepShapes
  <2>2. CASE End
    BY <2>2 DEF End
  <2>3. CASE done'[o] = done[o]
    BY <2>3 DEF Inv, ScopeInv, Known
  <2>4. ASSUME NEW s, VertexDone(s) PROVE done'[o] = done[o]
    <3>1. PICK p : p = Top.self
      OBVIOUS
    <3>2. done' = [done EXCEPT ![p] = s] /\ p \in Managed /\ stack # <<>>
      BY <2>4, <3>1 DEF VertexDone, Succeed, Stage, Finishing, Building
    <3>3. p # o
      BY <3>1, <3>2, TopFacts DEF Inv, ScopeInv
    <3> QED BY <3>2, <3>3
  <2>5. CASE ChildCommitted
    <3>1. PICK c, s : c = Child /\ s = Resolved(Child, reg.root)
      OBVIOUS
    <3>2. done' = [done EXCEPT ![c] = s]
      BY <2>5, <3>1 DEF ChildCommitted
    <3>3. c = o => s = done[o]
      BY <3>1 DEF Resolved, Known
    <3> QED BY <2>3, <3>2, <3>3, Kinds DEF Inv, ScopeInv
  <2>6. CASE UNCHANGED done
    BY <2>3, <2>6
  <2>7. End \/ ChildCommitted \/ (\E s : VertexDone(s)) \/ UNCHANGED done
    BY <2>1 DEF Step, Edited, Cancel, Begin, EntryFails, EnterDone, EnterBuild,
                CallFails, ChildDone, ChildCalled, CustomDelegates,
                CustomAnswers, CustomResumes, vars, scopeVars
  <2> QED BY <2>2, <2>3, <2>4, <2>5, <2>6, <2>7
<1>2. SharedOnce <=> [][A]_vars
  BY DEF SharedOnce
<1> QED BY <1>1, <1>2, Invariance, PTL DEF Spec

=============================================================================
