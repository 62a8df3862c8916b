--------------------------- MODULE ObjectQueries ---------------------------
(***************************************************************************)
(* Queries of committed graphs: traversal, and the requests of the         *)
(* protocol that sdk/authentication executes for and verifies against one  *)
(* trusted Root.  One proof is evidence about the Root and the query it    *)
(* was made for: what Verify and VerifyRange of auth/tree accept is true   *)
(* of them (ProofsDecide of MapUpdates, RangesDecide of ListUpdates).      *)
(***************************************************************************)
EXTENDS ObjectDelta

CONSTANTS
    Requests,    \* the requests an application may make, but for their Root
    MaxSteps     \* the steps a request may have (256)

-----------------------------------------------------------------------------
(* Evidence of one Root.                                                    *)

Evidence(root, label) == [about |-> <<root, label>>, target |-> TargetOf(root.arcs, label)]

Verified(root, label, e) ==
    IsRoot(root) /\ e = Evidence(root, label)

Stop(root, end) == IF end = <<>> THEN Cardinality(root.arcs) ELSE end[1]

Within(root, start, end) ==
    IsRoot(root) /\ root.layout = "list"
        /\ start <= Stop(root, end) /\ Stop(root, end) <= Cardinality(root.arcs)

RangeEvidence(root, start, end) ==
    [about   |-> <<root, start, Stop(root, end)>>,
     targets |-> [i \in 1..(Stop(root, end) - start) |-> TargetOf(root.arcs, start + i - 1)]]

VerifiedRange(root, start, end, e) ==
    Within(root, start, end) /\ e = RangeEvidence(root, start, end)

-----------------------------------------------------------------------------
(* Traversal: each step in the Root that the step before it led to.         *)

Path(ok, target, results) == [ok |-> ok, target |-> target, results |-> results]

\* Only the Roots that are reached are looked up; absence ends the path.
RECURSIVE ResolveFrom(_, _, _)
ResolveFrom(available, current, steps) ==
    LET e == Evidence(current, Head(steps))
        rest == ResolveFrom(available, e.target, Tail(steps))
    IN  IF steps = <<>> THEN Path(TRUE, current, <<>>)
        ELSE IF current \notin available THEN Path(FALSE, Undef, <<>>)
        ELSE IF e.target = Undef THEN Path(TRUE, Undef, <<e>>)
        ELSE Path(rest.ok, rest.target, <<e>> \o rest.results)

ResolvePath(available, root, steps) ==
    IF IsRoot(root) THEN ResolveFrom(available, root, steps) ELSE Path(FALSE, Undef, <<>>)

\* Faulty: what the supplied proofs reach is taken for the end of the path.
VerifyPathShort(root, steps, target, results) ==
    LET Current(i) == IF i = 1 THEN root ELSE results[i - 1].target IN
    /\ Len(results) <= Len(steps)
    /\ \A i \in DOMAIN results : Verified(Current(i), steps[i], results[i])
    /\ Current(Len(results) + 1) = target

\* Each result is verified where the last one ended; a path that ends early does
\* so with the absence of the step it ends at, and only for an absent target.
VerifyPath(root, steps, target, results) ==
    LET Current(i) == IF i = 1 THEN root ELSE results[i - 1].target
        absent == {i \in DOMAIN results : results[i].target = Undef}
    IN  /\ Len(results) <= Len(steps) /\ IsRoot(root)
        /\ \A i \in DOMAIN results :
               (\A j \in absent : i <= j) => Verified(Current(i), steps[i], results[i])
        /\ IF absent # {} THEN target = Undef /\ absent = {Len(results)}
           ELSE /\ target # Undef /\ Len(steps) = Len(results)
                /\ Current(Len(results) + 1) = target

-----------------------------------------------------------------------------
(* Requests.  An absent field is <<>>.                                      *)

ValidRequest(q) ==
    /\ IsRoot(q.root) /\ Len(q.steps) <= MaxSteps
    /\ CASE q.operation = "resolve" -> q.label = <<>> /\ q.start = <<>> /\ q.end = <<>>
         [] q.operation = "binding" -> q.label # <<>> /\ q.start = <<>> /\ q.end = <<>>
         [] q.operation = "range"   -> /\ q.label = <<>> /\ q.start # <<>>
                                       /\ q.end = <<>> \/ q.start[1] <= q.end[1]
         [] OTHER -> FALSE

Result(absent, resolved, results, binding, range) ==
    [absent |-> absent, resolved |-> resolved, traversal |-> results,
     binding |-> binding, range |-> range]

Answered(result) == [ok |-> TRUE, result |-> result]
NotAnswered == [ok |-> FALSE, result |-> Result(<<>>, Undef, <<>>, <<>>, <<>>)]

\* ExecuteWithRoots.
Execute(available, q) ==
    LET path == ResolvePath(available, q.root, q.steps)
        Found(binding, range) ==
            Answered(Result(<<>>, path.target, path.results, binding, range))
    IN  IF ~ValidRequest(q) \/ ~path.ok THEN NotAnswered
        ELSE IF path.target = Undef
        THEN Answered(Result(<<Len(path.results) - 1>>, Undef, path.results, <<>>, <<>>))
        ELSE IF q.operation = "resolve" THEN Found(<<>>, <<>>)
        ELSE IF path.target \notin available THEN NotAnswered
        ELSE IF q.operation = "binding" THEN Found(<<Evidence(path.target, q.label[1])>>, <<>>)
        ELSE IF ~Within(path.target, q.start[1], q.end) THEN NotAnswered
        ELSE Found(<<>>, <<RangeEvidence(path.target, q.start[1], q.end)>>)

\* Verify: of the request and the Root in it alone.
VerifyResult(q, r) ==
    /\ ValidRequest(q)
    /\ IF r.absent # <<>>
       THEN /\ r.resolved = Undef /\ r.binding = <<>> /\ r.range = <<>>
            /\ r.absent[1] < Len(q.steps) /\ Len(r.traversal) = r.absent[1] + 1
            /\ VerifyPath(q.root, q.steps, Undef, r.traversal)
       ELSE /\ r.resolved # Undef
            /\ VerifyPath(q.root, q.steps, r.resolved, r.traversal)
            /\ CASE q.operation = "resolve" -> r.binding = <<>> /\ r.range = <<>>
                 [] q.operation = "binding" ->
                        /\ r.binding # <<>> /\ r.range = <<>>
                        /\ Verified(r.resolved, q.label[1], r.binding[1])
                 [] q.operation = "range" ->
                        /\ r.range # <<>> /\ r.binding = <<>>
                        /\ VerifiedRange(r.resolved, q.start[1], q.end, r.range[1])
                 [] OTHER -> FALSE

-----------------------------------------------------------------------------
(* Properties.                                                              *)

\* Reference: where a path leads, or Nothing if it leaves the Roots before its end.
RECURSIVE Leads(_, _)
Leads(current, steps) ==
    IF steps = <<>> \/ current = Undef THEN current
    ELSE IF ~IsRoot(current) THEN Nothing
    ELSE Leads(TargetOf(current.arcs, Head(steps)), Tail(steps))

\* The answer that is true of a request.
IsTrue(q, r) ==
    LET end == Leads(q.root, q.steps) IN
    /\ end # Nothing /\ r.resolved = end
    /\ (end # Undef /\ q.operation = "binding") =>
           r.binding[1].target = TargetOf(end.arcs, q.label[1])
    /\ (end # Undef /\ q.operation = "range") =>
           /\ Within(end, q.start[1], q.end)
           /\ \A i \in 1..(Stop(end, q.end) - q.start[1]) :
                  r.range[1].targets[i] = TargetOf(end.arcs, q.start[1] + i - 1)

\* The Roots in which a path asks for its steps, and the one of the last query.
Consulted(q) ==
    LET before_ == {Leads(q.root, SubSeq(q.steps, 1, n)) : n \in 0..(Len(q.steps) - 1)}
        last == IF q.operation = "resolve" THEN {} ELSE {Leads(q.root, q.steps)}
    IN  {r \in (before_ \cup last) \ {Nothing} : IsRoot(r)}

\* Results of other requests, cut short, drawn out and with other ends.
Doctored(r) ==
    {r, [r EXCEPT !.absent = <<>>], [r EXCEPT !.absent = <<0>>], [r EXCEPT !.binding = <<>>],
     [r EXCEPT !.traversal = @ \o @]}
        \cup {[r EXCEPT !.traversal = s, !.resolved = e] :
                 s \in {r.traversal} \cup IF r.traversal = <<>> THEN {}
                                          ELSE {Front(r.traversal), Tail(r.traversal)},
                 e \in {Undef} \cup {r.traversal[i].target : i \in DOMAIN r.traversal}
                               \cup {r.traversal[i].about[1] : i \in DOMAIN r.traversal}}

\* Over any committed graph, whatever a server offers for a request, only the truth
\* verifies against the one Root the client trusts: neither the steps of another
\* path, nor a path cut off where it is still present, nor an absence moved to
\* another step.  A server that has the Roots of the path has such an answer, and
\* needs no other Root (ResolvePathWithRoots, VerifyPath, Execute, Verify).
QueriesDecide ==
    (Succeeded /\ IsRoot(reg.root)) =>
        LET asked == {[root |-> reg.root, steps |-> q.steps, operation |-> q.operation,
                       label |-> q.label, start |-> q.start, end |-> q.end] : q \in Requests}
            everything == {r \in RootsOf(Graph(after[HistoryOf[reg.obj]])) : IsRoot(r)}
            results == {Execute(everything, q).result : q \in asked}
            offered == UNION {Doctored(r) : r \in results}
        IN  \A q \in asked :
                LET answer == Execute(Consulted(q), q) IN
                /\ answer.ok => VerifyResult(q, answer.result)
                /\ answer.ok <=> \E r \in offered : VerifyResult(q, r)
                /\ \A root \in Consulted(q) : ~Execute(everything \ {root}, q).ok
                /\ \A r \in offered : VerifyResult(q, r) => IsTrue(q, r)
=============================================================================
