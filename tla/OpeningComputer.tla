-------------------------- MODULE OpeningComputer --------------------------
(***************************************************************************)
(* The CUDA opening computer of accelerators/cuda/cuda.go.  Goroutines     *)
(* call Open: under the mutex each one checks that the computer was not    *)
(* stopped and puts its job in a bounded channel, then it waits for its    *)
(* own answer or for the stop signal.  One worker goroutine, locked to its *)
(* OS thread, owns the device: it collects a batch, hands it to the device *)
(* and delivers the points one by one.  Close, or an error of the device,  *)
(* stops the computer once; Close then waits for the worker to free the    *)
(* device.                                                                 *)
(*                                                                         *)
(* A job is named by its caller and the number of the call; the correct    *)
(* point of a job is the job itself, so that a mixed-up answer is visible. *)
(***************************************************************************)
EXTENDS Naturals, Sequences

CONSTANTS
    Callers,     \* goroutines that call Open
    Closers,     \* goroutines that call Close
    Worker,      \* the goroutine started by start
    Nobody,      \* the mutex has no holder
    NoPoint,     \* the zero [48]byte returned beside an error
    MaxCalls,    \* bound: how many times each caller calls Open
    MaxPending,  \* capacity of the jobs channel (Config.MaxPending)
    Batch,       \* largest batch handed to the device (Config.Batch)
    Collecting   \* TRUE iff Config.BatchWait > 0

Job == Callers \X (1..MaxCalls)
Stoppers == Closers \cup {Worker}

ASSUME BoundsAssumption ==
    /\ MaxCalls \in Nat
    /\ MaxPending \in Nat \ {0}
    /\ Batch \in Nat \ {0}
    /\ Collecting \in BOOLEAN

ASSUME IdentityAssumption ==
    /\ Worker \notin Closers
    /\ Callers \cap Stoppers = {}
    /\ Nobody \notin Callers \cup Stoppers
    /\ NoPoint \notin Job

VARIABLES
    ready,       \* what the factory reported on the ready channel
    starter,     \* where start is: waiting, joining, returned or refused
    mu,          \* holder of c.mu
    once,        \* c.once: unused, running or done
    err,         \* c.err
    done,        \* TRUE iff c.done is closed
    stopped,     \* TRUE iff c.stopped is closed
    stopping,    \* where each stopper is in stop and Close
    closeErr,    \* c.closeErr
    closeResult, \* what each Close returned
    jobs,        \* the jobs channel
    result,      \* the result channel of each job
    worker,      \* where the worker is in start and run
    batch,       \* the jobs the worker took
    points,      \* what the device returned for them
    next,        \* the next position of batch to be answered
    context,     \* the device context: none, open or closed
    pc,          \* where each caller is in Open
    calls,       \* how many times each caller called Open
    returned     \* what each finished call returned

startVars  == <<ready, starter>>
stopVars   == <<once, err, done, stopping>>
closeVars  == <<stopped, closeErr, closeResult>>
queueVars  == <<jobs, result>>
workerVars == <<worker, batch, points, next, context>>
callVars   == <<pc, calls, returned>>
vars == <<startVars, mu, stopVars, closeVars, queueVars, workerVars, callVars>>

StopErrors == {"closed", "device"}
Returns == [point : Job \cup {NoPoint},
            err : StopErrors \cup {"none", "running", "invalid", "busy"}]
Running == [point |-> NoPoint, err |-> "running"]
Failure(e) == [point |-> NoPoint, err |-> e]
Success(p) == [point |-> p, err |-> "none"]

Current(c) == <<c, calls[c]>>

\* The jobs accepted and not yet answered, in the order they will be served.
Pending == SubSeq(batch, next, Len(batch)) \o jobs

TypeOK ==
    /\ ready \in {"empty", "ok", "failed"}
    /\ starter \in {"waiting", "joining", "returned", "refused"}
    /\ mu \in Callers \cup Stoppers \cup {Nobody}
    /\ once \in {"unused", "running", "done"}
    /\ err \in StopErrors \cup {"none"}
    /\ done \in BOOLEAN
    /\ stopped \in BOOLEAN
    /\ stopping \in [Stoppers ->
           {"no", "once", "lock", "set", "signal", "stopped", "returned"}]
    /\ closeErr \in {"none", "failed"}
    /\ closeResult \in [Closers -> {"pending", "none", "failed"}]
    /\ jobs \in Seq(Job)
    /\ result \in [Job -> Job \cup {NoPoint}]
    /\ worker \in {"factory", "select", "collect", "fill", "check", "device",
                   "deliver", "stop", "release", "exiting", "exited"}
    /\ batch \in Seq(Job)
    /\ points \in Seq(Job)
    /\ next \in Nat \ {0}
    /\ context \in {"none", "open", "closed"}
    /\ pc \in [Callers -> {"idle", "lock", "check", "send", "wait", "reread"}]
    /\ calls \in [Callers -> 0..MaxCalls]
    /\ returned \in [Job -> Returns]

Init ==
    /\ ready = "empty" /\ starter = "waiting"
    /\ mu = Nobody
    /\ once = "unused" /\ err = "none" /\ done = FALSE
    /\ stopping = [p \in Stoppers |-> "no"]
    /\ stopped = FALSE /\ closeErr = "none"
    /\ closeResult = [k \in Closers |-> "pending"]
    /\ jobs = <<>> /\ result = [j \in Job |-> NoPoint]
    /\ worker = "factory" /\ batch = <<>> /\ points = <<>> /\ next = 1
    /\ context = "none"
    /\ pc = [c \in Callers |-> "idle"]
    /\ calls = [c \in Callers |-> 0]
    /\ returned = [j \in Job |-> Running]

-----------------------------------------------------------------------------
(* start: the worker runs the factory and start waits for its verdict.      *)

FactorySucceeds ==
    /\ worker = "factory"
    /\ ready' = "ok" /\ context' = "open" /\ worker' = "select"
    /\ UNCHANGED <<starter, mu, stopVars, closeVars, queueVars, batch, points,
                   next, callVars>>

FactoryFails ==
    /\ worker = "factory"
    /\ ready' = "failed" /\ worker' = "exiting"
    /\ UNCHANGED <<starter, mu, stopVars, closeVars, queueVars, batch, points,
                   next, context, callVars>>

StartReads ==
    /\ starter = "waiting" /\ ready # "empty"
    /\ starter' = IF ready = "ok" THEN "returned" ELSE "joining"
    /\ UNCHANGED <<ready, mu, stopVars, closeVars, queueVars, workerVars, callVars>>

StartRefuses ==
    /\ starter = "joining" /\ stopped
    /\ starter' = "refused"
    /\ UNCHANGED <<ready, mu, stopVars, closeVars, queueVars, workerVars, callVars>>

-----------------------------------------------------------------------------
(* Open.                                                                    *)

Return(c, r) ==
    /\ returned' = [returned EXCEPT ![Current(c)] = r]
    /\ pc' = [pc EXCEPT ![c] = "idle"]

OpenInvalid(c) ==
    /\ starter = "returned" /\ pc[c] = "idle" /\ calls[c] < MaxCalls
    /\ calls' = [calls EXCEPT ![c] = @ + 1]
    /\ returned' = [returned EXCEPT ![<<c, calls[c] + 1>>] = Failure("invalid")]
    /\ UNCHANGED <<startVars, mu, stopVars, closeVars, queueVars, workerVars, pc>>

OpenBegins(c) ==
    /\ starter = "returned" /\ pc[c] = "idle" /\ calls[c] < MaxCalls
    /\ calls' = [calls EXCEPT ![c] = @ + 1]
    /\ pc' = [pc EXCEPT ![c] = "lock"]
    /\ UNCHANGED <<startVars, mu, stopVars, closeVars, queueVars, workerVars, returned>>

OpenLocks(c) ==
    /\ pc[c] = "lock" /\ mu = Nobody
    /\ mu' = c
    /\ pc' = [pc EXCEPT ![c] = "check"]
    /\ UNCHANGED <<startVars, stopVars, closeVars, queueVars, workerVars, calls, returned>>

OpenFindsStopped(c) ==
    /\ pc[c] = "check" /\ err # "none"
    /\ mu' = Nobody
    /\ Return(c, Failure(err))
    /\ UNCHANGED <<startVars, stopVars, closeVars, queueVars, workerVars, calls>>

OpenFindsRunning(c) ==
    /\ pc[c] = "check" /\ err = "none"
    /\ pc' = [pc EXCEPT ![c] = "send"]
    /\ UNCHANGED <<startVars, mu, stopVars, closeVars, queueVars, workerVars, calls, returned>>

OpenAccepted(c) ==
    /\ pc[c] = "send" /\ Len(jobs) < MaxPending
    /\ jobs' = Append(jobs, Current(c))
    /\ mu' = Nobody
    /\ pc' = [pc EXCEPT ![c] = "wait"]
    /\ UNCHANGED <<startVars, stopVars, closeVars, result, workerVars, calls, returned>>

\* Faulty: a channel with one place left counts as full.
OpenBusyEarly(c) ==
    /\ pc[c] = "send" /\ Len(jobs) + 1 >= MaxPending
    /\ mu' = Nobody
    /\ Return(c, Failure("busy"))
    /\ UNCHANGED <<startVars, stopVars, closeVars, queueVars, workerVars, calls>>

OpenBusy(c) ==
    /\ pc[c] = "send" /\ Len(jobs) >= MaxPending
    /\ mu' = Nobody
    /\ Return(c, Failure("busy"))
    /\ UNCHANGED <<startVars, stopVars, closeVars, queueVars, workerVars, calls>>

\* The select takes either branch when the answer and the stop signal are both ready.
OpenAnswered(c) ==
    /\ pc[c] = "wait" /\ result[Current(c)] # NoPoint
    /\ result' = [result EXCEPT ![Current(c)] = NoPoint]
    /\ Return(c, Success(result[Current(c)]))
    /\ UNCHANGED <<startVars, mu, stopVars, closeVars, jobs, workerVars, calls>>

OpenSignalled(c) ==
    /\ pc[c] = "wait" /\ done
    /\ pc' = [pc EXCEPT ![c] = "reread"]
    /\ UNCHANGED <<startVars, mu, stopVars, closeVars, queueVars, workerVars, calls, returned>>

OpenRereads(c) ==
    /\ pc[c] = "reread" /\ mu = Nobody
    /\ Return(c, Failure(err))
    /\ UNCHANGED <<startVars, mu, stopVars, closeVars, queueVars, workerVars, calls>>

-----------------------------------------------------------------------------
(* stop and Close.  once.Do makes later stoppers wait for the first one.    *)

Reason(p) == IF p = Worker THEN "device" ELSE "closed"

CloseBegins(k) ==
    /\ starter = "returned" /\ stopping[k] = "no"
    /\ stopping' = [stopping EXCEPT ![k] = "once"]
    /\ UNCHANGED <<startVars, mu, once, err, done, closeVars, queueVars, workerVars, callVars>>

StopFirst(p) ==
    /\ stopping[p] = "once" /\ once = "unused"
    /\ once' = "running"
    /\ stopping' = [stopping EXCEPT ![p] = "lock"]
    /\ UNCHANGED <<startVars, mu, err, done, closeVars, queueVars, workerVars, callVars>>

StopAgain(p) ==
    /\ stopping[p] = "once" /\ once = "done"
    /\ stopping' = [stopping EXCEPT ![p] = "stopped"]
    /\ UNCHANGED <<startVars, mu, once, err, done, closeVars, queueVars, workerVars, callVars>>

StopLocks(p) ==
    /\ stopping[p] = "lock" /\ mu = Nobody
    /\ mu' = p
    /\ stopping' = [stopping EXCEPT ![p] = "set"]
    /\ UNCHANGED <<startVars, once, err, done, closeVars, queueVars, workerVars, callVars>>

StopSets(p) ==
    /\ stopping[p] = "set"
    /\ err' = Reason(p)
    /\ stopping' = [stopping EXCEPT ![p] = "signal"]
    /\ UNCHANGED <<startVars, mu, once, done, closeVars, queueVars, workerVars, callVars>>

\* close(done), the unlock and the end of once.Do: nothing reads between them.
StopSignals(p) ==
    /\ stopping[p] = "signal"
    /\ done' = TRUE /\ mu' = Nobody /\ once' = "done"
    /\ stopping' = [stopping EXCEPT ![p] = "stopped"]
    /\ UNCHANGED <<startVars, err, closeVars, queueVars, workerVars, callVars>>

\* Faulty: Close does not wait for c.stopped.
CloseReturnsAtOnce(k) ==
    /\ stopping[k] = "stopped"
    /\ stopping' = [stopping EXCEPT ![k] = "returned"]
    /\ closeResult' = [closeResult EXCEPT ![k] = closeErr]
    /\ UNCHANGED <<startVars, mu, once, err, done, stopped, closeErr, queueVars,
                   workerVars, callVars>>

CloseReturns(k) ==
    /\ stopping[k] = "stopped" /\ stopped
    /\ stopping' = [stopping EXCEPT ![k] = "returned"]
    /\ closeResult' = [closeResult EXCEPT ![k] = closeErr]
    /\ UNCHANGED <<startVars, mu, once, err, done, stopped, closeErr, queueVars,
                   workerVars, callVars>>

-----------------------------------------------------------------------------
(* run.                                                                     *)

WorkerAt(from, to) == worker = from /\ worker' = to

TakeJob ==
    /\ jobs # <<>>
    /\ jobs' = Tail(jobs)
    /\ batch' = Append(batch, Head(jobs))

WorkerTakesFirst ==
    /\ WorkerAt("select", IF Collecting /\ Batch > 1 THEN "collect" ELSE "fill")
    /\ TakeJob
    /\ UNCHANGED <<startVars, mu, stopVars, closeVars, result, points, next, context, callVars>>

\* Faulty: the job is appended to a shadowed batch and forgotten.
WorkerCollectsShadowed ==
    /\ WorkerAt("collect", "collect") /\ Len(batch) < Batch
    /\ jobs # <<>> /\ jobs' = Tail(jobs)
    /\ UNCHANGED <<startVars, mu, stopVars, closeVars, result, batch, points, next,
                   context, callVars>>

WorkerCollects ==
    /\ WorkerAt("collect", "collect") /\ Len(batch) < Batch
    /\ TakeJob
    /\ UNCHANGED <<startVars, mu, stopVars, closeVars, result, points, next, context, callVars>>

\* The batch is full, or the timer fired, which it may do at any moment.
WorkerStopsCollecting ==
    /\ WorkerAt("collect", "fill")
    /\ UNCHANGED <<startVars, mu, stopVars, closeVars, queueVars, batch, points,
                   next, context, callVars>>

WorkerFills ==
    /\ WorkerAt("fill", "fill") /\ Len(batch) < Batch
    /\ TakeJob
    /\ UNCHANGED <<startVars, mu, stopVars, closeVars, result, points, next, context, callVars>>

WorkerStopsFilling ==
    /\ WorkerAt("fill", "check") /\ (Len(batch) >= Batch \/ jobs = <<>>)
    /\ UNCHANGED <<startVars, mu, stopVars, closeVars, queueVars, batch, points,
                   next, context, callVars>>

\* Faulty: break leaves the first select and not the loop around it.
WorkerBreaksSelect ==
    /\ done
    /\ \/ WorkerAt("select", "select")
       \/ WorkerAt("collect", "release") /\ Len(batch) < Batch
       \/ WorkerAt("check", "release")
    /\ UNCHANGED <<startVars, mu, stopVars, closeVars, queueVars, batch, points,
                   next, context, callVars>>

\* The stop signal is seen at the first select, in the collection loop while
\* the batch has room, and at the last check before the device is used.
WorkerSeesDone ==
    /\ done
    /\ \/ WorkerAt("select", "release")
       \/ WorkerAt("collect", "release") /\ Len(batch) < Batch
       \/ WorkerAt("check", "release")
    /\ UNCHANGED <<startVars, mu, stopVars, closeVars, queueVars, batch, points,
                   next, context, callVars>>

WorkerOpens ==
    /\ ~done
    /\ WorkerAt("check", "device")
    /\ UNCHANGED <<startVars, mu, stopVars, closeVars, queueVars, batch, points,
                   next, context, callVars>>

DeviceAnswers ==
    /\ WorkerAt("device", "deliver")
    /\ points' = batch
    /\ UNCHANGED <<startVars, mu, stopVars, closeVars, queueVars, batch, next,
                   context, callVars>>

\* The device failed, or returned another number of points than the batch has jobs.
DeviceFails ==
    /\ WorkerAt("device", "stop")
    /\ stopping' = [stopping EXCEPT ![Worker] = "once"]
    /\ UNCHANGED <<startVars, mu, once, err, done, closeVars, queueVars, batch,
                   points, next, context, callVars>>

\* Faulty: every job of the batch gets the first point.
WorkerDeliversFirst ==
    /\ WorkerAt("deliver", "deliver") /\ next <= Len(batch)
    /\ result[batch[next]] = NoPoint
    /\ result' = [result EXCEPT ![batch[next]] = points[1]]
    /\ next' = next + 1
    /\ UNCHANGED <<startVars, mu, stopVars, closeVars, jobs, batch, points, context, callVars>>

\* The send blocks while the job's channel, of capacity one, is full.
WorkerDelivers ==
    /\ WorkerAt("deliver", "deliver") /\ next <= Len(batch)
    /\ result[batch[next]] = NoPoint
    /\ result' = [result EXCEPT ![batch[next]] = points[next]]
    /\ next' = next + 1
    /\ UNCHANGED <<startVars, mu, stopVars, closeVars, jobs, batch, points, context, callVars>>

WorkerLoops ==
    /\ WorkerAt("deliver", "select") /\ next > Len(batch)
    /\ batch' = <<>> /\ points' = <<>> /\ next' = 1
    /\ UNCHANGED <<startVars, mu, stopVars, closeVars, queueVars, context, callVars>>

WorkerStopped ==
    /\ stopping[Worker] = "stopped"
    /\ WorkerAt("stop", "release")
    /\ UNCHANGED <<startVars, mu, stopVars, closeVars, queueVars, batch, points,
                   next, context, callVars>>

\* Faulty: the context is not freed.
WorkerReleasesNothing(e) ==
    /\ WorkerAt("release", "exiting")
    /\ closeErr' = e
    /\ UNCHANGED <<startVars, mu, stopVars, stopped, closeResult, queueVars,
                   batch, points, next, context, callVars>>

\* The deferred d.close(), which synchronizes and frees the context.
WorkerReleases(e) ==
    /\ WorkerAt("release", "exiting")
    /\ closeErr' = e /\ context' = "closed"
    /\ UNCHANGED <<startVars, mu, stopVars, stopped, closeResult, queueVars,
                   batch, points, next, callVars>>

WorkerExits ==
    /\ WorkerAt("exiting", "exited")
    /\ stopped' = TRUE
    /\ UNCHANGED <<startVars, mu, stopVars, closeErr, closeResult, queueVars,
                   batch, points, next, context, callVars>>

-----------------------------------------------------------------------------
StartStep == StartReads \/ StartRefuses

CallStep(c) ==
    \/ OpenLocks(c) \/ OpenFindsStopped(c) \/ OpenFindsRunning(c)
    \/ OpenAccepted(c) \/ OpenBusy(c) \/ OpenAnswered(c)
    \/ OpenSignalled(c) \/ OpenRereads(c)

StopStep(p) ==
    StopFirst(p) \/ StopAgain(p) \/ StopLocks(p) \/ StopSets(p) \/ StopSignals(p)

WorkerStep ==
    \/ FactorySucceeds \/ FactoryFails
    \/ WorkerTakesFirst \/ WorkerCollects \/ WorkerStopsCollecting
    \/ WorkerFills \/ WorkerStopsFilling \/ WorkerSeesDone \/ WorkerOpens
    \/ DeviceAnswers \/ DeviceFails \/ WorkerDelivers \/ WorkerLoops
    \/ WorkerStopped \/ \E e \in {"none", "failed"} : WorkerReleases(e)
    \/ WorkerExits

\* Everyone who will ever take a step is through.
Finished ==
    /\ worker = "exited"
    /\ \/ starter = "refused"
       \/ /\ \A c \in Callers : pc[c] = "idle" /\ calls[c] = MaxCalls
          /\ \A k \in Closers : stopping[k] = "returned"
    /\ UNCHANGED vars

Next ==
    \/ StartStep \/ WorkerStep
    \/ \E c \in Callers : OpenInvalid(c) \/ OpenBegins(c) \/ CallStep(c)
    \/ \E k \in Closers : CloseBegins(k) \/ CloseReturns(k)
    \/ \E p \in Stoppers : StopStep(p)
    \/ Finished

Spec == Init /\ [][Next]_vars

\* Goroutines that can run do run, and a device call returns.  Nothing makes a
\* caller call Open or Close.
Fairness ==
    /\ WF_vars(StartStep)
    /\ WF_vars(WorkerStep)
    /\ \A c \in Callers : WF_vars(CallStep(c))
    /\ \A p \in Stoppers : WF_vars(StopStep(p))
    /\ \A k \in Closers : WF_vars(CloseReturns(k))

FairSpec == Spec /\ Fairness
-----------------------------------------------------------------------------
(* Properties.                                                              *)

Accepted(c) == pc[c] \in {"wait", "reread"}
Occurrences(s, j) == {i \in 1..Len(s) : s[i] = j}

\* A caller gets the point of its own evaluations and index, never that of a
\* job batched with it or of one of its own earlier calls; an error carries no
\* point (Open, run: batch[i] is answered with points[i]).
AnswersMatch ==
    /\ \A j \in Job : result[j] \in {j, NoPoint}
    /\ \A j \in Job : returned[j].err = "none" => returned[j].point = j
    /\ \A j \in Job : returned[j].err # "none" => returned[j].point = NoPoint

\* Until the computer is stopped, an accepted job is in exactly one place: once
\* in the channel or in the worker's batch, or answered (Open, run).
NoLostJob ==
    done \/ \A c \in Callers : pc[c] = "wait" =>
        LET waiting  == Occurrences(Pending, Current(c))
            answered == result[Current(c)] # NoPoint
        IN  /\ answered => waiting = {}
            /\ ~answered => \E i \in waiting : waiting = {i}

\* A call fails with the reason the computer was stopped for, the first one,
\* and never before the stop signal or the reason is set (Open reads c.err).
StoppedForOneReason ==
    /\ done => err # "none"
    /\ \A j \in Job : returned[j].err \in StopErrors => returned[j].err = err
    /\ \A c \in Callers : pc[c] = "reread" => err # "none"

\* The device is used only while its context is open, and Close returns, with
\* the error of d.close, only after the context is freed ("waits for in-flight
\* CUDA work before freeing its context").
CloseWaitsForDevice ==
    /\ worker = "device" => context = "open"
    /\ \A k \in Closers : stopping[k] = "returned" =>
           /\ context = "closed" /\ worker = "exited"
           /\ closeResult[k] = closeErr

\* Stopping is done once, whoever asks for it (stop, run, Close).
StopsCleanly == StoppedForOneReason /\ CloseWaitsForDevice

\* Close rejects new work: once the reason is set, no job enters the channel,
\* and the reason never changes (Open tests c.err and sends under one lock).
NothingAcceptedAfterStop ==
    [][err # "none" => Len(jobs') <= Len(jobs) /\ err' = err]_vars

(* The computer implements the service it promises: the calls outstanding   *)
(* in the service are those waiting in Open.                                *)
Service == INSTANCE OpeningService WITH
    Calls       <- Job,
    down        <- err,
    begun       <- {j \in Job : j[2] <= calls[j[1]]},
    outstanding <- {j \in Job : j = Current(j[1]) /\ Accepted(j[1])}

\* Every behaviour of the goroutines is one of the service (Open, run, stop).
ServiceSpec == Service!Spec

\* Open waits for device completion or for the stop, and Close for the worker: both
\* return, whoever stopped the computer and whatever was in flight.
CallsReturn ==
    /\ \A c \in Callers : pc[c] # "idle" ~> pc[c] = "idle"
    /\ \A k \in Closers : stopping[k] = "once" ~> stopping[k] = "returned"

\* A device failure frees the device without waiting for a Close (run returns).
FailureFreesDevice == worker = "stop" ~> context = "closed" /\ stopped

=============================================================================
