----------------------- MODULE OpeningComputer_proofs -----------------------
(***************************************************************************)
(* The opening computer is safe, loses no job and implements the service   *)
(* it promises, for any number of callers, closers and calls, any channel  *)
(* capacity and any batch size.                                            *)
(***************************************************************************)
EXTENDS OpeningComputer, TLAPS, FiniteSetTheorems, SequenceTheorems

InStop(p) == stopping[p] \in {"lock", "set", "signal"}

\* A call in progress has a number.
CallInv == \A c \in Callers : pc[c] # "idle" => calls[c] \in 1..MaxCalls

\* c.mu is held exactly by the goroutine inside a critical section.
MutexInv ==
    /\ \A c \in Callers : pc[c] \in {"check", "send"} <=> mu = c
    /\ \A p \in Stoppers : stopping[p] \in {"set", "signal"} <=> mu = p

\* c.err is written once, by the one stopper inside once.Do.
StopInv ==
    /\ once = "running" <=> \E p \in Stoppers : InStop(p)
    /\ \A p, q \in Stoppers : InStop(p) /\ InStop(q) => p = q
    /\ \A p \in Stoppers : stopping[p] \in {"lock", "set"} => err = "none"
    /\ \A p \in Stoppers : stopping[p] = "signal" => err # "none"
    /\ \A p \in Stoppers : stopping[p] \in {"stopped", "returned"} => once = "done"
    /\ once = "unused" => err = "none"
    /\ once = "done" <=> done
    /\ done => err # "none"
    /\ \A c \in Callers : pc[c] = "send" => err = "none"
    /\ \A c \in Callers : pc[c] = "reread" => done

\* Where the worker is determines whether it stops and what it owns.
WorkerInv ==
    /\ worker \in {"select", "collect", "fill", "check", "device", "deliver",
                   "stop", "release"} => context = "open"
    /\ worker \notin {"stop", "release", "exiting", "exited"} => stopping[Worker] = "no"
    /\ worker \in {"release", "exiting", "exited"} => stopping[Worker] \in {"no", "stopped"}
    /\ stopping[Worker] # "returned"
    /\ worker = "deliver" => points = batch
    /\ worker = "factory" => ready = "empty"
    /\ worker \in {"exiting", "exited"} /\ ready # "failed" => context = "closed"
    /\ stopped <=> worker = "exited"
    /\ starter = "returned" => ready = "ok"
    /\ \A k \in Closers : stopping[k] # "no" => starter = "returned"

IInv ==
    /\ TypeOK /\ CallInv /\ MutexInv /\ StopInv /\ WorkerInv
    /\ AnswersMatch /\ StoppedForOneReason /\ CloseWaitsForDevice

-----------------------------------------------------------------------------
\* Receiving from the jobs channel keeps channel and batch sequences of jobs.
LEMMA TakeJobType ==
  ASSUME jobs \in Seq(Job), batch \in Seq(Job), TakeJob
  PROVE  jobs' \in Seq(Job) /\ batch' \in Seq(Job)
<1>1. Head(jobs) \in Job /\ Tail(jobs) \in Seq(Job)
  BY DEF TakeJob
<1> QED BY <1>1 DEF TakeJob

\* What a finished call returns is a point or an error.
LEMMA ReturnType ==
  ASSUME returned \in [Job -> Returns], NEW c \in Callers, NEW r \in Returns, Return(c, r)
  PROVE  returned' \in [Job -> Returns]
BY DEF Return

\* What a caller or the worker makes of a result can be returned (Open, run).
LEMMA OutcomeType ==
  /\ \A e \in StopErrors \cup {"invalid", "busy", "none"} : Failure(e) \in Returns
  /\ \A p \in Job \cup {NoPoint} : Success(p) \in Returns
BY DEF Failure, Success, Returns

\* Open, run and stop keep every field in its type.
LEMMA TypeNext == TypeOK /\ CallInv /\ WorkerInv /\ [Next]_vars => TypeOK'
<1> SUFFICES ASSUME TypeOK, CallInv, WorkerInv, [Next]_vars PROVE TypeOK'
  OBVIOUS
<1> USE DEF TypeOK, Stoppers, StopErrors, startVars, stopVars, closeVars, queueVars,
            workerVars, callVars
<1>job. \A c \in Callers : pc[c] # "idle" => Current(c) \in Job
  BY DEF CallInv, Current, Job
<1>1. CASE StartStep
  BY <1>1 DEF StartStep, StartReads, StartRefuses
<1>2. CASE FactorySucceeds \/ FactoryFails
  BY <1>2 DEF FactorySucceeds, FactoryFails
<1>3. CASE WorkerTakesFirst
  <2>1. TakeJob
    BY <1>3 DEF WorkerTakesFirst
  <2> QED BY <1>3, <2>1, TakeJobType DEF WorkerTakesFirst, WorkerAt
<1>4. CASE WorkerCollects \/ WorkerFills
  <2>1. TakeJob
    BY <1>4 DEF WorkerCollects, WorkerFills
  <2> QED BY <1>4, <2>1, TakeJobType DEF WorkerCollects, WorkerFills, WorkerAt
<1>5. CASE WorkerStopsCollecting \/ WorkerStopsFilling \/ WorkerSeesDone \/ WorkerOpens
  BY <1>5 DEF WorkerStopsCollecting, WorkerStopsFilling, WorkerSeesDone, WorkerOpens, WorkerAt
<1>6. CASE DeviceAnswers
  BY <1>6 DEF DeviceAnswers, WorkerAt
<1>7. CASE DeviceFails
  BY <1>7 DEF DeviceFails, WorkerAt
<1>8. CASE WorkerDelivers
  <2>1. points = batch /\ next \in 1..Len(batch)
    BY <1>8 DEF WorkerDelivers, WorkerAt, WorkerInv
  <2>2. points[next] \in Job
    BY <2>1
  <2> QED BY <1>8, <2>2 DEF WorkerDelivers, WorkerAt
<1>9. CASE WorkerLoops
  BY <1>9 DEF WorkerLoops, WorkerAt
<1>10. CASE WorkerStopped
  BY <1>10 DEF WorkerStopped, WorkerAt
<1>11. ASSUME NEW e \in {"none", "failed"}, WorkerReleases(e) PROVE TypeOK'
  BY <1>11 DEF WorkerReleases, WorkerAt
<1>12. CASE WorkerExits
  BY <1>12 DEF WorkerExits, WorkerAt
<1>13. ASSUME NEW c \in Callers, OpenInvalid(c) PROVE TypeOK'
  <2>1. Failure("invalid") \in Returns
    BY OutcomeType
  <2>2. returned' \in [Job -> Returns]
    BY <1>13, <2>1 DEF OpenInvalid
  <2> QED BY <1>13, <2>2, BoundsAssumption DEF OpenInvalid
<1>14. ASSUME NEW c \in Callers, OpenBegins(c) PROVE TypeOK'
  BY <1>14, BoundsAssumption DEF OpenBegins
<1>15. ASSUME NEW c \in Callers, CallStep(c) PROVE TypeOK'
  <2>1. CASE OpenLocks(c)
    BY <2>1 DEF OpenLocks
  <2>2. CASE OpenFindsStopped(c)
    <3>1. Failure(err) \in Returns
      BY OutcomeType
    <3>2. Return(c, Failure(err))
      BY <2>2 DEF OpenFindsStopped
    <3>3. returned' \in [Job -> Returns]
      BY <3>1, <3>2, ReturnType
    <3> QED BY <2>2, <3>3 DEF OpenFindsStopped, Return
  <2>3. CASE OpenFindsRunning(c)
    BY <2>3 DEF OpenFindsRunning
  <2>4. CASE OpenAccepted(c)
    BY <2>4, <1>job DEF OpenAccepted
  <2>5. CASE OpenBusy(c)
    <3>1. Failure("busy") \in Returns
      BY OutcomeType
    <3>2. Return(c, Failure("busy"))
      BY <2>5 DEF OpenBusy
    <3>3. returned' \in [Job -> Returns]
      BY <3>1, <3>2, ReturnType
    <3> QED BY <2>5, <3>3 DEF OpenBusy, Return
  <2>6. CASE OpenAnswered(c)
    <3>1. result[Current(c)] \in Job \cup {NoPoint}
      BY <2>6, <1>job DEF OpenAnswered
    <3>2. result' \in [Job -> Job \cup {NoPoint}]
      BY <2>6 DEF OpenAnswered
    <3>3. Success(result[Current(c)]) \in Returns
      BY <3>1, OutcomeType
    <3>4. Return(c, Success(result[Current(c)]))
      BY <2>6 DEF OpenAnswered
    <3>5. returned' \in [Job -> Returns]
      BY <3>3, <3>4, ReturnType
    <3> QED BY <2>6, <3>2, <3>5 DEF OpenAnswered, Return
  <2>7. CASE OpenSignalled(c)
    BY <2>7 DEF OpenSignalled
  <2>8. CASE OpenRereads(c)
    <3>1. Failure(err) \in Returns
      BY OutcomeType
    <3>2. Return(c, Failure(err))
      BY <2>8 DEF OpenRereads
    <3>3. returned' \in [Job -> Returns]
      BY <3>1, <3>2, ReturnType
    <3> QED BY <2>8, <3>3 DEF OpenRereads, Return
  <2> QED BY <1>15, <2>1, <2>2, <2>3, <2>4, <2>5, <2>6, <2>7, <2>8 DEF CallStep
<1>16. ASSUME NEW k \in Closers, CloseBegins(k) \/ CloseReturns(k) PROVE TypeOK'
  <2>1. CASE CloseBegins(k)
    BY <2>1 DEF CloseBegins
  <2>2. CASE CloseReturns(k)
    BY <2>2 DEF CloseReturns
  <2> QED BY <1>16, <2>1, <2>2
<1>17. ASSUME NEW p \in Stoppers, StopStep(p) PROVE TypeOK'
  <2>1. CASE StopFirst(p)
    BY <2>1 DEF StopFirst
  <2>5. CASE StopAgain(p)
    BY <2>5 DEF StopAgain
  <2>2. CASE StopLocks(p)
    BY <2>2 DEF StopLocks
  <2>3. CASE StopSets(p)
    BY <2>3 DEF StopSets, Reason
  <2>4. CASE StopSignals(p)
    BY <2>4 DEF StopSignals
  <2> QED BY <1>17, <2>1, <2>2, <2>3, <2>4, <2>5 DEF StopStep
<1>18. CASE UNCHANGED vars
  BY <1>18 DEF vars
<1> QED
  BY <1>1, <1>2, <1>3, <1>4, <1>5, <1>6, <1>7, <1>8, <1>9, <1>10, <1>11, <1>12,
     <1>13, <1>14, <1>15, <1>16, <1>17, <1>18
  DEF Next, WorkerStep, Finished
-----------------------------------------------------------------------------
(* What the steps of each goroutine leave alone.                            *)

\* start and run never touch the lock, the reason or a call.
LEMMA WorkerFrame ==
  ASSUME StartStep \/ WorkerStep
  PROVE  /\ UNCHANGED <<mu, once, err, done, closeResult, callVars>>
         /\ stopping' = stopping \/ DeviceFails
BY DEF StartStep, WorkerStep, StartReads, StartRefuses, FactorySucceeds, FactoryFails,
       WorkerTakesFirst, WorkerCollects, WorkerStopsCollecting, WorkerFills,
       WorkerStopsFilling, WorkerSeesDone, WorkerOpens, DeviceAnswers, DeviceFails,
       WorkerDelivers, WorkerLoops, WorkerStopped, WorkerReleases, WorkerExits,
       stopVars, closeVars, callVars

\* Open never touches what start, run, stop and Close keep.
LEMMA CallFrame ==
  ASSUME NEW c \in Callers, OpenInvalid(c) \/ OpenBegins(c) \/ CallStep(c)
  PROVE  UNCHANGED <<startVars, stopVars, closeVars, workerVars>>
BY DEF CallStep, OpenInvalid, OpenBegins, OpenLocks, OpenFindsStopped,
       OpenFindsRunning, OpenAccepted, OpenBusy, OpenAnswered, OpenSignalled,
       OpenRereads

\* stop and Close touch only the stop state and the lock.
LEMMA StopFrame ==
  ASSUME NEW p \in Stoppers, StopStep(p)
  PROVE  UNCHANGED <<startVars, closeVars, queueVars, workerVars, callVars>>
BY DEF StopStep, StopFirst, StopAgain, StopLocks, StopSets, StopSignals

\* Closing the device leaves the queue, the worker and the callers alone (Close).
LEMMA CloseFrame ==
  ASSUME NEW k \in Closers, CloseBegins(k) \/ CloseReturns(k)
  PROVE  UNCHANGED <<startVars, mu, once, err, done, stopped, closeErr, queueVars,
                     workerVars, callVars>>
BY DEF CloseBegins, CloseReturns, closeVars

-----------------------------------------------------------------------------
\* A call gets its number when it begins and keeps it until it returns (Open).
LEMMA CallNext == TypeOK /\ CallInv /\ [Next]_vars => CallInv'
<1> SUFFICES ASSUME TypeOK, CallInv, [Next]_vars PROVE CallInv'
  OBVIOUS
<1>1. CASE StartStep \/ WorkerStep
  BY <1>1, WorkerFrame DEF CallInv, callVars
<1>2. ASSUME NEW c \in Callers, OpenInvalid(c) \/ OpenBegins(c) PROVE CallInv'
  BY <1>2, BoundsAssumption DEF CallInv, OpenInvalid, OpenBegins, TypeOK
<1>3. ASSUME NEW c \in Callers, CallStep(c) PROVE CallInv'
  BY <1>3 DEF CallInv, CallStep, OpenLocks, OpenFindsStopped, OpenFindsRunning,
     OpenAccepted, OpenBusy, OpenAnswered, OpenSignalled, OpenRereads, Return, TypeOK
<1>4. ASSUME NEW p \in Stoppers, StopStep(p) PROVE CallInv'
  BY <1>4, StopFrame DEF CallInv, callVars
<1>5. ASSUME NEW k \in Closers, CloseBegins(k) \/ CloseReturns(k) PROVE CallInv'
  BY <1>5, CloseFrame DEF CallInv, callVars
<1>6. CASE UNCHANGED vars
  BY <1>6 DEF CallInv, vars, callVars
<1> QED BY <1>1, <1>2, <1>3, <1>4, <1>5, <1>6 DEF Next, Finished

\* c.mu excludes: a goroutine enters a critical section only when it is free.
LEMMA MutexNext == TypeOK /\ MutexInv /\ WorkerInv /\ [Next]_vars => MutexInv'
<1> SUFFICES ASSUME TypeOK, MutexInv, WorkerInv, [Next]_vars PROVE MutexInv'
  OBVIOUS
<1>id. /\ Nobody \notin Callers /\ Nobody \notin Stoppers
       /\ \A c \in Callers, p \in Stoppers : c # p
  BY IdentityAssumption
<1>ty. /\ pc \in [Callers -> {"idle", "lock", "check", "send", "wait", "reread"}]
       /\ stopping \in [Stoppers -> {"no", "once", "lock", "set", "signal",
                                     "stopped", "returned"}]
  BY DEF TypeOK
<1> USE <1>id, <1>ty DEF MutexInv
<1>1. CASE StartStep \/ WorkerStep
  <2>1. UNCHANGED <<mu, pc>>
    BY <1>1, WorkerFrame DEF callVars
  <2>2. CASE stopping' = stopping
    BY <2>1, <2>2
  <2>3. CASE DeviceFails
    <3>1. stopping[Worker] = "no" /\ stopping' = [stopping EXCEPT ![Worker] = "once"]
      BY <2>3 DEF DeviceFails, WorkerAt, WorkerInv
    <3> QED BY <2>1, <3>1 DEF Stoppers
  <2> QED BY <1>1, <2>2, <2>3, WorkerFrame
<1>2. ASSUME NEW c \in Callers, OpenInvalid(c) \/ OpenBegins(c) PROVE MutexInv'
  BY <1>2 DEF OpenInvalid, OpenBegins, stopVars
<1>3. ASSUME NEW c \in Callers, CallStep(c) PROVE MutexInv'
  <2>1. stopping' = stopping
    BY <1>3, CallFrame DEF stopVars
  <2>2. CASE OpenLocks(c)
    BY <2>1, <2>2 DEF OpenLocks
  <2>3. CASE OpenFindsStopped(c)
    <3>1. mu = c /\ mu' = Nobody /\ pc' = [pc EXCEPT ![c] = "idle"]
      BY <2>3 DEF OpenFindsStopped, Return
    <3> QED BY <2>1, <3>1
  <2>6. CASE OpenBusy(c)
    <3>1. mu = c /\ mu' = Nobody /\ pc' = [pc EXCEPT ![c] = "idle"]
      BY <2>6 DEF OpenBusy, Return
    <3> QED BY <2>1, <3>1
  <2>4. CASE OpenFindsRunning(c) \/ OpenAccepted(c)
    BY <2>1, <2>4 DEF OpenFindsRunning, OpenAccepted
  <2>5. CASE OpenAnswered(c) \/ OpenSignalled(c) \/ OpenRereads(c)
    BY <2>1, <2>5 DEF OpenAnswered, OpenSignalled, OpenRereads, Return
  <2> QED BY <1>3, <2>2, <2>3, <2>4, <2>5, <2>6 DEF CallStep
<1>4. ASSUME NEW p \in Stoppers, StopStep(p) PROVE MutexInv'
  <2>1. pc' = pc
    BY <1>4, StopFrame DEF callVars
  <2>2. CASE StopFirst(p)
    BY <2>1, <2>2 DEF StopFirst
  <2>6. CASE StopAgain(p)
    BY <2>1, <2>6 DEF StopAgain
  <2>3. CASE StopLocks(p)
    BY <2>1, <2>3 DEF StopLocks
  <2>4. CASE StopSets(p)
    BY <2>1, <2>4 DEF StopSets
  <2>5. CASE StopSignals(p)
    BY <2>1, <2>5 DEF StopSignals
  <2> QED BY <1>4, <2>2, <2>3, <2>4, <2>5, <2>6 DEF StopStep
<1>5. ASSUME NEW k \in Closers, CloseBegins(k) \/ CloseReturns(k) PROVE MutexInv'
  BY <1>5 DEF CloseBegins, CloseReturns, callVars
<1>6. CASE UNCHANGED vars
  BY <1>6 DEF vars, callVars, stopVars
<1> QED BY <1>1, <1>2, <1>3, <1>4, <1>5, <1>6 DEF Next, Finished

\* once.Do runs its body once: the reason is set by the first stopper only and
\* the signal follows it.
LEMMA StopNext == TypeOK /\ MutexInv /\ StopInv /\ WorkerInv /\ [Next]_vars => StopInv'
<1> SUFFICES ASSUME TypeOK, MutexInv, StopInv, WorkerInv, [Next]_vars PROVE StopInv'
  OBVIOUS
<1>ty. /\ pc \in [Callers -> {"idle", "lock", "check", "send", "wait", "reread"}]
       /\ stopping \in [Stoppers -> {"no", "once", "lock", "set", "signal",
                                     "stopped", "returned"}]
       /\ once \in {"unused", "running", "done"}
  BY DEF TypeOK
<1>id. \A c \in Callers, p \in Stoppers : c # p
  BY IdentityAssumption
<1> USE <1>ty DEF StopInv, InStop
<1>1. CASE StartStep \/ WorkerStep
  <2>1. UNCHANGED <<once, err, done, pc>>
    BY <1>1, WorkerFrame DEF callVars
  <2>2. CASE stopping' = stopping
    BY <2>1, <2>2
  <2>3. CASE DeviceFails
    <3>1. stopping[Worker] = "no" /\ stopping' = [stopping EXCEPT ![Worker] = "once"]
      BY <2>3 DEF DeviceFails, WorkerAt, WorkerInv
    <3> QED BY <2>1, <3>1 DEF Stoppers
  <2> QED BY <1>1, <2>2, <2>3, WorkerFrame
<1>2. ASSUME NEW c \in Callers, OpenInvalid(c) \/ OpenBegins(c) PROVE StopInv'
  BY <1>2 DEF OpenInvalid, OpenBegins, stopVars
<1>3. ASSUME NEW c \in Callers, CallStep(c) PROVE StopInv'
  <2>1. UNCHANGED <<once, err, done, stopping>>
    BY <1>3, CallFrame DEF stopVars
  <2>2. CASE OpenLocks(c) \/ OpenAccepted(c)
    BY <2>1, <2>2 DEF OpenLocks, OpenAccepted
  <2>3. CASE OpenFindsStopped(c) \/ OpenBusy(c) \/ OpenAnswered(c) \/ OpenRereads(c)
    <3>1. pc' = [pc EXCEPT ![c] = "idle"]
      BY <2>3 DEF OpenFindsStopped, OpenBusy, OpenAnswered, OpenRereads, Return
    <3> QED BY <2>1, <3>1
  <2>4. CASE OpenFindsRunning(c)
    BY <2>1, <2>4 DEF OpenFindsRunning
  <2>5. CASE OpenSignalled(c)
    BY <2>1, <2>5 DEF OpenSignalled
  <2> QED BY <1>3, <2>2, <2>3, <2>4, <2>5 DEF CallStep
<1>4. ASSUME NEW p \in Stoppers, StopStep(p) PROVE StopInv'
  <2>1. pc' = pc
    BY <1>4, StopFrame DEF callVars
  <2>2. CASE StopFirst(p)
    BY <2>1, <2>2 DEF StopFirst
  <2>3. CASE StopAgain(p)
    BY <2>1, <2>3 DEF StopAgain
  <2>4. CASE StopLocks(p)
    BY <2>1, <2>4 DEF StopLocks
  <2>5. CASE StopSets(p)
    <3>1. \A c \in Callers : pc[c] # "send"
      BY <2>5, <1>id DEF StopSets, MutexInv
    <3>2. err' # "none"
      BY <2>5 DEF StopSets, Reason
    <3> QED BY <2>1, <2>5, <3>1, <3>2 DEF StopSets
  <2>6. CASE StopSignals(p)
    BY <2>1, <2>6 DEF StopSignals
  <2> QED BY <1>4, <2>2, <2>3, <2>4, <2>5, <2>6 DEF StopStep
<1>5. ASSUME NEW k \in Closers, CloseBegins(k) \/ CloseReturns(k) PROVE StopInv'
  <2>1. UNCHANGED <<once, err, done, pc>>
    BY <1>5, CloseFrame DEF callVars
  <2>2. k \in Stoppers
    BY DEF Stoppers
  <2>3. CASE CloseBegins(k)
    BY <2>1, <2>2, <2>3 DEF CloseBegins
  <2>4. CASE CloseReturns(k)
    BY <2>1, <2>2, <2>4 DEF CloseReturns
  <2> QED BY <1>5, <2>3, <2>4
<1>6. CASE UNCHANGED vars
  BY <1>6 DEF vars, callVars, stopVars
<1> QED BY <1>1, <1>2, <1>3, <1>4, <1>5, <1>6 DEF Next, Finished

\* The worker follows run: it owns an open context until it releases it.
LEMMA WorkerNext == TypeOK /\ WorkerInv /\ [Next]_vars => WorkerInv'
<1> SUFFICES ASSUME TypeOK, WorkerInv, [Next]_vars PROVE WorkerInv'
  OBVIOUS
<1>ty. stopping \in [Stoppers -> {"no", "once", "lock", "set", "signal",
                                  "stopped", "returned"}]
  BY DEF TypeOK
<1>w. Worker \in Stoppers /\ Worker \notin Closers /\ Closers \subseteq Stoppers
  BY IdentityAssumption DEF Stoppers
<1> USE <1>ty, <1>w DEF WorkerInv
<1>1. CASE StartStep
  BY <1>1 DEF StartStep, StartReads, StartRefuses, stopVars, closeVars, workerVars, TypeOK
<1>2. CASE FactorySucceeds \/ FactoryFails
  BY <1>2 DEF FactorySucceeds, FactoryFails, stopVars, closeVars
<1>3. CASE WorkerTakesFirst \/ WorkerCollects \/ WorkerFills
  BY <1>3 DEF WorkerTakesFirst, WorkerCollects, WorkerFills, WorkerAt, startVars,
     stopVars, closeVars
<1>4. CASE WorkerStopsCollecting \/ WorkerStopsFilling \/ WorkerSeesDone \/ WorkerOpens
  BY <1>4 DEF WorkerStopsCollecting, WorkerStopsFilling, WorkerSeesDone, WorkerOpens,
     WorkerAt, startVars, stopVars, closeVars
<1>5. CASE DeviceAnswers \/ WorkerDelivers \/ WorkerLoops
  BY <1>5 DEF DeviceAnswers, WorkerDelivers, WorkerLoops, WorkerAt, startVars, stopVars,
     closeVars
<1>6. CASE DeviceFails
  BY <1>6 DEF DeviceFails, WorkerAt, startVars, closeVars
<1>7. CASE WorkerStopped
  BY <1>7 DEF WorkerStopped, WorkerAt, startVars, stopVars, closeVars
<1>8. ASSUME NEW e \in {"none", "failed"}, WorkerReleases(e) PROVE WorkerInv'
  BY <1>8 DEF WorkerReleases, WorkerAt, startVars, stopVars
<1>9. CASE WorkerExits
  BY <1>9 DEF WorkerExits, WorkerAt, startVars, stopVars
<1>10. ASSUME NEW c \in Callers, OpenInvalid(c) \/ OpenBegins(c) \/ CallStep(c)
       PROVE WorkerInv'
  BY <1>10, CallFrame DEF startVars, stopVars, closeVars, workerVars
<1>11. ASSUME NEW p \in Stoppers, StopStep(p) PROVE WorkerInv'
  <2>1. UNCHANGED <<ready, starter, stopped, worker, points, batch, context>>
    BY <1>11, StopFrame DEF startVars, closeVars, workerVars
  <2>2. stopping[p] \in {"once", "lock", "set", "signal"}
    BY <1>11 DEF StopStep, StopFirst, StopAgain, StopLocks, StopSets, StopSignals
  <2>3. \E s \in {"lock", "set", "signal", "stopped"} :
            stopping' = [stopping EXCEPT ![p] = s]
    BY <1>11 DEF StopStep, StopFirst, StopAgain, StopLocks, StopSets, StopSignals
  <2> QED BY <2>1, <2>2, <2>3
<1>12. ASSUME NEW k \in Closers, CloseBegins(k) \/ CloseReturns(k) PROVE WorkerInv'
  <2>1. UNCHANGED <<ready, starter, stopped, worker, points, batch, context>>
    BY <1>12, CloseFrame DEF startVars, workerVars
  <2>2. starter = "returned"
    BY <1>12 DEF CloseBegins, CloseReturns
  <2>3. \E s \in {"once", "returned"} : stopping' = [stopping EXCEPT ![k] = s]
    BY <1>12 DEF CloseBegins, CloseReturns
  <2> QED BY <2>1, <2>2, <2>3
<1>13. CASE UNCHANGED vars
  BY <1>13 DEF vars, startVars, stopVars, closeVars, workerVars
<1> QED
  BY <1>1, <1>2, <1>3, <1>4, <1>5, <1>6, <1>7, <1>8, <1>9, <1>10, <1>11, <1>12, <1>13
  DEF Next, WorkerStep, Finished

-----------------------------------------------------------------------------
\* What an Open step does to the outcome of its call.
LEMMA CallOutcome ==
  ASSUME TypeOK, CallInv, StopInv, NEW c \in Callers, CallStep(c)
  PROVE  \/ UNCHANGED <<returned, result>>
         \/ /\ Current(c) \in Job
            /\ \E e \in StopErrors \cup {"busy"} :
                  /\ returned' = [returned EXCEPT ![Current(c)] = Failure(e)]
                  /\ e \in StopErrors => e = err
            /\ result' = result
         \/ /\ Current(c) \in Job /\ result[Current(c)] # NoPoint
            /\ returned' = [returned EXCEPT ![Current(c)] = Success(result[Current(c)])]
            /\ result' = [result EXCEPT ![Current(c)] = NoPoint]
<1>1. Current(c) \in Job \/ pc[c] = "idle"
  BY DEF CallInv, Current, Job
<1>2. err \in StopErrors \/ err = "none"
  BY DEF TypeOK
<1>3. CASE OpenLocks(c) \/ OpenFindsRunning(c) \/ OpenAccepted(c) \/ OpenSignalled(c)
  BY <1>3 DEF OpenLocks, OpenFindsRunning, OpenAccepted, OpenSignalled, queueVars
<1>4. CASE OpenFindsStopped(c)
  BY <1>1, <1>2, <1>4 DEF OpenFindsStopped, Return, queueVars
<1>5. CASE OpenBusy(c)
  BY <1>1, <1>5 DEF OpenBusy, Return, queueVars, StopErrors
<1>6. CASE OpenAnswered(c)
  BY <1>1, <1>6 DEF OpenAnswered, Return
<1>7. CASE OpenRereads(c)
  BY <1>1, <1>2, <1>7 DEF OpenRereads, Return, queueVars, StopInv
<1> QED BY <1>3, <1>4, <1>5, <1>6, <1>7 DEF CallStep

\* Points reach the caller whose job they answer (Open, run).
LEMMA AnswersNext ==
  TypeOK /\ CallInv /\ StopInv /\ WorkerInv /\ AnswersMatch /\ [Next]_vars => AnswersMatch'
<1> SUFFICES ASSUME TypeOK, CallInv, StopInv, WorkerInv, AnswersMatch, [Next]_vars
             PROVE  AnswersMatch'
  OBVIOUS
<1>ty. result \in [Job -> Job \cup {NoPoint}] /\ returned \in [Job -> Returns]
  BY DEF TypeOK
<1> USE <1>ty DEF AnswersMatch
<1>1. CASE StartStep
  BY <1>1 DEF StartStep, StartReads, StartRefuses, queueVars, callVars
<1>2. CASE WorkerDelivers
  <2>1. batch[next] \in Job /\ points[next] = batch[next]
    BY <1>2 DEF WorkerDelivers, WorkerAt, WorkerInv, TypeOK
  <2>2. returned' = returned
    BY <1>2 DEF WorkerDelivers, callVars
  <2> QED BY <1>2, <2>1, <2>2 DEF WorkerDelivers
<1>3. CASE WorkerStep /\ ~WorkerDelivers
  BY <1>3 DEF WorkerStep, FactorySucceeds, FactoryFails, WorkerTakesFirst,
     WorkerCollects, WorkerStopsCollecting, WorkerFills, WorkerStopsFilling,
     WorkerSeesDone, WorkerOpens, DeviceAnswers, DeviceFails, WorkerLoops,
     WorkerStopped, WorkerReleases, WorkerExits, queueVars, callVars
<1>4. ASSUME NEW c \in Callers, OpenInvalid(c) PROVE AnswersMatch'
  BY <1>4 DEF OpenInvalid, Failure, queueVars
<1>5. ASSUME NEW c \in Callers, OpenBegins(c) PROVE AnswersMatch'
  BY <1>5 DEF OpenBegins, queueVars
<1>6. ASSUME NEW c \in Callers, CallStep(c) PROVE AnswersMatch'
  <2>1. CASE UNCHANGED <<returned, result>>
    BY <2>1
  <2>2. CASE \E e \in StopErrors \cup {"busy"} :
               /\ returned' = [returned EXCEPT ![Current(c)] = Failure(e)]
               /\ result' = result
    BY <2>2 DEF Failure, StopErrors
  <2>3. CASE /\ Current(c) \in Job /\ result[Current(c)] # NoPoint
             /\ returned' = [returned EXCEPT ![Current(c)] = Success(result[Current(c)])]
             /\ result' = [result EXCEPT ![Current(c)] = NoPoint]
    <3>1. result[Current(c)] = Current(c)
      BY <2>3
    <3> QED BY <2>3, <3>1 DEF Success
  <2> QED BY <1>6, <2>1, <2>2, <2>3, CallOutcome
<1>7. ASSUME NEW p \in Stoppers, StopStep(p) PROVE AnswersMatch'
  BY <1>7, StopFrame DEF queueVars, callVars
<1>8. ASSUME NEW k \in Closers, CloseBegins(k) \/ CloseReturns(k) PROVE AnswersMatch'
  BY <1>8, CloseFrame DEF queueVars, callVars
<1>9. CASE UNCHANGED vars
  BY <1>9 DEF vars, queueVars, callVars
<1> QED BY <1>1, <1>2, <1>3, <1>4, <1>5, <1>6, <1>7, <1>8, <1>9 DEF Next, Finished

\* A stopped call reports the one reason that was set (Open, stop).
LEMMA ReasonNext ==
  TypeOK /\ CallInv /\ StopInv /\ StoppedForOneReason /\ [Next]_vars => StoppedForOneReason'
<1> SUFFICES ASSUME TypeOK, CallInv, StopInv, StoppedForOneReason, [Next]_vars
             PROVE  StoppedForOneReason'
  OBVIOUS
<1>ty. /\ pc \in [Callers -> {"idle", "lock", "check", "send", "wait", "reread"}]
       /\ returned \in [Job -> Returns] /\ err \in StopErrors \cup {"none"}
  BY DEF TypeOK
<1>no. "none" \notin StopErrors
  BY DEF StopErrors
<1> USE <1>ty, <1>no DEF StoppedForOneReason
<1>1. CASE StartStep \/ WorkerStep
  BY <1>1, WorkerFrame DEF callVars
<1>2. ASSUME NEW c \in Callers, OpenInvalid(c) PROVE StoppedForOneReason'
  BY <1>2 DEF OpenInvalid, Failure, stopVars, StopErrors
<1>3. ASSUME NEW c \in Callers, OpenBegins(c) PROVE StoppedForOneReason'
  BY <1>3 DEF OpenBegins, stopVars
<1>4. ASSUME NEW c \in Callers, CallStep(c) PROVE StoppedForOneReason'
  <2>1. UNCHANGED <<err, done>>
    BY <1>4, CallFrame DEF stopVars
  <2>2. \A j \in Job : returned'[j].err \in StopErrors => returned'[j].err = err
    <3>1. CASE UNCHANGED <<returned, result>>
      BY <3>1
    <3>2. CASE \E e \in StopErrors \cup {"busy"} :
                 /\ returned' = [returned EXCEPT ![Current(c)] = Failure(e)]
                 /\ e \in StopErrors => e = err
      BY <3>2 DEF Failure
    <3>3. CASE returned' = [returned EXCEPT ![Current(c)] = Success(result[Current(c)])]
      BY <3>3 DEF Success
    <3> QED BY <1>4, <3>1, <3>2, <3>3, CallOutcome
  <2>3. pc' = pc \/ \E s \in {"check", "send", "wait", "idle"} : pc' = [pc EXCEPT ![c] = s]
                 \/ (done /\ pc' = [pc EXCEPT ![c] = "reread"])
    BY <1>4 DEF CallStep, OpenLocks, OpenFindsStopped, OpenFindsRunning, OpenAccepted,
       OpenBusy, OpenAnswered, OpenSignalled, OpenRereads, Return
  <2> QED BY <2>1, <2>2, <2>3
<1>5. ASSUME NEW p \in Stoppers, StopStep(p) PROVE StoppedForOneReason'
  <2>1. UNCHANGED <<pc, returned>>
    BY <1>5, StopFrame DEF callVars
  <2>2. CASE StopSets(p)
    <3>1. err = "none" /\ done' = done
      BY <2>2 DEF StopSets, StopInv
    <3> QED BY <2>1, <2>2, <3>1 DEF StopSets, Reason
  <2>3. CASE StopSignals(p)
    BY <2>1, <2>3 DEF StopSignals, StopInv
  <2>4. CASE StopFirst(p) \/ StopAgain(p) \/ StopLocks(p)
    BY <2>1, <2>4 DEF StopFirst, StopAgain, StopLocks
  <2> QED BY <1>5, <2>2, <2>3, <2>4 DEF StopStep
<1>6. ASSUME NEW k \in Closers, CloseBegins(k) \/ CloseReturns(k) PROVE StoppedForOneReason'
  BY <1>6, CloseFrame DEF callVars
<1>7. CASE UNCHANGED vars
  BY <1>7 DEF vars, stopVars, callVars
<1> QED BY <1>1, <1>2, <1>3, <1>4, <1>5, <1>6, <1>7 DEF Next, Finished

\* Close returns only after the worker freed the device (Close, start).
LEMMA CloseNext ==
  TypeOK /\ WorkerInv /\ CloseWaitsForDevice /\ [Next]_vars => CloseWaitsForDevice'
<1> SUFFICES ASSUME TypeOK, WorkerInv, CloseWaitsForDevice, [Next]_vars
             PROVE  CloseWaitsForDevice'
  OBVIOUS
<1>ty. /\ stopping \in [Stoppers -> {"no", "once", "lock", "set", "signal",
                                     "stopped", "returned"}]
       /\ closeResult \in [Closers -> {"pending", "none", "failed"}]
  BY DEF TypeOK
<1>w. Worker \in Stoppers /\ Worker \notin Closers /\ Closers \subseteq Stoppers
  BY IdentityAssumption DEF Stoppers
<1>dev. worker' = "device" => context' = "open"
  BY WorkerNext DEF WorkerInv
<1> USE <1>ty, <1>w DEF CloseWaitsForDevice
<1>1. CASE StartStep \/ WorkerStep
  <2>1. worker # "exited" => \A k \in Closers : stopping[k] # "returned"
    OBVIOUS
  <2>2. \A k \in Closers : stopping'[k] = stopping[k]
    BY <1>1, WorkerFrame DEF DeviceFails
  <2>3. worker = "exited" => UNCHANGED <<worker, context, closeErr>>
    BY <1>1 DEF StartStep, WorkerStep, StartReads, StartRefuses, FactorySucceeds,
       FactoryFails, WorkerTakesFirst, WorkerCollects, WorkerStopsCollecting, WorkerFills,
       WorkerStopsFilling, WorkerSeesDone, WorkerOpens, DeviceAnswers, DeviceFails,
       WorkerDelivers, WorkerLoops, WorkerStopped, WorkerReleases, WorkerExits, WorkerAt,
       closeVars, workerVars
  <2>4. closeResult' = closeResult
    BY <1>1, WorkerFrame
  <2> QED BY <1>dev, <2>1, <2>2, <2>3, <2>4
<1>2. ASSUME NEW c \in Callers, OpenInvalid(c) \/ OpenBegins(c) \/ CallStep(c)
      PROVE  CloseWaitsForDevice'
  BY <1>2, CallFrame DEF stopVars, closeVars, workerVars
<1>3. ASSUME NEW p \in Stoppers, StopStep(p) PROVE CloseWaitsForDevice'
  <2>1. UNCHANGED <<worker, context, closeErr, closeResult>>
    BY <1>3, StopFrame DEF closeVars, workerVars
  <2>2. \E s \in {"lock", "set", "signal", "stopped"} :
            stopping' = [stopping EXCEPT ![p] = s]
    BY <1>3 DEF StopStep, StopFirst, StopAgain, StopLocks, StopSets, StopSignals
  <2> QED BY <2>1, <2>2
<1>4. ASSUME NEW k \in Closers, CloseBegins(k) PROVE CloseWaitsForDevice'
  BY <1>4 DEF CloseBegins, closeVars, workerVars
<1>5. ASSUME NEW k \in Closers, CloseReturns(k) PROVE CloseWaitsForDevice'
  <2>1. worker = "exited" /\ context = "closed"
    BY <1>5 DEF CloseReturns, WorkerInv
  <2> QED BY <1>5, <2>1 DEF CloseReturns, workerVars
<1>6. CASE UNCHANGED vars
  BY <1>6 DEF vars, stopVars, closeVars, workerVars
<1> QED BY <1>1, <1>2, <1>3, <1>4, <1>5, <1>6 DEF Next, Finished

-----------------------------------------------------------------------------
(* The inductive invariant and the theorems it gives.                       *)

\* start builds a computer nobody has called or stopped.
LEMMA InitInv == Init => IInv
<1> SUFFICES ASSUME Init PROVE IInv
  OBVIOUS
<1> USE IdentityAssumption, BoundsAssumption DEF Init, Stoppers
<1>1. TypeOK
  <2>1. returned \in [Job -> Returns] /\ result \in [Job -> Job \cup {NoPoint}]
    BY DEF Returns, Running
  <2>2. jobs \in Seq(Job) /\ batch \in Seq(Job) /\ points \in Seq(Job)
    OBVIOUS
  <2>3. calls \in [Callers -> 0..MaxCalls]
    OBVIOUS
  <2>4. /\ stopping \in [Stoppers -> {"no", "once", "lock", "set", "signal",
                                     "stopped", "returned"}]
        /\ closeResult \in [Closers -> {"pending", "none", "failed"}]
        /\ pc \in [Callers -> {"idle", "lock", "check", "send", "wait", "reread"}]
    OBVIOUS
  <2>5. next \in Nat \ {0} /\ err \in StopErrors \cup {"none"} /\ mu = Nobody
    OBVIOUS
  <2> QED BY <2>1, <2>2, <2>3, <2>4, <2>5 DEF TypeOK
<1>2. CallInv /\ MutexInv /\ StopInv /\ WorkerInv
  BY DEF CallInv, MutexInv, StopInv, WorkerInv, InStop
<1>3. AnswersMatch /\ StoppedForOneReason /\ CloseWaitsForDevice
  BY DEF AnswersMatch, StoppedForOneReason, CloseWaitsForDevice, Running, StopErrors
<1> QED BY <1>1, <1>2, <1>3 DEF IInv

\* Every step of start, Open, run, stop and Close keeps the invariant.
LEMMA NextInv == IInv /\ [Next]_vars => IInv'
BY TypeNext, CallNext, MutexNext, StopNext, WorkerNext, AnswersNext, ReasonNext, CloseNext
   DEF IInv

\* All reachable states of the computer satisfy the invariant.
THEOREM Invariance == Spec => []IInv
<1>1. Init => IInv
  BY InitInv
<1>2. IInv /\ [Next]_vars => IInv'
  BY NextInv
<1> QED BY <1>1, <1>2, PTL DEF Spec

\* Every field of the computer and of its calls keeps its type.
THEOREM TypeCorrect == Spec => []TypeOK
<1>1. IInv => TypeOK
  BY DEF IInv
<1> QED BY <1>1, Invariance, PTL

\* No call ever receives the point of another job, or a point beside an error.
THEOREM AnswersCorrect == Spec => []AnswersMatch
<1>1. IInv => AnswersMatch
  BY DEF IInv
<1> QED BY <1>1, Invariance, PTL

\* Every stopped call reports the first reason, and none before it is set.
THEOREM OneReason == Spec => []StoppedForOneReason
<1>1. IInv => StoppedForOneReason
  BY DEF IInv
<1> QED BY <1>1, Invariance, PTL

\* The device is used only in its open context and Close returns after it is freed.
THEOREM CloseWaits == Spec => []CloseWaitsForDevice
<1>1. IInv => CloseWaitsForDevice
  BY DEF IInv
<1> QED BY <1>1, Invariance, PTL

\* Stopping is clean: one reason for everyone, and the device freed before Close returns.
THEOREM StopsCorrectly == Spec => []StopsCleanly
<1>1. StoppedForOneReason /\ CloseWaitsForDevice => StopsCleanly
  BY DEF StopsCleanly
<1> QED BY <1>1, OneReason, CloseWaits, PTL

\* Once a reason is set it never changes and no job enters the channel.
LEMMA StopRejects ==
  IInv /\ [Next]_vars => [err # "none" => Len(jobs') <= Len(jobs) /\ err' = err]_vars
<1> SUFFICES ASSUME IInv, Next, err # "none"
             PROVE  Len(jobs') <= Len(jobs) /\ err' = err
  BY DEF IInv
<1>ty. jobs \in Seq(Job) /\ batch \in Seq(Job)
  BY DEF IInv, TypeOK
<1>len. Len(jobs) \in Nat
  BY <1>ty
<1>take. TakeJob => Len(jobs') <= Len(jobs)
  BY <1>ty DEF TakeJob
<1>1. CASE StartStep \/ WorkerStep
  <2>1. jobs' = jobs \/ TakeJob
    BY <1>1 DEF StartStep, WorkerStep, StartReads, StartRefuses, FactorySucceeds,
       FactoryFails, WorkerTakesFirst, WorkerCollects, WorkerStopsCollecting, WorkerFills,
       WorkerStopsFilling, WorkerSeesDone, WorkerOpens, DeviceAnswers, DeviceFails,
       WorkerDelivers, WorkerLoops, WorkerStopped, WorkerReleases, WorkerExits, queueVars
  <2> QED BY <1>1, <2>1, <1>take, <1>len, WorkerFrame
<1>2. ASSUME NEW c \in Callers, OpenInvalid(c) \/ OpenBegins(c) \/ CallStep(c)
      PROVE  Len(jobs') <= Len(jobs) /\ err' = err
  <2>1. ~OpenAccepted(c)
    BY DEF OpenAccepted, IInv, StopInv
  <2>2. jobs' = jobs
    BY <1>2, <2>1 DEF CallStep, OpenInvalid, OpenBegins, OpenLocks, OpenFindsStopped,
       OpenFindsRunning, OpenBusy, OpenAnswered, OpenSignalled, OpenRereads, queueVars
  <2> QED BY <1>2, <2>2, <1>len, CallFrame DEF stopVars
<1>3. ASSUME NEW p \in Stoppers, StopStep(p) PROVE Len(jobs') <= Len(jobs) /\ err' = err
  <2>1. ~StopSets(p)
    BY DEF StopSets, IInv, StopInv
  <2>2. err' = err
    BY <1>3, <2>1 DEF StopStep, StopFirst, StopAgain, StopLocks, StopSignals
  <2> QED BY <1>3, <2>2, <1>len, StopFrame DEF queueVars
<1>4. ASSUME NEW k \in Closers, CloseBegins(k) \/ CloseReturns(k)
      PROVE  Len(jobs') <= Len(jobs) /\ err' = err
  BY <1>4, <1>len, CloseFrame DEF queueVars
<1>5. CASE Finished
  BY <1>5, <1>len DEF Finished, vars, queueVars, stopVars
<1> QED BY <1>1, <1>2, <1>3, <1>4, <1>5 DEF Next

\* Close and a device failure reject new work for good.
THEOREM StopIsFinal == Spec => NothingAcceptedAfterStop
<1>1. Spec => []IInv
  BY Invariance
<1>2. IInv /\ [Next]_vars => [err # "none" => Len(jobs') <= Len(jobs) /\ err' = err]_vars
  BY StopRejects
<1> QED BY <1>1, <1>2, PTL DEF Spec, NothingAcceptedAfterStop

-----------------------------------------------------------------------------
(* No job is lost: where an accepted job is, and that a call returns once.  *)

Waiting(j) == j = Current(j[1]) /\ pc[j[1]] = "wait"

\* The worker delivers inside its batch.
BatchInv == next \in 1..(Len(batch) + 1)

\* Every accepted job is pending once or answered, and nothing else is.
QueueInv ==
    done \/
    /\ \A i \in 1..Len(Pending) : Waiting(Pending[i]) /\ result[Pending[i]] = NoPoint
    /\ \A i, k \in 1..Len(Pending) : Pending[i] = Pending[k] => i = k
    /\ \A c \in Callers : pc[c] = "wait" /\ result[Current(c)] = NoPoint =>
           \E i \in 1..Len(Pending) : Pending[i] = Current(c)
    /\ \A j \in Job : result[j] # NoPoint => Waiting(j)

\* A call in progress, or not begun, has returned nothing.
RunningInv ==
    /\ \A c \in Callers : pc[c] # "idle" => returned[Current(c)] = Running
    /\ \A j \in Job : j[2] > calls[j[1]] => returned[j] = Running

QInv == IInv /\ BatchInv /\ QueueInv /\ RunningInv

-----------------------------------------------------------------------------
(* The pending jobs as one sequence.                                        *)

\* What is left of a batch, followed by the channel, position by position.
LEMMA RestProperties ==
  ASSUME NEW S, NEW s \in Seq(S), NEW t \in Seq(S), NEW n \in 1..(Len(s) + 1)
  PROVE  LET p == SubSeq(s, n, Len(s)) \o t
             r == Len(s) - n + 1
         IN  /\ p \in Seq(S)
             /\ r \in Nat
             /\ Len(p) = r + Len(t)
             /\ \A i \in 1..Len(p) : p[i] = IF i <= r THEN s[n + i - 1] ELSE t[i - r]
<1> DEFINE q == SubSeq(s, n, Len(s))
           r == Len(s) - n + 1
<1>1. Len(s) \in Nat /\ n \in Int /\ r \in Nat
  OBVIOUS
<1>2. \A i \in n..Len(s) : s[i] \in S
  BY <1>1, ElementOfSeq
<1>3. /\ q \in Seq(S)
      /\ Len(q) = IF n <= Len(s) THEN Len(s) - n + 1 ELSE 0
      /\ \A i \in 1..(Len(s) - n + 1) : q[i] = s[n + i - 1]
  BY <1>1, <1>2, SubSeqProperties
<1>4. Len(q) = r
  BY <1>1, <1>3
<1>5. /\ q \o t \in Seq(S)
      /\ Len(q \o t) = Len(q) + Len(t)
      /\ \A i \in 1..(Len(q) + Len(t)) :
            (q \o t)[i] = IF i <= Len(q) THEN q[i] ELSE t[i - Len(q)]
  BY <1>3, ConcatProperties
<1>6. \A i \in 1..Len(q \o t) : (q \o t)[i] = IF i <= r THEN s[n + i - 1] ELSE t[i - r]
  BY <1>1, <1>3, <1>4, <1>5
<1> QED BY <1>1, <1>4, <1>5, <1>6

\* The pending jobs: the rest of the batch, then the channel.
PendingShape ==
    LET r == Len(batch) - next + 1
    IN  /\ Pending \in Seq(Job)
        /\ r \in Nat
        /\ Len(Pending) = r + Len(jobs)
        /\ \A i \in 1..Len(Pending) :
              Pending[i] = IF i <= r THEN batch[next + i - 1] ELSE jobs[i - r]

\* run and Open keep the shape whatever the batch and the channel hold.
LEMMA PendingAt == TypeOK /\ BatchInv => PendingShape
BY RestProperties DEF TypeOK, BatchInv, Pending, PendingShape

\* Moving a job from the channel to the batch changes neither its place nor any
\* other's (run: the first receive, the collection and the fill).
LEMMA TakeKeepsPending ==
  ASSUME TypeOK, TypeOK', BatchInv, TakeJob, next' = next
  PROVE  BatchInv' /\ Pending' = Pending
<1>ty. /\ jobs \in Seq(Job) /\ batch \in Seq(Job) /\ jobs # <<>> /\ next \in Nat
       /\ next \in 1..(Len(batch) + 1) /\ Len(batch) \in Nat /\ Len(jobs) \in Nat
  BY DEF TypeOK, TakeJob, BatchInv
<1>1. /\ Head(jobs) \in Job /\ Head(jobs) = jobs[1]
      /\ Len(jobs') = Len(jobs) - 1
      /\ \A i \in 1..Len(jobs') : jobs'[i] = jobs[i + 1]
  BY <1>ty, HeadTailProperties DEF TakeJob
<1>2. /\ Len(batch') = Len(batch) + 1
      /\ \A i \in 1..Len(batch) : batch'[i] = batch[i]
      /\ batch'[Len(batch) + 1] = jobs[1]
  BY <1>ty, <1>1, AppendProperties DEF TakeJob
<1>3. BatchInv'
  BY <1>ty, <1>2 DEF BatchInv
<1> DEFINE r == Len(batch) - next + 1
<1>4. /\ Pending \in Seq(Job) /\ r \in Nat /\ Len(Pending) = r + Len(jobs)
      /\ \A i \in 1..Len(Pending) :
            Pending[i] = IF i <= r THEN batch[next + i - 1] ELSE jobs[i - r]
      /\ next + r = Len(batch) + 1
  BY PendingAt, <1>ty DEF PendingShape
<1>5. PendingShape'
  <2>1. (TypeOK /\ BatchInv => PendingShape)'
    BY PendingAt, PTL
  <2> QED BY <1>3, <2>1
<1>6. /\ Pending' \in Seq(Job)
      /\ Len(Pending') = r + 1 + (Len(jobs) - 1)
      /\ \A i \in 1..Len(Pending') :
            Pending'[i] = IF i <= r + 1 THEN batch'[next + i - 1] ELSE jobs'[i - (r + 1)]
  <2>1. Len(batch') - next + 1 = r + 1
    BY <1>ty, <1>2
  <2> QED BY <1>1, <1>5, <2>1 DEF PendingShape
<1> HIDE DEF r
<1>7. Len(Pending') = Len(Pending)
  BY <1>4, <1>6, <1>ty
<1>8. ASSUME NEW i \in 1..Len(Pending) PROVE Pending'[i] = Pending[i]
  <2>1. i \in Nat /\ 1 <= i /\ i <= r + Len(jobs)
    BY <1>4, <1>ty
  <2>2. CASE i <= r
    <3>1. next + i - 1 \in 1..Len(batch)
      BY <1>ty, <1>4, <2>1, <2>2
    <3>2. Pending'[i] = batch'[next + i - 1]
      BY <1>4, <1>6, <1>7, <2>1, <2>2
    <3>3. Pending[i] = batch[next + i - 1]
      BY <1>4, <2>1, <2>2
    <3> QED BY <1>2, <3>1, <3>2, <3>3
  <2>3. CASE i = r + 1
    <3>1. next + i - 1 = Len(batch) + 1 /\ i - r = 1
      BY <1>ty, <1>4, <2>3
    <3>2. Pending'[i] = jobs[1]
      <4>1. i \in 1..Len(Pending')
        BY <1>7
      <4>2. Pending'[i] = batch'[next + i - 1]
        BY <1>6, <2>3, <4>1
      <4> QED BY <1>2, <3>1, <4>2
    <3>3. Pending[i] = jobs[1]
      BY <1>4, <2>1, <2>3, <3>1
    <3> QED BY <3>2, <3>3
  <2>4. CASE i > r + 1
    <3>1. i - (r + 1) \in 1..Len(jobs') /\ (i - (r + 1)) + 1 = i - r
      BY <1>ty, <1>1, <1>4, <2>1, <2>4
    <3>2. Pending'[i] = jobs'[i - (r + 1)]
      BY <1>4, <1>6, <1>7, <2>1, <2>4
    <3>3. Pending[i] = jobs[i - r]
      BY <1>4, <2>1, <2>4
    <3> QED BY <1>1, <3>1, <3>2, <3>3
  <2> QED BY <1>4, <2>1, <2>2, <2>3, <2>4
<1>9. Pending' = Pending
  BY <1>4, <1>6, <1>7, <1>8, SeqEqual
<1> QED BY <1>3, <1>9

\* A job enters at the end (Open: the send).
LEMMA AcceptAppends ==
  ASSUME TypeOK, BatchInv, NEW c \in Callers, Current(c) \in Job, OpenAccepted(c)
  PROVE  BatchInv' /\ Pending' = Append(Pending, Current(c))
<1> DEFINE rest == SubSeq(batch, next, Len(batch))
<1>1. jobs' = Append(jobs, Current(c)) /\ batch' = batch /\ next' = next
  BY DEF OpenAccepted, workerVars
<1>2. jobs \in Seq(Job) /\ batch \in Seq(Job) /\ <<Current(c)>> \in Seq(Job)
  BY DEF TypeOK
<1>3. rest \in Seq(Job)
  <2>1. next \in Int /\ Len(batch) \in Int /\ \A i \in next..Len(batch) : batch[i] \in Job
    BY <1>2, ElementOfSeq DEF BatchInv
  <2> QED BY <2>1, SubSeqProperties
<1>pend. Pending = rest \o jobs /\ Pending' = rest \o jobs'
  BY <1>1 DEF Pending
<1> HIDE DEF rest
<1>4. rest \o jobs \in Seq(Job)
  BY <1>2, <1>3, ConcatProperties
<1>5. jobs' = jobs \o <<Current(c)>>
  BY <1>1, <1>2, AppendIsConcat
<1>6. rest \o (jobs \o <<Current(c)>>) = (rest \o jobs) \o <<Current(c)>>
  BY <1>2, <1>3, ConcatAssociative
<1>7. (rest \o jobs) \o <<Current(c)>> = Append(rest \o jobs, Current(c))
  BY <1>4, AppendIsConcat
<1> QED BY <1>1, <1>pend, <1>5, <1>6, <1>7 DEF BatchInv

\* A job leaves at the front, answered (run: the send on its result channel).
LEMMA DeliverTakesFirst ==
  ASSUME TypeOK, TypeOK', BatchInv, WorkerDelivers
  PROVE  /\ BatchInv'
         /\ Len(Pending) \in Nat \ {0} /\ Pending[1] = batch[next]
         /\ Len(Pending') = Len(Pending) - 1
         /\ \A i \in 1..Len(Pending') : Pending'[i] = Pending[i + 1]
<1>1. /\ next \in 1..Len(batch) /\ next \in Nat /\ Len(batch) \in Nat /\ Len(jobs) \in Nat
      /\ UNCHANGED <<batch, jobs>> /\ next' = next + 1
  BY DEF TypeOK, BatchInv, WorkerDelivers
<1>2. BatchInv'
  BY <1>1 DEF BatchInv
<1>3. PendingShape
  BY PendingAt
<1>4. PendingShape'
  <2>1. (TypeOK /\ BatchInv => PendingShape)'
    BY PendingAt, PTL
  <2> QED BY <1>2, <2>1
<1> DEFINE r == Len(batch) - next
<1>5. r \in Nat /\ Len(batch) - next + 1 = r + 1 /\ Len(batch) - next' + 1 = r
  BY <1>1
<1>6. /\ Len(Pending) = r + 1 + Len(jobs)
      /\ \A i \in 1..Len(Pending) :
            Pending[i] = IF i <= r + 1 THEN batch[next + i - 1] ELSE jobs[i - (r + 1)]
  BY <1>3, <1>5 DEF PendingShape
<1>7. /\ Len(Pending') = r + Len(jobs)
      /\ \A i \in 1..Len(Pending') :
            Pending'[i] = IF i <= r THEN batch[next + 1 + i - 1] ELSE jobs[i - r]
  BY <1>1, <1>4, <1>5 DEF PendingShape
<1> HIDE DEF r
<1>8. Pending[1] = batch[next] /\ Len(Pending) \in Nat \ {0}
  BY <1>1, <1>5, <1>6
<1>9. ASSUME NEW i \in 1..Len(Pending') PROVE Pending'[i] = Pending[i + 1]
  <2>1. i \in Nat /\ 1 <= i /\ i + 1 \in 1..Len(Pending)
    BY <1>1, <1>5, <1>6, <1>7
  <2>2. next + 1 + i - 1 = next + (i + 1) - 1 /\ (i + 1) - (r + 1) = i - r
    BY <1>1, <1>5, <2>1
  <2>3. i <= r <=> i + 1 <= r + 1
    BY <1>5, <2>1
  <2> QED BY <1>6, <1>7, <2>1, <2>2, <2>3
<1> QED BY <1>1, <1>2, <1>5, <1>6, <1>7, <1>8, <1>9

\* A batch is dropped only when every job of it is answered (run: the loop).
LEMMA LoopKeepsPending ==
  ASSUME TypeOK, BatchInv, WorkerLoops
  PROVE  BatchInv' /\ Pending' = Pending
<1>1. /\ batch' = <<>> /\ next' = 1 /\ jobs' = jobs /\ next > Len(batch)
      /\ next \in Int /\ Len(batch) \in Int
  BY DEF WorkerLoops, queueVars, TypeOK
<1>2. SubSeq(batch, next, Len(batch)) = <<>>
  BY <1>1, SubSeqEmpty
<1>3. SubSeq(batch', next', Len(batch')) = <<>>
  BY <1>1, SubSeqEmpty
<1>4. Pending' = Pending
  BY <1>1, <1>2, <1>3 DEF Pending
<1>5. Len(batch') = 0
  BY <1>1
<1>6. BatchInv'
  BY <1>1, <1>5 DEF BatchInv
<1> QED BY <1>4, <1>6

-----------------------------------------------------------------------------
(* The queue: each step keeps every accepted job pending once or answered.  *)

\* Steps that move nothing between the channel, the batch and the results.
LEMMA QueueFrame ==
  ASSUME QueueInv, Pending' = Pending, UNCHANGED <<result, pc, calls>>, done => done'
  PROVE  QueueInv'
BY DEF QueueInv, Waiting, Current

\* Steps of a caller that is not waiting before or after (Open, before the send).
LEMMA QueueCallFrame ==
  ASSUME TypeOK, QueueInv, Pending \in Seq(Job),
         NEW c \in Callers, pc[c] # "wait", NEW s, s # "wait",
         pc' = [pc EXCEPT ![c] = s] \/ (pc' = pc /\ s = pc[c]),
         \A d \in Callers : d # c => calls'[d] = calls[d],
         UNCHANGED <<result, done>>, Pending' = Pending
  PROVE  QueueInv'
<1>1. CASE done
  BY <1>1 DEF QueueInv
<1>2. CASE ~done
  <2>1. \A d \in Callers : pc'[d] = IF d = c THEN s ELSE pc[d]
    BY DEF TypeOK
  <2>2. \A d \in Callers : pc'[d] = "wait" <=> pc[d] = "wait"
    BY <2>1
  <2>3. \A d \in Callers : pc[d] = "wait" => Current(d)' = Current(d)
    BY DEF Current
  <2>4. \A j \in Job : Waiting(j)' <=> Waiting(j)
    BY <2>2, <2>3 DEF Waiting, Job, Current
  <2>5. \A i \in 1..Len(Pending) : Pending[i] \in Job
    BY ElementOfSeq
  <2> QED BY <1>2, <2>2, <2>3, <2>4, <2>5 DEF QueueInv
<1> QED BY <1>1, <1>2

\* The send of an accepted job (Open).
LEMMA QueueAccept ==
  ASSUME IInv, BatchInv, QueueInv, NEW c \in Callers, OpenAccepted(c)
  PROVE  BatchInv' /\ QueueInv'
<1>ty. TypeOK /\ Pending \in Seq(Job)
  BY PendingAt DEF IInv, PendingShape
<1>1. /\ Current(c) \in Job /\ Current(c)[1] = c /\ pc[c] = "send"
      /\ pc' = [pc EXCEPT ![c] = "wait"] /\ UNCHANGED <<calls, result, done>>
  BY DEF OpenAccepted, IInv, CallInv, Current, Job, queueVars, stopVars, workerVars
<1>2. BatchInv' /\ Pending' = Append(Pending, Current(c))
  BY <1>ty, <1>1, AcceptAppends
<1> DEFINE n == Len(Pending)
<1>3. /\ n \in Nat /\ Len(Pending') = n + 1
      /\ \A i \in 1..n : Pending'[i] = Pending[i] /\ Pending[i] \in Job
      /\ Pending'[n + 1] = Current(c)
  BY <1>ty, <1>1, <1>2, AppendProperties, ElementOfSeq
<1> HIDE DEF n
<1>4. CASE done
  BY <1>1, <1>2, <1>4 DEF QueueInv
<1>5. CASE ~done
  <2>1. /\ \A d \in Callers : pc'[d] = IF d = c THEN "wait" ELSE pc[d]
        /\ \A d \in Callers : Current(d)' = Current(d)
    BY <1>1, <1>ty DEF TypeOK, Current
  <2>2. \A j \in Job : Waiting(j)' <=> Waiting(j) \/ j = Current(c)
    <3> TAKE j \in Job
    <3>1. j[1] \in Callers
      BY DEF Job
    <3> QED BY <2>1, <3>1, <1>1 DEF Waiting
  <2>3. \A i \in 1..n : Waiting(Pending[i]) /\ result[Pending[i]] = NoPoint
    BY <1>5 DEF QueueInv, n
  <2>4. \A i \in 1..n : Pending[i] # Current(c)
    BY <1>1, <2>3 DEF Waiting
  <2>5. result[Current(c)] = NoPoint
    BY <1>1, <1>5 DEF QueueInv, Waiting
  <2>6. \A i \in 1..(n + 1) : i \in 1..n \/ i = n + 1
    BY <1>3
  <2>7. \A i \in 1..(n + 1) : Waiting(Pending[i])' /\ result'[Pending'[i]] = NoPoint
    <3> TAKE i \in 1..(n + 1)
    <3>1. CASE i \in 1..n
      <4>1. Pending'[i] = Pending[i] /\ Pending[i] \in Job
        BY <1>3, <3>1
      <4>2. Waiting(Pending[i]) /\ result[Pending[i]] = NoPoint
        BY <2>3, <3>1
      <4>3. Waiting(Pending[i])'
        BY <2>2, <4>1, <4>2 DEF Waiting
      <4> QED BY <1>1, <4>1, <4>2, <4>3
    <3>2. CASE i = n + 1
      BY <1>1, <1>3, <2>2, <2>5, <3>2 DEF Waiting
    <3> QED BY <2>6, <3>1, <3>2
  <2>8. \A i, k \in 1..(n + 1) : Pending'[i] = Pending'[k] => i = k
    <3>1. \A i, k \in 1..n : Pending[i] = Pending[k] => i = k
      BY <1>5 DEF QueueInv, n
    <3> QED BY <1>3, <2>4, <2>6, <3>1
  <2>9. \A d \in Callers : pc'[d] = "wait" /\ result'[Current(d)'] = NoPoint =>
            \E i \in 1..(n + 1) : Pending'[i] = Current(d)'
    <3> TAKE d \in Callers
    <3>1. CASE d = c
      BY <1>3, <2>1, <3>1
    <3>2. ASSUME d # c, pc'[d] = "wait", result'[Current(d)'] = NoPoint
          PROVE  \E i \in 1..(n + 1) : Pending'[i] = Current(d)'
      <4>1. PICK i \in 1..n : Pending[i] = Current(d)
        BY <1>1, <1>5, <2>1, <3>2 DEF QueueInv, n
      <4> QED BY <1>3, <2>1, <4>1
    <3> QED BY <3>1, <3>2
  <2>10. \A j \in Job : result'[j] # NoPoint => Waiting(j)'
    BY <1>1, <1>5, <2>2 DEF QueueInv
  <2> QED BY <1>2, <1>3, <2>7, <2>8, <2>9, <2>10 DEF QueueInv
<1> QED BY <1>4, <1>5

\* The delivery of one point (run).
LEMMA QueueDeliver ==
  ASSUME IInv, TypeOK', BatchInv, QueueInv, WorkerDelivers
  PROVE  BatchInv' /\ QueueInv'
<1>ty. TypeOK /\ Pending \in Seq(Job)
  BY PendingAt DEF IInv, PendingShape
<1>1. /\ UNCHANGED <<pc, calls, done>> /\ next \in 1..Len(batch)
      /\ result' = [result EXCEPT ![batch[next]] = points[next]]
      /\ points = batch /\ batch[next] \in Job
  BY DEF WorkerDelivers, WorkerAt, IInv, TypeOK, WorkerInv, stopVars, callVars
<1>2. /\ BatchInv' /\ Pending[1] = batch[next] /\ Len(Pending) \in Nat \ {0}
      /\ Len(Pending') = Len(Pending) - 1
      /\ \A i \in 1..Len(Pending') : Pending'[i] = Pending[i + 1]
  BY <1>ty, DeliverTakesFirst
<1> DEFINE n == Len(Pending) - 1
<1>3. /\ n \in Nat /\ Len(Pending') = n /\ Len(Pending) = n + 1
      /\ \A i \in 1..n : i + 1 \in 1..(n + 1) /\ i + 1 # 1
      /\ \A i \in 1..(n + 1) : i = 1 \/ (i - 1 \in 1..n /\ (i - 1) + 1 = i)
  BY <1>2
<1> HIDE DEF n
<1>4. CASE done
  BY <1>1, <1>2, <1>4 DEF QueueInv
<1>5. CASE ~done
  <2>1. /\ \A i \in 1..(n + 1) : Waiting(Pending[i]) /\ result[Pending[i]] = NoPoint
        /\ \A i, k \in 1..(n + 1) : Pending[i] = Pending[k] => i = k
    BY <1>3, <1>5 DEF QueueInv
  <2>2. \A j \in Job : result'[j] = IF j = Pending[1] THEN Pending[1] ELSE result[j]
    BY <1>ty, <1>1, <1>2 DEF TypeOK
  <2>3. \A j : Waiting(j)' <=> Waiting(j)
    BY <1>1 DEF Waiting, Current
  <2>4. 1 \in 1..(n + 1) /\ Pending[1] \in Job /\ Pending[1] # NoPoint
    BY <1>1, <1>2, <1>3, IdentityAssumption
  <2>5. \A i \in 1..n : Pending'[i] = Pending[i + 1] /\ Pending[i + 1] \in Job
    BY <1>ty, <1>2, <1>3, ElementOfSeq
  <2>6. \A i \in 1..n : Waiting(Pending[i])' /\ result'[Pending'[i]] = NoPoint
    <3> TAKE i \in 1..n
    <3>1. i + 1 \in 1..(n + 1) /\ Pending[i + 1] # Pending[1]
      BY <1>3, <2>1, <2>4
    <3>2. Waiting(Pending[i + 1]) /\ result[Pending[i + 1]] = NoPoint
      BY <2>1, <3>1
    <3>3. Waiting(Pending[i])'
      BY <1>1, <2>5, <3>2 DEF Waiting, Current
    <3> QED BY <2>2, <2>5, <3>1, <3>2, <3>3
  <2>7. \A i, k \in 1..n : Pending'[i] = Pending'[k] => i = k
    <3> TAKE i, k \in 1..n
    <3>1. i + 1 = k + 1 => i = k
      BY <1>3
    <3> QED BY <1>3, <2>1, <2>5, <3>1
  <2>8. \A c \in Callers : pc'[c] = "wait" /\ result'[Current(c)'] = NoPoint =>
            \E i \in 1..n : Pending'[i] = Current(c)'
    <3> SUFFICES ASSUME NEW c \in Callers, pc'[c] = "wait", result'[Current(c)'] = NoPoint
                 PROVE  \E i \in 1..n : Pending'[i] = Current(c)'
      OBVIOUS
    <3>1. Current(c)' = Current(c) /\ Current(c) \in Job /\ pc[c] = "wait"
      BY <1>1 DEF Current, IInv, CallInv, Job
    <3>2. Current(c) # Pending[1] /\ result[Current(c)] = NoPoint
      BY <2>2, <2>4, <3>1
    <3>3. PICK i \in 1..(n + 1) : Pending[i] = Current(c)
      BY <1>3, <1>5, <3>1, <3>2 DEF QueueInv
    <3>4. i - 1 \in 1..n /\ Pending'[i - 1] = Current(c)
      BY <1>3, <2>5, <3>2, <3>3
    <3> QED BY <3>1, <3>4
  <2>9. \A j \in Job : result'[j] # NoPoint => Waiting(j)'
    BY <1>5, <2>1, <2>2, <2>3, <2>4 DEF QueueInv
  <2> QED BY <1>2, <1>3, <2>6, <2>7, <2>8, <2>9 DEF QueueInv
<1> QED BY <1>4, <1>5

\* The receipt of an answer (Open: the select's first case).
LEMMA QueueAnswer ==
  ASSUME IInv, BatchInv, QueueInv, NEW c \in Callers, OpenAnswered(c)
  PROVE  QueueInv'
<1>ty. TypeOK /\ Pending \in Seq(Job)
  BY PendingAt DEF IInv, PendingShape
<1>1. /\ pc[c] = "wait" /\ result[Current(c)] # NoPoint /\ Current(c) \in Job
      /\ Current(c)[1] = c
      /\ pc' = [pc EXCEPT ![c] = "idle"] /\ result' = [result EXCEPT ![Current(c)] = NoPoint]
      /\ UNCHANGED <<calls, done>> /\ Pending' = Pending
  BY DEF OpenAnswered, Return, IInv, CallInv, Current, Job, stopVars, workerVars, Pending
<1>2. /\ \A d \in Callers : pc'[d] = IF d = c THEN "idle" ELSE pc[d]
      /\ \A d \in Callers : Current(d)' = Current(d)
      /\ \A j \in Job : result'[j] = IF j = Current(c) THEN NoPoint ELSE result[j]
  BY <1>ty, <1>1 DEF TypeOK, Current
<1>3. \A j \in Job : Waiting(j)' <=> Waiting(j) /\ j # Current(c)
  <2> TAKE j \in Job
  <2>1. j[1] \in Callers
    BY DEF Job
  <2> QED BY <1>1, <1>2, <2>1 DEF Waiting
<1>4. CASE done
  BY <1>1, <1>4 DEF QueueInv
<1>5. CASE ~done
  <2>1. \A i \in 1..Len(Pending) :
            /\ Pending[i] \in Job /\ Waiting(Pending[i]) /\ result[Pending[i]] = NoPoint
            /\ Pending[i] # Current(c)
    BY <1>ty, <1>1, <1>5, ElementOfSeq DEF QueueInv
  <2>2. \A i \in 1..Len(Pending) : Waiting(Pending[i])' /\ result'[Pending[i]] = NoPoint
    <3> TAKE i \in 1..Len(Pending)
    <3>1. Pending'[i] = Pending[i] /\ Pending[i] \in Job /\ Pending[i] # Current(c)
      BY <1>1, <2>1
    <3> QED BY <1>2, <1>3, <2>1, <3>1 DEF Waiting
  <2>3. \A d \in Callers : pc'[d] = "wait" /\ result'[Current(d)'] = NoPoint =>
            \E i \in 1..Len(Pending) : Pending[i] = Current(d)'
    <3> SUFFICES ASSUME NEW d \in Callers, pc'[d] = "wait", result'[Current(d)'] = NoPoint
                 PROVE  \E i \in 1..Len(Pending) : Pending[i] = Current(d)
      BY <1>2
    <3>1. d # c /\ pc[d] = "wait"
      BY <1>2
    <3>2. Current(d) # Current(c) /\ Current(d) \in Job
      BY <3>1 DEF Current, IInv, CallInv, Job
    <3> QED BY <1>2, <1>5, <3>1, <3>2 DEF QueueInv
  <2>4. \A j \in Job : result'[j] # NoPoint => Waiting(j)'
    BY <1>2, <1>3, <1>5 DEF QueueInv
  <2> QED BY <1>1, <1>5, <2>2, <2>3, <2>4 DEF QueueInv
<1> QED BY <1>4, <1>5

\* start, Open, run, stop and Close keep every accepted job in its one place.
LEMMA QueueNext == IInv /\ BatchInv /\ QueueInv /\ [Next]_vars => BatchInv' /\ QueueInv'
<1> SUFFICES ASSUME IInv, BatchInv, QueueInv, [Next]_vars PROVE BatchInv' /\ QueueInv'
  OBVIOUS
<1>ty. TypeOK /\ TypeOK' /\ Pending \in Seq(Job)
  BY NextInv, PendingAt DEF IInv, PendingShape
<1>keep. UNCHANGED <<jobs, batch, next>> => Pending' = Pending /\ BatchInv'
  BY DEF Pending, BatchInv
<1>1. CASE StartStep
  BY <1>1, <1>keep, QueueFrame DEF StartStep, StartReads, StartRefuses, stopVars, queueVars,
     workerVars, callVars
<1>2. CASE WorkerTakesFirst \/ WorkerCollects \/ WorkerFills
  <2>1. TakeJob /\ next' = next /\ UNCHANGED <<result, pc, calls, done>>
    BY <1>2 DEF WorkerTakesFirst, WorkerCollects, WorkerFills, stopVars, callVars
  <2>2. BatchInv' /\ Pending' = Pending
    BY <1>ty, <2>1, TakeKeepsPending
  <2> QED BY <2>1, <2>2, QueueFrame
<1>3. CASE WorkerDelivers
  BY <1>ty, <1>3, QueueDeliver
<1>4. CASE WorkerLoops
  <2>1. BatchInv' /\ Pending' = Pending
    BY <1>ty, <1>4, LoopKeepsPending
  <2> QED BY <1>4, <2>1, QueueFrame DEF WorkerLoops, queueVars, stopVars, callVars
<1>5. CASE \/ FactorySucceeds \/ FactoryFails \/ WorkerStopsCollecting
           \/ WorkerStopsFilling \/ WorkerSeesDone \/ WorkerOpens \/ DeviceAnswers
           \/ DeviceFails \/ WorkerStopped \/ WorkerExits
           \/ \E e \in {"none", "failed"} : WorkerReleases(e)
  <2>1. UNCHANGED <<jobs, batch, next, result, pc, calls, done>>
    BY <1>5 DEF FactorySucceeds, FactoryFails, WorkerStopsCollecting, WorkerStopsFilling,
       WorkerSeesDone, WorkerOpens, DeviceAnswers, DeviceFails, WorkerStopped,
       WorkerExits, WorkerReleases, stopVars, queueVars, callVars
  <2> QED BY <1>keep, <2>1, QueueFrame
<1>6. ASSUME NEW c \in Callers, OpenInvalid(c) \/ OpenBegins(c)
      PROVE  BatchInv' /\ QueueInv'
  <2>1. /\ pc[c] = "idle" /\ calls' = [calls EXCEPT ![c] = @ + 1]
        /\ pc' = [pc EXCEPT ![c] = "lock"] \/ pc' = pc
        /\ UNCHANGED <<jobs, batch, next, result, done>>
    BY <1>6 DEF OpenInvalid, OpenBegins, stopVars, queueVars, workerVars
  <2>2. \A d \in Callers : d # c => calls'[d] = calls[d]
    BY <1>ty, <2>1 DEF TypeOK
  <2>3. Pending' = Pending /\ BatchInv'
    BY <2>1, <1>keep
  <2>4. CASE pc' = pc
    BY <1>ty, <2>1, <2>2, <2>3, <2>4, QueueCallFrame
  <2>5. CASE pc' = [pc EXCEPT ![c] = "lock"]
    BY <1>ty, <2>1, <2>2, <2>3, <2>5, QueueCallFrame
  <2> QED BY <2>1, <2>4, <2>5
<1>7. ASSUME NEW c \in Callers, CallStep(c) PROVE BatchInv' /\ QueueInv'
  <2>0. UNCHANGED <<batch, next, done>>
    BY <1>7, CallFrame DEF stopVars, workerVars
  <2>1. CASE OpenAccepted(c)
    BY <2>1, QueueAccept
  <2>2. CASE OpenAnswered(c)
    <3>1. BatchInv'
      BY <2>0, <2>2 DEF OpenAnswered, BatchInv
    <3> QED BY <2>2, <3>1, QueueAnswer
  <2>3. CASE OpenSignalled(c) \/ OpenRereads(c)
    <3>1. done /\ UNCHANGED <<jobs, batch, next, done>>
      BY <2>0, <2>3 DEF OpenSignalled, OpenRereads, IInv, StopInv, queueVars
    <3> QED BY <1>keep, <3>1 DEF QueueInv
  <2>4. CASE OpenLocks(c) \/ OpenFindsStopped(c) \/ OpenFindsRunning(c) \/ OpenBusy(c)
    <3>1. /\ pc[c] # "wait" /\ UNCHANGED <<jobs, result, calls>>
          /\ \E s \in {"check", "send", "idle"} : pc' = [pc EXCEPT ![c] = s]
      BY <2>4 DEF OpenLocks, OpenFindsStopped, OpenFindsRunning, OpenBusy, Return, queueVars
    <3>2. Pending' = Pending /\ BatchInv'
      BY <1>keep, <2>0, <3>1
    <3>3. PICK s \in {"check", "send", "idle"} : pc' = [pc EXCEPT ![c] = s]
      BY <3>1
    <3> QED BY <1>ty, <2>0, <3>1, <3>2, <3>3, QueueCallFrame
  <2> QED BY <1>7, <2>1, <2>2, <2>3, <2>4 DEF CallStep
<1>8. ASSUME NEW p \in Stoppers, StopStep(p) PROVE BatchInv' /\ QueueInv'
  <2>1. UNCHANGED <<jobs, result, batch, next, pc, calls>>
    BY <1>8, StopFrame DEF queueVars, workerVars, callVars
  <2>2. done => done'
    BY <1>8 DEF StopStep, StopFirst, StopAgain, StopLocks, StopSets, StopSignals
  <2> QED BY <1>keep, <2>1, <2>2, QueueFrame
<1>9. ASSUME NEW k \in Closers, CloseBegins(k) \/ CloseReturns(k)
      PROVE  BatchInv' /\ QueueInv'
  BY <1>9, <1>keep, CloseFrame, QueueFrame DEF queueVars, workerVars, callVars
<1>10. CASE UNCHANGED vars
  BY <1>10, <1>keep, QueueFrame DEF vars, stopVars, queueVars, workerVars, callVars
<1> QED
  BY <1>1, <1>2, <1>3, <1>4, <1>5, <1>6, <1>7, <1>8, <1>9, <1>10
  DEF Next, WorkerStep, Finished

-----------------------------------------------------------------------------
(* A call returns once.                                                     *)

\* A call has returned nothing until the step that returns it (Open).
LEMMA RunningNext == IInv /\ RunningInv /\ [Next]_vars => RunningInv'
<1> SUFFICES ASSUME IInv, RunningInv, [Next]_vars PROVE RunningInv'
  OBVIOUS
<1>ty. /\ pc \in [Callers -> {"idle", "lock", "check", "send", "wait", "reread"}]
       /\ calls \in [Callers -> 0..MaxCalls] /\ returned \in [Job -> Returns]
  BY DEF IInv, TypeOK
<1>job. \A j \in Job : j[1] \in Callers /\ j[2] \in 1..MaxCalls /\ j = <<j[1], j[2]>>
  BY DEF Job
<1>max. MaxCalls \in Nat
  BY BoundsAssumption
<1>cur. \A c \in Callers : pc[c] # "idle" => Current(c) \in Job
  BY DEF IInv, CallInv, Current, Job
<1>same. UNCHANGED callVars => RunningInv'
  BY DEF callVars, RunningInv, Current
<1>1. CASE StartStep \/ WorkerStep
  BY <1>1, <1>same, WorkerFrame
<1>2. ASSUME NEW c \in Callers, OpenInvalid(c) \/ OpenBegins(c) PROVE RunningInv'
  <2> DEFINE j == <<c, calls[c] + 1>>
  <2>1. /\ pc[c] = "idle" /\ calls' = [calls EXCEPT ![c] = @ + 1]
        /\ j \in Job /\ j[2] > calls[j[1]]
    BY <1>2, <1>ty, <1>max DEF OpenInvalid, OpenBegins, Job
  <2>2. returned[j] = Running
    BY <2>1 DEF RunningInv
  <2>3. \A d \in Callers : calls'[d] = IF d = c THEN calls[c] + 1 ELSE calls[d]
    BY <1>ty, <2>1
  <2>4. CASE OpenInvalid(c)
    <3>1. returned' = [returned EXCEPT ![j] = Failure("invalid")] /\ pc' = pc
      BY <2>4 DEF OpenInvalid
    <3>2. \A d \in Callers : pc'[d] # "idle" => returned'[Current(d)'] = Running
      BY <1>ty, <1>cur, <2>1, <2>3, <3>1 DEF RunningInv, Current
    <3>3. \A i \in Job : i[2] > calls'[i[1]] => returned'[i] = Running
      BY <1>ty, <1>job, <1>max, <2>3, <3>1 DEF RunningInv
    <3> QED BY <3>2, <3>3 DEF RunningInv
  <2>5. CASE OpenBegins(c)
    <3>1. returned' = returned /\ pc' = [pc EXCEPT ![c] = "lock"]
      BY <2>5 DEF OpenBegins
    <3>2. \A d \in Callers : pc'[d] # "idle" => returned'[Current(d)'] = Running
      BY <1>ty, <2>2, <2>3, <3>1 DEF RunningInv, Current
    <3>3. \A i \in Job : i[2] > calls'[i[1]] => returned'[i] = Running
      BY <1>ty, <1>job, <1>max, <2>3, <3>1 DEF RunningInv
    <3> QED BY <3>2, <3>3 DEF RunningInv
  <2> QED BY <1>2, <2>4, <2>5
<1>3. ASSUME NEW c \in Callers, CallStep(c) PROVE RunningInv'
  <2>1. pc[c] # "idle" /\ calls' = calls
    BY <1>3 DEF CallStep, OpenLocks, OpenFindsStopped, OpenFindsRunning, OpenAccepted,
       OpenBusy, OpenAnswered, OpenSignalled, OpenRereads
  <2>2. \/ returned' = returned /\ \E s : pc' = [pc EXCEPT ![c] = s]
        \/ \E r : returned' = [returned EXCEPT ![Current(c)] = r]
                  /\ pc' = [pc EXCEPT ![c] = "idle"]
    BY <1>3 DEF CallStep, OpenLocks, OpenFindsStopped, OpenFindsRunning, OpenAccepted,
       OpenBusy, OpenAnswered, OpenSignalled, OpenRereads, Return
  <2>3. \A d \in Callers : d # c => Current(d) # Current(c)
    BY DEF Current
  <2>4. ~(Current(c)[2] > calls[Current(c)[1]])
    BY <1>ty, <1>max DEF Current
  <2>5. CASE returned' = returned /\ \E s : pc' = [pc EXCEPT ![c] = s]
    BY <1>ty, <2>1, <2>5 DEF RunningInv, Current
  <2>6. CASE \E r : returned' = [returned EXCEPT ![Current(c)] = r]
                    /\ pc' = [pc EXCEPT ![c] = "idle"]
    <3>1. \A d \in Callers : pc'[d] # "idle" => returned'[Current(d)'] = Running
      BY <1>ty, <1>cur, <2>1, <2>3, <2>6 DEF RunningInv, Current
    <3>2. \A i \in Job : i[2] > calls'[i[1]] => returned'[i] = Running
      BY <1>ty, <2>1, <2>4, <2>6 DEF RunningInv
    <3> QED BY <3>1, <3>2 DEF RunningInv
  <2> QED BY <2>2, <2>5, <2>6
<1>4. ASSUME NEW p \in Stoppers, StopStep(p) PROVE RunningInv'
  BY <1>4, <1>same, StopFrame
<1>5. ASSUME NEW k \in Closers, CloseBegins(k) \/ CloseReturns(k) PROVE RunningInv'
  BY <1>5, <1>same, CloseFrame
<1>6. CASE UNCHANGED vars
  BY <1>6, <1>same DEF vars
<1> QED BY <1>1, <1>2, <1>3, <1>4, <1>5, <1>6 DEF Next, Finished

-----------------------------------------------------------------------------
\* A new computer has no batch, no job and no call.
LEMMA InitQueue == Init => QInv
<1> SUFFICES ASSUME Init PROVE QInv
  OBVIOUS
<1>1. IInv
  BY InitInv
<1>2. batch = <<>> /\ jobs = <<>> /\ next = 1 /\ Len(batch) = 0
  BY DEF Init
<1>3. Pending = <<>> \o <<>>
  BY <1>2, SubSeqEmpty DEF Pending
<1>4. Pending = <<>> /\ Len(Pending) = 0
  BY <1>3
<1>5. BatchInv
  BY <1>2 DEF BatchInv
<1>6. QueueInv
  BY <1>4 DEF Init, QueueInv
<1>7. RunningInv
  BY DEF Init, RunningInv, Current, Job
<1> QED BY <1>1, <1>5, <1>6, <1>7 DEF QInv

\* All reachable states of the computer satisfy the stronger invariant.
THEOREM QueueInvariance == Spec => []QInv
<1>1. Init => QInv
  BY InitQueue
<1>2. QInv /\ [Next]_vars => QInv'
  BY NextInv, QueueNext, RunningNext DEF QInv
<1> QED BY <1>1, <1>2, PTL DEF Spec

\* Until the computer is stopped an accepted job is in exactly one place (Open, run).
THEOREM NoJobIsLost == Spec => []NoLostJob
<1>1. QInv => NoLostJob
  <2> SUFFICES ASSUME QInv, ~done, NEW c \in Callers, pc[c] = "wait"
               PROVE  LET waiting  == Occurrences(Pending, Current(c))
                          answered == result[Current(c)] # NoPoint
                      IN  /\ answered => waiting = {}
                          /\ ~answered => \E i \in waiting : waiting = {i}
    BY DEF NoLostJob
  <2>1. CASE result[Current(c)] # NoPoint
    BY <2>1 DEF QInv, QueueInv, Occurrences
  <2>2. CASE result[Current(c)] = NoPoint
    <3>1. PICK i \in 1..Len(Pending) : Pending[i] = Current(c)
      BY <2>2 DEF QInv, QueueInv
    <3>2. \A k \in 1..Len(Pending) : Pending[k] = Current(c) => k = i
      BY <3>1 DEF QInv, QueueInv
    <3>3. Occurrences(Pending, Current(c)) = {i}
      BY <3>1, <3>2 DEF Occurrences
    <3> QED BY <2>2, <3>3
  <2> QED BY <2>1, <2>2
<1> QED BY <1>1, QueueInvariance, PTL

-----------------------------------------------------------------------------
(* The computer implements its service.                                     *)

Begun == {j \in Job : j[2] <= calls[j[1]]}
Outstanding == {j \in Job : j = Current(j[1]) /\ Accepted(j[1])}

\* When the channel is full, as many calls wait for it (Open: the default case).
LEMMA FullChannel ==
  ASSUME QInv, ~done, Len(jobs) >= MaxPending
  PROVE  \E full \in SUBSET Outstanding : Cardinality(full) = MaxPending
<1> DEFINE full == {jobs[i] : i \in 1..MaxPending}
           f == [i \in 1..MaxPending |-> jobs[i]]
<1>1. /\ MaxPending \in Nat /\ jobs \in Seq(Job) /\ Len(jobs) \in Nat
      /\ \A i \in 1..MaxPending : i \in 1..Len(jobs) /\ i \in Nat
  BY BoundsAssumption DEF QInv, IInv, TypeOK
<1>2. PICK r \in Nat : /\ Len(Pending) = r + Len(jobs)
                       /\ \A i \in 1..Len(jobs) : i + r \in 1..Len(Pending)
                       /\ \A i \in 1..Len(jobs) : Pending[i + r] = jobs[i]
  <2> DEFINE r == Len(batch) - next + 1
  <2>1. /\ r \in Nat
        /\ Len(Pending) = r + Len(jobs)
        /\ \A i \in 1..Len(Pending) :
              Pending[i] = IF i <= r THEN batch[next + i - 1] ELSE jobs[i - r]
    BY PendingAt DEF QInv, IInv, PendingShape
  <2> HIDE DEF r
  <2>2. \A i \in 1..Len(jobs) : i + r \in 1..Len(Pending) /\ ~(i + r <= r) /\ (i + r) - r = i
    BY <1>1, <2>1
  <2>3. \A i \in 1..Len(jobs) : Pending[i + r] = jobs[i]
    BY <2>1, <2>2
  <2> QED BY <2>1, <2>2, <2>3
<1>3. \A i \in 1..MaxPending : jobs[i] \in Job /\ Waiting(jobs[i])
  BY <1>1, <1>2, ElementOfSeq DEF QInv, QueueInv
<1>4. \A i, k \in 1..MaxPending : jobs[i] = jobs[k] => i = k
  <2> TAKE i, k \in 1..MaxPending
  <2>1. jobs[i] = jobs[k] => i + r = k + r
    BY <1>1, <1>2 DEF QInv, QueueInv
  <2> QED BY <1>1, <1>2, <2>1
<1>5. full \subseteq Outstanding
  BY <1>3 DEF Outstanding, Waiting, Accepted
<1>6. f \in Bijection(1..MaxPending, full)
  BY <1>4 DEF Bijection, Injection, Surjection, IsInjective
<1>7. Cardinality(full) = MaxPending
  <2>1. ExistsBijection(1..MaxPending, full)
    BY <1>6 DEF ExistsBijection
  <2> QED BY <1>1, <2>1, FS_CountingElements
<1> QED BY <1>5, <1>7

\* Only Open changes which calls have begun and which are outstanding.
LEMMA ServiceFrame ==
  ASSUME TypeOK, UNCHANGED calls,
         \A c \in Callers : Accepted(c)' <=> Accepted(c)
  PROVE  Begun' = Begun /\ Outstanding' = Outstanding
BY DEF Begun, Outstanding, Accepted, Current, Job

\* The beginning of a call, valid or not (Open).
LEMMA BeginMaps ==
  ASSUME QInv, NEW c \in Callers, OpenInvalid(c) \/ OpenBegins(c)
  PROVE  \E j \in Job :
            /\ j \notin Begun /\ Begun' = Begun \cup {j}
            /\ Outstanding' = Outstanding /\ err' = err
            /\ \/ returned' = returned
               \/ returned' = [returned EXCEPT ![j] = Failure("invalid")]
<1> DEFINE j == <<c, calls[c] + 1>>
<1>ty. /\ pc \in [Callers -> {"idle", "lock", "check", "send", "wait", "reread"}]
       /\ calls \in [Callers -> 0..MaxCalls] /\ MaxCalls \in Nat
  BY BoundsAssumption DEF QInv, IInv, TypeOK
<1>1. /\ pc[c] = "idle" /\ calls[c] < MaxCalls /\ calls' = [calls EXCEPT ![c] = @ + 1]
      /\ pc' = pc \/ pc' = [pc EXCEPT ![c] = "lock"]
      /\ err' = err
      /\ \/ returned' = returned
         \/ returned' = [returned EXCEPT ![j] = Failure("invalid")]
  BY DEF OpenInvalid, OpenBegins, stopVars
<1>2. j \in Job /\ j \notin Begun
  BY <1>ty, <1>1 DEF Job, Begun
<1>3. \A d \in Callers : calls'[d] = IF d = c THEN calls[c] + 1 ELSE calls[d]
  BY <1>ty, <1>1
<1>4. Begun' = Begun \cup {j}
  <2>1. \A i \in Job : i[2] <= calls'[i[1]] <=> i[2] <= calls[i[1]] \/ i = j
    BY <1>ty, <1>3 DEF Job
  <2> QED BY <1>2, <2>1 DEF Begun
<1>5. Outstanding' = Outstanding
  <2>1. \A d \in Callers : Accepted(d)' <=> Accepted(d)
    BY <1>ty, <1>1 DEF Accepted
  <2>2. ~Accepted(c)
    BY <1>1 DEF Accepted
  <2>3. \A i \in Job : (i = Current(i[1]) /\ Accepted(i[1]))' <=>
                       (i = Current(i[1]) /\ Accepted(i[1]))
    BY <2>1, <2>2, <1>3 DEF Current, Job
  <2> QED BY <2>3 DEF Outstanding
<1> QED BY <1>1, <1>2, <1>4, <1>5

\* The steps of a call in progress (Open): it is fresh until it is accepted,
\* outstanding until it returns.
LEMMA CallMaps ==
  ASSUME QInv, NEW c \in Callers, CallStep(c)
  PROVE  LET j == Current(c)
             fresh == j \in Begun \ Outstanding /\ returned[j].err = "running"
         IN  /\ j \in Job /\ Begun' = Begun /\ err' = err
             /\ \/ UNCHANGED <<Outstanding, returned>>
                \/ /\ fresh /\ err = "none"
                   /\ Outstanding' = Outstanding \cup {j} /\ returned' = returned
                \/ /\ fresh /\ err = "none" /\ Outstanding' = Outstanding
                   /\ \E full \in SUBSET Outstanding : Cardinality(full) = MaxPending
                   /\ returned' = [returned EXCEPT ![j] = Failure("busy")]
                \/ /\ j \in Outstanding /\ Outstanding' = Outstanding \ {j}
                   /\ returned' = [returned EXCEPT ![j] = Success(j)]
                \/ /\ fresh \/ j \in Outstanding
                   /\ err # "none" /\ Outstanding' = Outstanding \ {j}
                   /\ returned' = [returned EXCEPT ![j] = Failure(err)]
<1> DEFINE j == Current(c)
<1>ty. /\ TypeOK
       /\ pc \in [Callers -> {"idle", "lock", "check", "send", "wait", "reread"}]
       /\ calls \in [Callers -> 0..MaxCalls] /\ MaxCalls \in Nat
  BY BoundsAssumption DEF QInv, IInv, TypeOK
<1>1. pc[c] # "idle" /\ calls' = calls /\ UNCHANGED <<err, done>>
  <2>1. pc[c] # "idle" /\ calls' = calls
    BY DEF CallStep, OpenLocks, OpenFindsStopped, OpenFindsRunning, OpenAccepted,
       OpenBusy, OpenAnswered, OpenSignalled, OpenRereads
  <2> QED BY <2>1, CallFrame DEF stopVars
<1>2. /\ j \in Job /\ j \in Begun /\ returned[j].err = "running"
      /\ j[1] = c /\ \A d \in Callers : Current(d) = j => d = c
  BY <1>ty, <1>1 DEF QInv, IInv, CallInv, RunningInv, Running, Current, Job, Begun
<1>3. Begun' = Begun /\ \A d \in Callers : Current(d)' = Current(d)
  BY <1>1 DEF Begun, Current
<1>4. j \in Outstanding <=> pc[c] \in {"wait", "reread"}
  BY <1>2 DEF Outstanding, Accepted
<1>5. \A s \in {"check", "send", "wait", "reread", "idle"} :
         pc' = [pc EXCEPT ![c] = s] =>
            Outstanding' = IF s \in {"wait", "reread"} THEN Outstanding \cup {j}
                           ELSE Outstanding \ {j}
  <2> TAKE s \in {"check", "send", "wait", "reread", "idle"}
  <2> HAVE pc' = [pc EXCEPT ![c] = s]
  <2>1. \A d \in Callers : pc'[d] = IF d = c THEN s ELSE pc[d]
    BY <1>ty
  <2>2. \A i \in Job : i[1] \in Callers
    BY DEF Job
  <2> QED BY <1>2, <1>3, <2>1, <2>2 DEF Outstanding, Accepted
<1>6. CASE OpenLocks(c) \/ OpenFindsRunning(c)
  <2>1. UNCHANGED <<Outstanding, returned>>
    BY <1>4, <1>5, <1>6 DEF OpenLocks, OpenFindsRunning
  <2> QED BY <1>1, <1>2, <1>3, <2>1
<1>7. CASE OpenSignalled(c)
  <2>1. UNCHANGED <<Outstanding, returned>>
    BY <1>4, <1>5, <1>7 DEF OpenSignalled
  <2> QED BY <1>1, <1>2, <1>3, <2>1
<1>8. CASE OpenAccepted(c)
  <2>1. pc[c] = "send" /\ pc' = [pc EXCEPT ![c] = "wait"] /\ returned' = returned
    BY <1>8 DEF OpenAccepted
  <2>2. err = "none"
    BY <2>1 DEF QInv, IInv, StopInv
  <2> QED BY <1>1, <1>2, <1>3, <1>4, <1>5, <2>1, <2>2
<1>9. CASE OpenBusy(c)
  <2>1. /\ pc[c] = "send" /\ pc' = [pc EXCEPT ![c] = "idle"] /\ Len(jobs) >= MaxPending
        /\ returned' = [returned EXCEPT ![j] = Failure("busy")]
    BY <1>9 DEF OpenBusy, Return
  <2>2. err = "none" /\ ~done
    BY <2>1 DEF QInv, IInv, StopInv
  <2>3. Outstanding' = Outstanding
    BY <1>4, <1>5, <2>1
  <2>4. \E full \in SUBSET Outstanding : Cardinality(full) = MaxPending
    BY <2>1, <2>2, FullChannel
  <2> QED BY <1>1, <1>2, <1>3, <1>4, <2>1, <2>2, <2>3, <2>4
<1>10. CASE OpenAnswered(c)
  <2>1. /\ pc[c] = "wait" /\ result[j] # NoPoint /\ pc' = [pc EXCEPT ![c] = "idle"]
        /\ returned' = [returned EXCEPT ![j] = Success(result[j])]
    BY <1>10 DEF OpenAnswered, Return
  <2>2. result[j] = j
    BY <1>2, <2>1 DEF QInv, IInv, AnswersMatch
  <2> QED BY <1>1, <1>2, <1>3, <1>4, <1>5, <2>1, <2>2
<1>11. CASE OpenFindsStopped(c) \/ OpenRereads(c)
  <2>1. /\ pc' = [pc EXCEPT ![c] = "idle"]
        /\ returned' = [returned EXCEPT ![j] = Failure(err)]
    BY <1>11 DEF OpenFindsStopped, OpenRereads, Return
  <2>2. err # "none"
    BY <1>11 DEF OpenFindsStopped, OpenRereads, QInv, IInv, StopInv
  <2> QED BY <1>1, <1>2, <1>3, <1>5, <2>1, <2>2
<1> QED BY <1>6, <1>7, <1>8, <1>9, <1>10, <1>11 DEF CallStep

\* Every step of the goroutines is a step of the service or none.
LEMMA ServiceNext == QInv /\ [Next]_vars => [Service!Next]_(Service!vars)
<1> SUFFICES ASSUME QInv, [Next]_vars PROVE [Service!Next]_(Service!vars)
  OBVIOUS
<1>ty. TypeOK
  BY DEF QInv, IInv
<1>same. UNCHANGED <<err, callVars>> => UNCHANGED Service!vars
  BY DEF Service!vars, callVars, Current, Accepted
<1>1. CASE StartStep \/ WorkerStep
  BY <1>1, <1>same, WorkerFrame
<1>2. ASSUME NEW c \in Callers, OpenInvalid(c) \/ OpenBegins(c)
      PROVE  Service!Next
  <2>1. PICK j \in Job :
            /\ j \notin Begun /\ Begun' = Begun \cup {j}
            /\ Outstanding' = Outstanding /\ err' = err
            /\ \/ returned' = returned
               \/ returned' = [returned EXCEPT ![j] = Failure("invalid")]
    BY <1>2, BeginMaps
  <2>2. Service!Begin(j) \/ Service!BeginInvalid(j)
    BY <2>1 DEF Service!Begin, Service!BeginInvalid, Service!Outcome, Failure, Begun, Outstanding
  <2> QED BY <2>2 DEF Service!Next
<1>3. ASSUME NEW c \in Callers, CallStep(c) PROVE [Service!Next]_(Service!vars)
  <2>j. PICK j \in Job : j = Current(c)
    BY <1>3, CallMaps
  <2> DEFINE fresh == j \in Begun \ Outstanding /\ returned[j].err = "running"
  <2>0. j \in Job /\ Begun' = Begun /\ err' = err
    BY <1>3, CallMaps
  <2>f. fresh <=> Service!Fresh(j)
    BY DEF Service!Fresh, Begun, Outstanding
  <2>c. \/ UNCHANGED <<Outstanding, returned>>
        \/ /\ fresh /\ err = "none"
           /\ Outstanding' = Outstanding \cup {j} /\ returned' = returned
        \/ /\ fresh /\ err = "none" /\ Outstanding' = Outstanding
           /\ \E full \in SUBSET Outstanding : Cardinality(full) = MaxPending
           /\ returned' = [returned EXCEPT ![j] = Failure("busy")]
        \/ /\ j \in Outstanding /\ Outstanding' = Outstanding \ {j}
           /\ returned' = [returned EXCEPT ![j] = Success(j)]
        \/ /\ fresh \/ j \in Outstanding
           /\ err # "none" /\ Outstanding' = Outstanding \ {j}
           /\ returned' = [returned EXCEPT ![j] = Failure(err)]
    BY <1>3, <2>j, CallMaps
  <2> HIDE DEF fresh
  <2>1. CASE UNCHANGED <<Outstanding, returned>>
    <3>1. UNCHANGED Service!vars
      BY <2>0, <2>1 DEF Service!vars, Begun, Outstanding
    <3> QED BY <3>1
  <2>2. CASE /\ fresh /\ err = "none"
             /\ Outstanding' = Outstanding \cup {j} /\ returned' = returned
    <3>1. Service!Accept(j)
      BY <2>0, <2>f, <2>2 DEF Service!Accept, Begun, Outstanding
    <3> QED BY <2>0, <3>1 DEF Service!Next
  <2>3. CASE /\ fresh /\ err = "none" /\ Outstanding' = Outstanding
             /\ \E full \in SUBSET Outstanding : Cardinality(full) = MaxPending
             /\ returned' = [returned EXCEPT ![j] = Failure("busy")]
    <3>1. Service!TurnAway(j)
      <4>1. Service!Fresh(j) /\ err = "none"
        BY <2>f, <2>3
      <4>2. UNCHANGED <<err, Begun, Outstanding>>
        BY <2>0, <2>3
      <4>3. returned' = [returned EXCEPT ![j] = Service!Outcome(NoPoint, "busy")]
        BY <2>3 DEF Service!Outcome, Failure
      <4>4. \E full \in SUBSET Outstanding : Cardinality(full) = MaxPending
        BY <2>3
      <4> QED BY <4>1, <4>2, <4>3, <4>4 DEF Service!TurnAway, Service!Cardinality,
                 Cardinality, Begun, Outstanding
    <3> QED BY <2>0, <3>1 DEF Service!Next
  <2>4. CASE /\ j \in Outstanding /\ Outstanding' = Outstanding \ {j}
             /\ returned' = [returned EXCEPT ![j] = Success(j)]
    <3>1. Service!Answer(j)
      BY <2>0, <2>4 DEF Service!Answer, Service!Outcome, Success, Begun, Outstanding
    <3> QED BY <2>0, <3>1 DEF Service!Next
  <2>5. CASE /\ fresh \/ j \in Outstanding
             /\ err # "none" /\ Outstanding' = Outstanding \ {j}
             /\ returned' = [returned EXCEPT ![j] = Failure(err)]
    <3>1. Service!Fail(j)
      BY <2>0, <2>f, <2>5 DEF Service!Fail, Service!Outcome, Failure, Begun, Outstanding
    <3> QED BY <2>0, <3>1 DEF Service!Next
  <2> QED BY <2>c, <2>1, <2>2, <2>3, <2>4, <2>5
<1>4. ASSUME NEW p \in Stoppers, StopStep(p) PROVE [Service!Next]_(Service!vars)
  <2>1. UNCHANGED callVars
    BY <1>4, StopFrame
  <2>2. CASE StopSets(p)
    <3>1. err = "none" /\ err' \in {"closed", "device"}
      BY <2>2 DEF StopSets, Reason, QInv, IInv, StopInv
    <3>2. Begun' = Begun /\ Outstanding' = Outstanding /\ returned' = returned
      BY <2>1 DEF callVars, Begun, Outstanding, Current, Accepted
    <3>3. Service!GoDown(err')
      BY <3>1, <3>2 DEF Service!GoDown, Begun, Outstanding
    <3> QED BY <3>1, <3>3 DEF Service!Next
  <2>3. CASE StopFirst(p) \/ StopAgain(p) \/ StopLocks(p) \/ StopSignals(p)
    BY <1>same, <2>1, <2>3 DEF StopFirst, StopAgain, StopLocks, StopSignals
  <2> QED BY <1>4, <2>2, <2>3 DEF StopStep
<1>5. ASSUME NEW k \in Closers, CloseBegins(k) \/ CloseReturns(k)
      PROVE  UNCHANGED Service!vars
  BY <1>5, <1>same, CloseFrame
<1>6. CASE UNCHANGED vars
  BY <1>6, <1>same DEF vars, stopVars
<1> QED BY <1>1, <1>2, <1>3, <1>4, <1>5, <1>6 DEF Next, Finished

\* The computer implements the service: each call returns once, with its own
\* point, or is turned away only when the service is full, or fails with the one
\* reason the service went down for (Open, run, stop).
THEOREM ImplementsService == Spec => ServiceSpec
<1>1. Init => Service!Init
  <2> SUFFICES ASSUME Init PROVE Service!Init
    OBVIOUS
  <2>1. Begun = {} /\ Outstanding = {}
    BY DEF Init, Begun, Outstanding, Accepted, Job
  <2> QED BY <2>1 DEF Init, Service!Init, Service!Outcome, Running, Begun, Outstanding
<1>2. QInv /\ [Next]_vars => [Service!Next]_(Service!vars)
  BY ServiceNext
<1> QED BY <1>1, <1>2, QueueInvariance, PTL DEF Spec, ServiceSpec, Service!Spec

=============================================================================
