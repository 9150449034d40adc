------------------------------ MODULE Scheduler ------------------------------
(***************************************************************************)
(* BoundedScheduler (autonomy/scheduler.py): scheduler instances that run  *)
(* cycles over the jobs of one store.  A cycle takes the first eligible    *)
(* jobs, acquires a lease on each, dispatches it and records how that      *)
(* went.  The lease and the backoff of a job are operation results of the  *)
(* store, under one identifier per job, so each is written once.           *)
(*                                                                         *)
(* A mutating store call is two steps, as in JobStore: it reads the        *)
(* document, and later replaces it by its changed copy.  A halted cycle    *)
(* (disabled mode, emergency stop) changes nothing and is not modelled.    *)
(***************************************************************************)
EXTENDS Integers, FiniteSets

CONSTANTS
  Schedulers,      \* scheduler instances
  Jobs,
  Created,         \* creation times, which give the order of list_jobs
  LeaseIds,        \* what uuid4 draws from
  LeaseSeconds, BackoffSeconds,
  Limit,           \* min(max_concurrent_jobs, max_dispatches_per_cycle)
  Serial,          \* TRUE: store calls of different instances do not overlap
  MaxCrashes,      \* bound on crashes
  MaxClock,        \* bound on the clock
  None

ASSUME SchedulerAssumption ==
  /\ IsFiniteSet(Jobs)
  /\ Created \in [Jobs -> Nat]
  /\ \A j, k \in Jobs : j # k => Created[j] # Created[k]
  /\ LeaseSeconds \in Nat \ {0} /\ BackoffSeconds \in Nat
  /\ Limit \in Nat \ {0}
  /\ Serial \in BOOLEAN
  /\ MaxCrashes \in Nat /\ MaxClock \in Nat
  /\ None \notin [id : LeaseIds, expires : Nat] \cup Nat \cup Jobs \cup LeaseIds

VARIABLES
  clock,
  live,      \* the jobs in no terminal state
  file,      \* the leases and backoffs on disk
  sched,     \* the cycle each instance is running
  begun,     \* history: dispatches begun of each job, counted to 2
  crashes

vars == <<clock, live, file, sched, begun, crashes>>

Lease == [id : LeaseIds, expires : Nat]

Document == [lease : [Jobs -> Lease \cup {None}], backoff : [Jobs -> Nat \cup {None}]]

InCall == {"save-lease", "save-backoff", "save-cycle"}

Points == {"idle", "next", "lease", "confirm", "dispatch", "backoff", "cycle"} \cup InCall

\* job: the job in hand; todo: the jobs of the cycle after it.
Cycle == [at : Points, todo : SUBSET Jobs, job : Jobs \cup {None}, now : Nat,
          id : LeaseIds \cup {None}, snapshot : Document]

Empty == [lease |-> [j \in Jobs |-> None], backoff |-> [j \in Jobs |-> None]]

Idle == [at |-> "idle", todo |-> {}, job |-> None, now |-> 0, id |-> None,
         snapshot |-> Empty]

TypeOK ==
  /\ clock \in 0 .. MaxClock
  /\ live \subseteq Jobs
  /\ file \in Document
  /\ sched \in [Schedulers -> Cycle]
  /\ begun \in [Jobs -> 0 .. 2]
  /\ crashes \in 0 .. MaxCrashes

Init ==
  /\ clock = 0
  /\ live = Jobs
  /\ file = Empty
  /\ sched = [s \in Schedulers |-> Idle]
  /\ begun = [j \in Jobs |-> 0]
  /\ crashes = 0

-----------------------------------------------------------------------------

At(s, point) == sched[s].at = point
Job(s) == sched[s].job

Becomes(s, c) == sched' = [sched EXCEPT ![s] = c]

Goto(s, point) == Becomes(s, [sched[s] EXCEPT !.at = point])

\* The cycle goes on with its next job.
Skip(s) ==
  Becomes(s, [sched[s] EXCEPT !.at = "next", !.job = None, !.id = None, !.snapshot = Empty])

\* A store call may begin.
MayCall(s) == Serial => \A q \in Schedulers : sched[q].at \notin InCall

\* A mutating call reads the document, and will save its copy at point.
Load(s, point) ==
  /\ MayCall(s)
  /\ Becomes(s, [sched[s] EXCEPT !.at = point, !.snapshot = file])

ActiveLease(j, now) == file.lease[j] # None /\ file.lease[j].expires > now

InBackoff(j, now) == file.backoff[j] # None /\ file.backoff[j] > now

\* The first n of a set of jobs, by creation time.
First(n, jobs) ==
  {j \in jobs : Cardinality({k \in jobs : Created[k] < Created[j]}) < n}

Eligible == {j \in live : ~InBackoff(j, clock)}

\* Mutant: a cycle takes one job less than it may.
StartCycleShort(s) ==
  /\ At(s, "idle")
  /\ MayCall(s)
  /\ Becomes(s, [Idle EXCEPT !.at = "next", !.now = clock, !.todo = First(Limit - 1, Eligible)])
  /\ UNCHANGED <<clock, live, file, begun, crashes>>

\* run_cycle reads the clock once and takes the first jobs that are neither
\* terminal nor backing off.
StartCycle(s) ==
  /\ At(s, "idle")
  /\ MayCall(s)
  /\ Becomes(s, [Idle EXCEPT !.at = "next", !.now = clock, !.todo = First(Limit, Eligible)])
  /\ UNCHANGED <<clock, live, file, begun, crashes>>

EndCycle(s) ==
  /\ At(s, "next")
  /\ sched[s].todo = {}
  /\ Becomes(s, Idle)
  /\ UNCHANGED <<clock, live, file, begun, crashes>>

\* _acquire_lease of the next job, first read: another lease is active, or not.
CheckLease(s) ==
  /\ At(s, "next")
  /\ MayCall(s)
  /\ \E j \in First(1, sched[s].todo) :
       LET rest == sched[s].todo \ {j}
       IN  IF ActiveLease(j, sched[s].now)
           THEN Becomes(s, [sched[s] EXCEPT !.todo = rest])
           ELSE Becomes(s, [sched[s] EXCEPT !.at = "lease", !.todo = rest, !.job = j])
  /\ UNCHANGED <<clock, live, file, begun, crashes>>

\* Lease identifiers nobody has seen, and what uuid4 draws: any one will do.
FreshIds ==
  {id \in LeaseIds :
     /\ \A q \in Schedulers : sched[q].id # id
     /\ \A j \in Jobs : file.lease[j] # None => file.lease[j].id # id
     /\ \A q \in Schedulers, j \in Jobs :
          sched[q].snapshot.lease[j] # None => sched[q].snapshot.lease[j].id # id}

uuid4 == CHOOSE id \in FreshIds : TRUE

\* Mutant: a lease on record that has expired is replaced.
RecordLeaseTakingOver(s) ==
  /\ At(s, "lease")
  /\ MayCall(s)
  /\ FreshIds # {}
  /\ Becomes(s, [sched[s] EXCEPT
       !.id = uuid4, !.snapshot = file,
       !.at = IF ActiveLease(Job(s), sched[s].now) THEN "confirm" ELSE "save-lease"])
  /\ UNCHANGED <<clock, live, file, begun, crashes>>

\* _record: a lease on record, expired or not, stays; otherwise save one.
RecordLease(s) ==
  /\ At(s, "lease")
  /\ MayCall(s)
  /\ FreshIds # {}
  /\ Becomes(s, [sched[s] EXCEPT
       !.id = uuid4, !.snapshot = file,
       !.at = IF file.lease[Job(s)] = None THEN "save-lease" ELSE "confirm"])
  /\ UNCHANGED <<clock, live, file, begun, crashes>>

WithLease(document, j, lease) ==
  [document EXCEPT !.lease = [document.lease EXCEPT ![j] = lease]]

WithBackoff(document, j, until) ==
  [document EXCEPT !.backoff = [document.backoff EXCEPT ![j] = until]]

\* The mutating call is over.
Saved(s, point) == Becomes(s, [sched[s] EXCEPT !.at = point, !.snapshot = Empty])

\* Mutant: the lease is written without the identifier of its holder.
SaveLeaseUnnamed(s) ==
  /\ At(s, "save-lease")
  /\ file' = WithLease(sched[s].snapshot, Job(s),
                       [id |-> None, expires |-> sched[s].now + LeaseSeconds])
  /\ Saved(s, "confirm")
  /\ UNCHANGED <<clock, live, begun, crashes>>

SaveLease(s) ==
  /\ At(s, "save-lease")
  /\ file' = WithLease(sched[s].snapshot, Job(s),
                       [id |-> sched[s].id, expires |-> sched[s].now + LeaseSeconds])
  /\ Saved(s, "confirm")
  /\ UNCHANGED <<clock, live, begun, crashes>>

Count(n) == IF n < 2 THEN n + 1 ELSE n

\* Mutant: a recorded lease is taken for one's own.
ConfirmAnyLease(s) ==
  /\ At(s, "confirm")
  /\ MayCall(s)
  /\ IF file.lease[Job(s)] # None
     THEN Goto(s, "dispatch") /\ begun' = [begun EXCEPT ![Job(s)] = Count(@)]
     ELSE Skip(s) /\ UNCHANGED begun
  /\ UNCHANGED <<clock, live, file, crashes>>

\* The lease on record is one's own, or the job is left to its holder.
ConfirmLease(s) ==
  /\ At(s, "confirm")
  /\ MayCall(s)
  /\ IF file.lease[Job(s)] # None /\ file.lease[Job(s)].id = sched[s].id
     THEN Goto(s, "dispatch") /\ begun' = [begun EXCEPT ![Job(s)] = Count(@)]
     ELSE Skip(s) /\ UNCHANGED begun
  /\ UNCHANGED <<clock, live, file, crashes>>

\* orchestrator.dispatch_once: the job advances or ends, or an exception is
\* raised; all but KeyError and ValueError are retryable.
Dispatch(s) ==
  /\ At(s, "dispatch")
  /\ \/ Goto(s, "cycle") /\ live' \in {live, live \ {Job(s)}}
     \/ /\ Goto(s, IF BackoffSeconds # 0 THEN "backoff" ELSE "cycle")
        /\ UNCHANGED live
  /\ UNCHANGED <<clock, file, begun, crashes>>

RecordBackoff(s) ==
  /\ At(s, "backoff")
  /\ IF file.backoff[Job(s)] = None
     THEN Load(s, "save-backoff")
     ELSE MayCall(s) /\ Goto(s, "cycle")
  /\ UNCHANGED <<clock, live, file, begun, crashes>>

SaveBackoff(s) ==
  /\ At(s, "save-backoff")
  /\ file' = WithBackoff(sched[s].snapshot, Job(s), sched[s].now + BackoffSeconds)
  /\ Saved(s, "cycle")
  /\ UNCHANGED <<clock, live, begun, crashes>>

\* The cycle's own record, under an identifier of its own.
RecordCycle(s) ==
  /\ At(s, "cycle")
  /\ Load(s, "save-cycle")
  /\ UNCHANGED <<clock, live, file, begun, crashes>>

SaveCycle(s) ==
  /\ At(s, "save-cycle")
  /\ file' = sched[s].snapshot
  /\ Skip(s)
  /\ UNCHANGED <<clock, live, begun, crashes>>

Crash(s) ==
  /\ ~At(s, "idle")
  /\ crashes < MaxCrashes
  /\ crashes' = crashes + 1
  /\ Becomes(s, Idle)
  /\ UNCHANGED <<clock, live, file, begun>>

Tick == clock < MaxClock /\ clock' = clock + 1 /\ UNCHANGED <<live, file, sched, begun, crashes>>

Run(s) ==
  \/ StartCycle(s) \/ EndCycle(s)
  \/ CheckLease(s) \/ RecordLease(s) \/ SaveLease(s) \/ ConfirmLease(s)
  \/ Dispatch(s)
  \/ RecordBackoff(s) \/ SaveBackoff(s) \/ RecordCycle(s) \/ SaveCycle(s)

Next == (\E s \in Schedulers : Run(s) \/ Crash(s)) \/ Tick

Spec == Init /\ [][Next]_vars

\* Somebody keeps running cycles, and time passes.
FairSpec == Spec /\ WF_vars(Tick) /\ \A s \in Schedulers : WF_vars(Run(s))

-----------------------------------------------------------------------------

\* With store calls that do not overlap, no job is dispatched twice: not by two
\* instances that see no lease at the same time, not after a crash between the
\* lease and the dispatch, not after the lease expired (scheduler.py
\* _acquire_lease, which writes the lease once and confirms it).
DispatchedOnce == \A j \in Jobs : begun[j] <= 1

\* An instance that dispatches a job holds the lease on record until it is done.
DispatchesUnderLease ==
  \A s \in Schedulers :
    sched[s].at \in {"dispatch", "backoff", "save-backoff", "cycle", "save-cycle"} =>
      /\ file.lease[Job(s)] # None
      /\ file.lease[Job(s)].id = sched[s].id

\* A retryable failure always gets its backoff: the one record a job can have of
\* it is not yet taken when a dispatch fails (_record_backoff, written once like
\* the lease that keeps the job from a second dispatch).
FailureGetsBackoff ==
  \A s \in Schedulers : At(s, "backoff") => file.backoff[Job(s)] = None

\* Nobody holds the lease on record any more: who did has died.
Abandoned(j) ==
  file.lease[j] # None /\ \A s \in Schedulers : sched[s].id # file.lease[j].id

\* With store calls that do not overlap, the lease of a job is written once, and
\* a job whose holder died with it is lost: no cycle leases or dispatches it
\* again, before or after the lease expires (_record, which returns what is
\* there, and _active_lease, which looks for nothing but the one lease).
AbandonedForGood ==
  [][\A j \in Jobs :
       /\ file.lease[j] # None => file'.lease[j] = file.lease[j]
       /\ Abandoned(j) =>
            /\ \A s \in Schedulers : sched'[s].id # file.lease[j].id
            /\ begun'[j] = begun[j]
            /\ j \in live' <=> j \in live]_vars

\* What the cycle of an instance has still to do, the job in hand included.
InHand(s) == sched[s].todo \cup ({Job(s)} \ {None})

\* A cycle never has more jobs than one cycle may dispatch, whatever became eligible
\* since it began (run_cycle, which cuts its list once and never reads it again).
CycleIsBounded ==
  \A s \in Schedulers : IsFiniteSet(InHand(s)) /\ Cardinality(InHand(s)) <= Limit

\* No later cycle will dispatch the job: its one lease is on record and nobody's,
\* or jobs created before it that are unfinished and in that position fill a cycle.
ShutOut(j) ==
  \/ Abandoned(j)
  \/ Cardinality({k \in live : Created[k] < Created[j] /\ Abandoned(k)}) >= Limit

\* A job is dispatched in the end, or shut out for good, by the death of its own
\* holder or by as many unfinished earlier jobs as a cycle may hold, each of which
\* had its one dispatch or lost its holder: nothing else starves a job, neither a
\* backoff nor another instance (run_cycle, which cuts its list before it looks at
\* the leases).
ServedOrShutOut == \A j \in Jobs : <>(begun[j] > 0) \/ <>[]ShutOut(j)

-----------------------------------------------------------------------------
(* What docs/autonomy-scheduler.md says and the code does not do.          *)

Expired(j) == file.lease[j] # None /\ file.lease[j].expires <= clock

\* "Expired leases are treated as recoverable after restart": an unfinished
\* job does not keep an expired lease for ever.
ExpiredLeaseRecovers ==
  \A j \in Jobs : j \in live /\ Expired(j) ~> ~(j \in live /\ Expired(j))
=============================================================================
