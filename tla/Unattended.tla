------------------------------ MODULE Unattended ------------------------------
(***************************************************************************)
(* Unattended operation: launcher processes (production_launcher.py,       *)
(* live_cli.py, deployment.py) that run BoundedUnattendedScheduler         *)
(* (unattended_scheduler.py) over one configuration: a lease file guards   *)
(* the cycles, a state file counts them, and the operator asks for a       *)
(* pause, a drain, a shutdown or an emergency stop.                        *)
(*                                                                         *)
(* Files are read and later replaced without a lock, so each such call is  *)
(* two steps, and the calls of two processes on one file may overlap.      *)
(* What two writers then make of their common temporary file is left out;  *)
(* what is claimed of a file is claimed until calls on it overlapped.      *)
(* Time is kept as ages: of the heartbeat in the lease file and of the     *)
(* heartbeat each process wrote last.                                      *)
(***************************************************************************)
EXTENDS Integers, FiniteSets

CONSTANTS
  Procs,        \* launcher processes
  Owner,        \* config.lease_owner of each process
  Embedded,     \* processes that keep the runtime and take commands while it runs
  Modes,        \* DeploymentModes the operator starts
  MaxCycles,    \* max_cycles_per_run
  Ttl,          \* ttl_seconds of the lease, in ticks: ages saturate at Ttl
  Modulus,      \* cycles are counted modulo this bound
  Stoppable,    \* processes whose emergency stop is raised and cleared
  MaxCrashes,   \* bound on crashes
  None

DeploymentMode == {"observe_only", "single_cycle", "always_on"}

ASSUME UnattendedAssumption ==
  /\ IsFiniteSet(Procs)
  /\ Embedded \subseteq Procs /\ Stoppable \subseteq Procs
  /\ Modes \subseteq DeploymentMode
  /\ MaxCycles \in Nat \ {0} /\ Ttl \in Nat \ {0} /\ Modulus \in Nat \ {0}
  /\ MaxCrashes \in Nat
  /\ \A p \in Procs : None # Owner[p]
  /\ None \notin [owner : {Owner[p] : p \in Procs}, age : 0 .. Ttl]

VARIABLES
  lease,      \* the lease file
  counted,    \* cycle_count in the state file
  owed,       \* history: cycles of runs that saved them or still may
  control,    \* the SchedulerControl of each process
  stop,       \* the emergency stop in the environment of each process
  run,        \* what each process is doing
  overlapped, \* history: the files on which calls of two processes overlapped
  died,       \* history: processes that ever died
  crashes

files == <<lease, counted, owed>>
operator == <<control, stop>>
faults == <<overlapped, died, crashes>>
vars == <<lease, counted, owed, control, stop, run, overlapped, died, crashes>>

FileLeaseRecord == [owner : {Owner[p] : p \in Procs}, age : 0 .. Ttl]

SchedulerControl == [paused : BOOLEAN, draining : BOOLEAN, shutdown_requested : BOOLEAN]

Demand == {"stop", "pause", "drain", "shutdown"}

\* Between the read and the write of a call on the file.
InCall == [lease |-> {"write-lease", "write-heartbeat", "unlink"}, state |-> {"save-health"}]

\* Between acquiring the lease and giving it up.
Holds == {"heartbeat", "write-heartbeat", "check-stop", "check-control", "cycle",
          "release", "unlink"}

Points == {"idle", "verify", "stop", "acquire", "write-lease", "load-health", "save-health"}
          \cup Holds

\* beat: the age of the time stamp the process took last; standing: what the
\* operator has demanded since before the heartbeat without taking it back;
\* prior: the cycle_count save_health read.
Run == [at : Points, mode : DeploymentMode \cup {None}, records : 0 .. MaxCycles,
        raised : BOOLEAN, beat : 0 .. Ttl, prior : 0 .. Modulus - 1,
        standing : SUBSET Demand]

Idle == [at |-> "idle", mode |-> None, records |-> 0, raised |-> FALSE, beat |-> Ttl,
         prior |-> 0, standing |-> {}]

TypeOK ==
  /\ lease \in FileLeaseRecord \cup {None}
  /\ counted \in 0 .. Modulus - 1 /\ owed \in 0 .. Modulus - 1
  /\ control \in [Procs -> SchedulerControl]
  /\ stop \in [Procs -> BOOLEAN]
  /\ run \in [Procs -> Run]
  /\ overlapped \subseteq {"lease", "state"}
  /\ died \subseteq Procs
  /\ crashes \in 0 .. MaxCrashes

FreshControl == [paused |-> FALSE, draining |-> FALSE, shutdown_requested |-> FALSE]

Init ==
  /\ lease = None
  /\ counted = 0 /\ owed = 0
  /\ control = [p \in Procs |-> FreshControl]
  /\ stop = [p \in Procs |-> FALSE]
  /\ run = [p \in Procs |-> Idle]
  /\ overlapped = {} /\ died = {} /\ crashes = 0

-----------------------------------------------------------------------------

At(p, point) == run[p].at = point

Becomes(p, r) == run' = [run EXCEPT ![p] = r]

Goto(p, point) == Becomes(p, [run[p] EXCEPT !.at = point])

\* The run returned its health: what is left of it is the number of records.
Report(p) == Becomes(p, [Idle EXCEPT !.at = "load-health", !.records = run[p].records])

\* A call that will write the file has read it: perhaps while another did.
Opens(p, file) ==
  overlapped' = IF \E q \in Procs \ {p} : run[q].at \in InCall[file]
                THEN overlapped \cup {file} ELSE overlapped

Demands(p) ==
  {d \in Demand : \/ d = "stop" /\ stop[p]
                  \/ d = "pause" /\ control[p].paused
                  \/ d = "drain" /\ control[p].draining
                  \/ d = "shutdown" /\ control[p].shutdown_requested}

\* The operator starts a mode; a new process has a control of its own.
Start(p) ==
  /\ At(p, "idle")
  /\ \E mode \in Modes : Becomes(p, [run[p] EXCEPT !.at = "verify", !.mode = mode])
  /\ UNCHANGED <<files, operator, faults>>

\* Readiness is verified by the deployment and again by the scheduler, with
\* nothing in between.
Verify(p) ==
  /\ At(p, "verify")
  /\ Goto(p, "stop")
  /\ UNCHANGED <<files, operator, faults>>

\* The configuration is incomplete or the verifier raises: nothing is written.
Refuse(p) ==
  /\ At(p, "verify")
  /\ Becomes(p, Idle)
  /\ UNCHANGED <<files, operator, faults>>

CheckStopFirst(p) ==
  /\ At(p, "stop")
  /\ IF stop[p] THEN Report(p) ELSE Goto(p, "acquire")
  /\ UNCHANGED <<files, operator, faults>>

\* Mutant: a lease counts as stale a tick too early.
MayTakeEarly(p) == lease = None \/ lease.owner = Owner[p] \/ lease.age >= Ttl - 1

\* Mutant: a lease in the name of another is respected however old it is.
MayTakeOwn(p) == lease = None \/ lease.owner = Owner[p]

\* No lease on file, one in the process's own name, or a stale one.
MayTake(p) == lease = None \/ lease.owner = Owner[p] \/ lease.age >= Ttl

\* FileLeaseStore.acquire reads the clock, then the file.
Acquire(p) ==
  /\ At(p, "acquire")
  /\ IF MayTake(p)
     THEN Becomes(p, [run[p] EXCEPT !.at = "write-lease", !.beat = 0]) /\ Opens(p, "lease")
     ELSE Report(p) /\ UNCHANGED overlapped
  /\ UNCHANGED <<files, operator, died, crashes>>

\* The time stamp is the one taken before the file was read.
WriteLease(p) ==
  /\ At(p, "write-lease")
  /\ lease' = [owner |-> Owner[p], age |-> run[p].beat]
  /\ Goto(p, "heartbeat")
  /\ UNCHANGED <<counted, owed, operator, faults>>

\* Mutant: the heartbeat does not look whose lease it renews.
HeartbeatAny(p) ==
  /\ At(p, "heartbeat")
  /\ Becomes(p, [run[p] EXCEPT !.at = "write-heartbeat", !.standing = Demands(p)])
  /\ Opens(p, "lease")
  /\ UNCHANGED <<files, operator, died, crashes>>

\* FileLeaseStore.heartbeat reads; a lease of another raises, and the run ends
\* without a health report.
Heartbeat(p) ==
  /\ At(p, "heartbeat")
  /\ IF lease # None /\ lease.owner = Owner[p]
     THEN /\ Becomes(p, [run[p] EXCEPT !.at = "write-heartbeat", !.standing = Demands(p)])
          /\ Opens(p, "lease")
     ELSE /\ Becomes(p, [run[p] EXCEPT !.at = "release", !.raised = TRUE])
          /\ UNCHANGED overlapped
  /\ UNCHANGED <<files, operator, died, crashes>>

WriteHeartbeat(p) ==
  /\ At(p, "write-heartbeat")
  /\ lease' = [owner |-> Owner[p], age |-> 0]
  /\ Becomes(p, [run[p] EXCEPT !.at = "check-stop", !.beat = 0])
  /\ UNCHANGED <<counted, owed, operator, faults>>

CheckStop(p) ==
  /\ At(p, "check-stop")
  /\ Goto(p, IF stop[p] THEN "release" ELSE "check-control")
  /\ UNCHANGED <<files, operator, faults>>

\* One more record, which save_health will count.
Record(p, point) ==
  /\ Becomes(p, [run[p] EXCEPT !.at = point, !.records = @ + 1, !.standing = {}])
  /\ owed' = (owed + 1) % Modulus

\* Mutant: a pause is only looked at before the first cycle.
CheckControlOnce(p) ==
  /\ At(p, "check-control")
  /\ IF \/ control[p].shutdown_requested
        \/ control[p].paused /\ run[p].records = 0
        \/ control[p].draining /\ run[p].records > 0
     THEN Goto(p, "release") /\ UNCHANGED owed
     ELSE IF run[p].mode = "observe_only"
          THEN Record(p, "release")
          ELSE Goto(p, "cycle") /\ UNCHANGED owed
  /\ UNCHANGED <<lease, counted, operator, faults>>

\* Shutdown, pause, or a drain once a cycle is done; observing is a record.
CheckControl(p) ==
  /\ At(p, "check-control")
  /\ IF \/ control[p].shutdown_requested
        \/ control[p].paused
        \/ control[p].draining /\ run[p].records > 0
     THEN Goto(p, "release") /\ UNCHANGED owed
     ELSE IF run[p].mode = "observe_only"
          THEN Record(p, "release")
          ELSE Goto(p, "cycle") /\ UNCHANGED owed
  /\ UNCHANGED <<lease, counted, operator, faults>>

\* Mutant: one cycle more than max_cycles_per_run.
RunCyclePastLimit(p) ==
  /\ At(p, "cycle")
  /\ \/ Record(p, "release")
     \/ /\ run[p].mode = "always_on"
        /\ run[p].records < MaxCycles
        /\ Record(p, "heartbeat")
  /\ UNCHANGED <<lease, counted, operator, faults>>

\* runtime.run_cycle ends or raises: either way it is a record.  A single
\* cycle, the last one and a halted one end the loop.
RunCycle(p) ==
  /\ At(p, "cycle")
  /\ \/ Record(p, "release")
     \/ /\ run[p].mode = "always_on"
        /\ run[p].records + 1 < MaxCycles
        /\ Record(p, "heartbeat")
  /\ UNCHANGED <<lease, counted, operator, faults>>

\* The run is over, with a health report or with an exception.
Leave(p) ==
  IF run[p].raised
  THEN /\ Becomes(p, Idle)
       /\ owed' = (owed - run[p].records) % Modulus
  ELSE Report(p) /\ UNCHANGED owed

\* FileLeaseStore.release reads; it deletes only a lease of its owner.
Release(p) ==
  /\ At(p, "release")
  /\ IF lease # None /\ lease.owner = Owner[p]
     THEN Goto(p, "unlink") /\ Opens(p, "lease") /\ UNCHANGED owed
     ELSE Leave(p) /\ UNCHANGED overlapped
  /\ UNCHANGED <<lease, counted, operator, died, crashes>>

\* Mutant: the lease of a run that did no cycle is left behind.
UnlinkIfUsed(p) ==
  /\ At(p, "unlink")
  /\ lease' = IF run[p].records = 0 THEN lease ELSE None
  /\ Leave(p)
  /\ UNCHANGED <<counted, operator, faults>>

Unlink(p) ==
  /\ At(p, "unlink")
  /\ lease' = None
  /\ Leave(p)
  /\ UNCHANGED <<counted, operator, faults>>

\* DeploymentStateStore.save_health reads what it will replace.
LoadHealth(p) ==
  /\ At(p, "load-health")
  /\ Becomes(p, [run[p] EXCEPT !.at = "save-health", !.prior = counted])
  /\ Opens(p, "state")
  /\ UNCHANGED <<files, operator, died, crashes>>

\* Mutant: the count of the last run replaces the cumulative one.
SaveHealthAnew(p) ==
  /\ At(p, "save-health")
  /\ counted' = run[p].records % Modulus
  /\ Becomes(p, Idle)
  /\ UNCHANGED <<lease, owed, operator, faults>>

\* Every other field of the state file is the run's own, whatever was there.
SaveHealth(p) ==
  /\ At(p, "save-health")
  /\ counted' = (run[p].prior + run[p].records) % Modulus
  /\ Becomes(p, Idle)
  /\ UNCHANGED <<lease, owed, operator, faults>>

-----------------------------------------------------------------------------

\* What still stands of the demands a run met at its heartbeat.
KeepStanding(p) == Becomes(p, [run[p] EXCEPT !.standing = @ \cap Demands(p)'])

\* execute(PAUSE), RESUME, DRAIN, SHUTDOWN on the control of this process.  A
\* command given to the CLI has a process and a control of its own, and
\* changes nothing for any other.
Command(p) ==
  /\ p \in Embedded
  /\ \E c \in {[control[p] EXCEPT !.paused = TRUE],
                [control[p] EXCEPT !.paused = FALSE, !.draining = FALSE],
                [control[p] EXCEPT !.draining = TRUE],
                [control[p] EXCEPT !.shutdown_requested = TRUE]} :
       control' = [control EXCEPT ![p] = c]
  /\ UNCHANGED <<files, stop, faults>>
  /\ KeepStanding(p)

\* The stop is a variable of the process's own environment: set when it is
\* launched, or by the program that embeds the runtime.
SetStop(p) ==
  /\ p \in Stoppable
  /\ p \in Embedded \/ At(p, "idle")
  /\ stop' = [stop EXCEPT ![p] = ~@]
  /\ UNCHANGED <<files, control, faults>>
  /\ KeepStanding(p)

\* The process dies; the next one starts with a control of its own.
Crash(p) ==
  /\ ~At(p, "idle")
  /\ crashes < MaxCrashes
  /\ crashes' = crashes + 1
  /\ died' = died \cup {p}
  /\ owed' = (owed - run[p].records) % Modulus
  /\ control' = [control EXCEPT ![p] = FreshControl]
  /\ Becomes(p, Idle)
  /\ UNCHANGED <<lease, counted, stop, overlapped>>

Older(age) == IF age < Ttl THEN age + 1 ELSE age

Tick ==
  /\ lease' = IF lease = None THEN None ELSE [lease EXCEPT !.age = Older(@)]
  /\ run' = [p \in Procs |-> [run[p] EXCEPT !.beat = Older(@)]]
  /\ UNCHANGED <<counted, owed, operator, faults>>

Proceed(p) ==
  \/ Verify(p) \/ CheckStopFirst(p)
  \/ Acquire(p) \/ WriteLease(p)
  \/ Heartbeat(p) \/ WriteHeartbeat(p) \/ CheckStop(p) \/ CheckControl(p) \/ RunCycle(p)
  \/ Release(p) \/ Unlink(p)
  \/ LoadHealth(p) \/ SaveHealth(p)

Next ==
  \/ \E p \in Procs : Start(p) \/ Proceed(p) \/ Refuse(p) \/ Command(p) \/ SetStop(p) \/ Crash(p)
  \/ Tick

Spec == Init /\ [][Next]_vars

\* Time passes, a run goes on, a service manager starts one or another next
\* invocation, and readiness is not refused every time.
FairSpec ==
  /\ Spec
  /\ WF_vars(Tick)
  /\ WF_vars(\E p \in Procs : Start(p))
  /\ \A p \in Procs : WF_vars(Proceed(p)) /\ SF_vars(Verify(p))

-----------------------------------------------------------------------------

Distinct == \A p, q \in Procs : p # q => Owner[p] # Owner[q]

Fresh(p) == run[p].at \in Holds /\ run[p].beat < Ttl

\* Of the processes between acquire and release, at most one wrote its last
\* heartbeat less than a TTL ago: a scheduler whose lease was taken over has been
\* silent for a TTL, whatever the processes do and whoever dies.  Two things break
\* it and nothing else: two launchers that are configured with one owner name,
\* and two calls on the lease file that overlapped (FileLeaseStore).
OneFreshHolder ==
  (\E p, q \in Procs : p # q /\ Fresh(p) /\ Fresh(q)) => ~Distinct \/ "lease" \in overlapped

\* The lease file never outlives its holder unless that holder died or calls on
\* the file overlapped: every way out of BoundedUnattendedScheduler.run, the
\* exception of a heartbeat included, gives the lease back.  (Overlapping writers
\* share one temporary file, whose mixed contents are not modelled.)
LeaseHasHolder ==
  lease # None /\ "lease" \notin overlapped =>
    \E p \in Procs : lease.owner = Owner[p] /\ (run[p].at \in Holds \/ p \in died)

\* No cycle begins under a stop, pause or shutdown that has stood since before
\* its heartbeat, nor a second one under such a drain.
OperatorObeyed ==
  \A p \in Procs : At(p, "cycle") =>
    /\ run[p].standing \cap {"stop", "pause", "shutdown"} = {}
    /\ "drain" \in run[p].standing => run[p].records = 0

\* One pair for each record of a run that has not saved its health.
Pending == {w \in Procs \X (1 .. MaxCycles) : w[2] <= run[w[1]].records}

\* cycle_count counts every recorded cycle once, until two of save_health's calls
\* overlap: what the file says and what running processes have yet to add make up
\* all cycles but those of runs that died or raised, whatever those did to the lease.
CyclesCounted ==
  "state" \in overlapped \/ owed = (counted + Cardinality(Pending)) % Modulus

\* Once the stop stays off, and as long as calls on the lease file do not overlap,
\* no lease is left for ever to a process that does not hold it: the next
\* invocation of its owner, or any after a TTL, takes it.
LeaseRecovers ==
  <>[](\A p \in Procs : ~stop[p]) /\ []("lease" \notin overlapped) =>
    []<>(lease = None \/ \E p \in Procs : run[p].at \in Holds /\ lease.owner = Owner[p])

-----------------------------------------------------------------------------
(* What the repository says of the launcher and the code does not do.      *)

\* docs/autonomy-v2-production-launcher.md: startup fails closed when "the
\* scheduler lease is owned by another live process".  Without any overlap of
\* file calls no two processes hold the lease with heartbeats younger than the TTL.
OneLiveOwner ==
  "lease" \notin overlapped =>
    \A p, q \in Procs : p # q => ~(Fresh(p) /\ Fresh(q))
=============================================================================
