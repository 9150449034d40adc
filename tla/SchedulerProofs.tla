---------------------------- MODULE SchedulerProofs ----------------------------
(***************************************************************************)
(* Theorems about Scheduler, for any number of instances, jobs and leases, *)
(* any durations and any limit.  All but type correctness assume Serial:   *)
(* store calls of different instances do not overlap.                      *)
(***************************************************************************)
EXTENDS Scheduler, FiniteSetTheorems, TLAPS

Working == {"dispatch", "backoff", "save-backoff", "cycle", "save-cycle"}

\* What a cycle has in hand at its points.
Sound(c) ==
  /\ c.at \notin {"idle", "next"} => c.job \in Jobs
  /\ c.at \in {"idle", "next", "lease"} => c.id = None
  /\ c.at \notin {"idle", "next", "lease"} => c.id \in LeaseIds

Typed == TypeOK /\ \A s \in Schedulers : Sound(sched[s])

LEMMA EmptyTyped == Empty \in Document
  BY DEF Empty, Document

LEMMA IdleTyped == Idle \in Cycle /\ Sound(Idle)
  BY EmptyTyped DEF Idle, Cycle, Points, Sound

LEMMA BecomesSets ==
  ASSUME Typed, NEW s \in Schedulers, NEW c, Becomes(s, c)
  PROVE  sched'[s] = c /\ \A q \in Schedulers \ {s} : sched'[q] = sched[q]
  BY DEF Becomes, Typed, TypeOK

CyclesTyped == sched' \in [Schedulers -> Cycle] /\ \A q \in Schedulers : Sound(sched'[q])

LEMMA BecomesTyped ==
  ASSUME Typed, NEW s \in Schedulers, NEW c \in Cycle, Becomes(s, c), Sound(c)
  PROVE  CyclesTyped
  BY BecomesSets DEF Becomes, Typed, TypeOK, CyclesTyped

LEMMA CycleTyped ==
  ASSUME Typed, NEW s \in Schedulers
  PROVE  /\ sched[s] \in Cycle /\ Sound(sched[s])
         /\ sched[s].now \in Nat /\ sched[s].snapshot \in Document
         /\ file \in Document
  BY DEF Typed, TypeOK, Cycle

\* The points within a job that is leased or about to be.
Within == Points \ {"idle", "next", "lease"}

\* A step within a job: the point changes, and perhaps the copy of the document.
LEMMA CopySets ==
  ASSUME Typed, NEW s \in Schedulers, NEW point \in Within, NEW d \in Document,
         sched[s].at \in Within,
         Becomes(s, [sched[s] EXCEPT !.at = point, !.snapshot = d])
  PROVE  /\ CyclesTyped
         /\ sched'[s].at = point /\ sched'[s].job = sched[s].job /\ sched'[s].id = sched[s].id
         /\ sched'[s].todo = sched[s].todo
         /\ sched'[s].snapshot = d
         /\ \A q \in Schedulers \ {s} : sched'[q] = sched[q]
  <1> DEFINE c == [sched[s] EXCEPT !.at = point, !.snapshot = d]
  <1>1. sched[s] \in Cycle /\ Sound(sched[s]) /\ point \in Points
    BY CycleTyped DEF Within
  <1>2. /\ c \in Cycle /\ c.at = point /\ c.job = sched[s].job /\ c.id = sched[s].id
        /\ c.todo = sched[s].todo
        /\ c.snapshot = d
    BY <1>1 DEF Cycle
  <1> HIDE DEF c
  <1>3. Sound(c)
    BY <1>1, <1>2 DEF Sound, Within
  <1>4. Becomes(s, c)
    BY DEF c
  <1>. QED
    BY <1>2, <1>3, <1>4, BecomesSets, BecomesTyped

LEMMA GotoSets ==
  ASSUME Typed, NEW s \in Schedulers, NEW point \in Within, sched[s].at \in Within,
         Goto(s, point)
  PROVE  /\ CyclesTyped
         /\ sched'[s].at = point /\ sched'[s].job = sched[s].job /\ sched'[s].id = sched[s].id
         /\ sched'[s].todo = sched[s].todo
         /\ sched'[s].snapshot = sched[s].snapshot
         /\ \A q \in Schedulers \ {s} : sched'[q] = sched[q]
  <1> DEFINE c == [sched[s] EXCEPT !.at = point]
  <1>1. sched[s] \in Cycle /\ Sound(sched[s]) /\ point \in Points
    BY CycleTyped DEF Within
  <1>2. /\ c \in Cycle /\ c.at = point /\ c.job = sched[s].job /\ c.id = sched[s].id
        /\ c.todo = sched[s].todo
        /\ c.snapshot = sched[s].snapshot
    BY <1>1 DEF Cycle
  <1> HIDE DEF c
  <1>3. Sound(c)
    BY <1>1, <1>2 DEF Sound, Within
  <1>4. Becomes(s, c)
    BY DEF c, Goto
  <1>. QED
    BY <1>2, <1>3, <1>4, BecomesSets, BecomesTyped

LEMMA SkipSets ==
  ASSUME Typed, NEW s \in Schedulers, Skip(s)
  PROVE  /\ CyclesTyped
         /\ sched'[s].at = "next" /\ sched'[s].id = None
         /\ sched'[s].todo = sched[s].todo /\ sched'[s].job = None
         /\ \A q \in Schedulers \ {s} : sched'[q] = sched[q]
  <1> DEFINE c == [sched[s] EXCEPT !.at = "next", !.job = None, !.id = None, !.snapshot = Empty]
  <1>1. sched[s] \in Cycle /\ "next" \in Points
    BY CycleTyped DEF Points
  <1>2. c \in Cycle /\ c.at = "next" /\ c.id = None /\ c.todo = sched[s].todo /\ c.job = None
    BY <1>1, EmptyTyped DEF Cycle
  <1>3. Becomes(s, c)
    BY DEF Skip
  <1> HIDE DEF c
  <1>4. Sound(c)
    BY <1>2 DEF Sound
  <1>. QED
    BY <1>2, <1>3, <1>4, BecomesSets, BecomesTyped

LEMMA EndSets ==
  ASSUME Typed, NEW s \in Schedulers, Becomes(s, Idle)
  PROVE  /\ CyclesTyped
         /\ sched'[s].at = "idle" /\ sched'[s].id = None
         /\ sched'[s].todo = {} /\ sched'[s].job = None
         /\ \A q \in Schedulers \ {s} : sched'[q] = sched[q]
  BY IdleTyped, BecomesSets, BecomesTyped DEF Idle

LEMMA StartSets ==
  ASSUME Typed, NEW s \in Schedulers, StartCycle(s)
  PROVE  /\ CyclesTyped
         /\ sched'[s].at = "next" /\ sched'[s].id = None
         /\ sched'[s].todo = First(Limit, Eligible) /\ sched'[s].job = None
         /\ \A q \in Schedulers \ {s} : sched'[q] = sched[q]
  <1> DEFINE todo == First(Limit, Eligible)
             c == [Idle EXCEPT !.at = "next", !.now = clock, !.todo = todo]
  <1>1. todo \subseteq Jobs /\ clock \in Nat /\ "next" \in Points
    BY DEF First, Eligible, Typed, TypeOK, Points
  <1>2. Becomes(s, c)
    BY DEF StartCycle
  <1> HIDE DEF todo
  <1>3. c \in Cycle /\ c.at = "next" /\ c.id = None /\ c.todo = todo /\ c.job = None
    BY <1>1, IdleTyped DEF Cycle, Idle
  <1> HIDE DEF c
  <1>4. Sound(c)
    BY <1>3 DEF Sound
  <1>. QED
    BY <1>2, <1>3, <1>4, BecomesSets, BecomesTyped DEF todo

LEMMA CheckSets ==
  ASSUME Typed, NEW s \in Schedulers, CheckLease(s)
  PROVE  /\ CyclesTyped
         /\ sched'[s].at \in {"next", "lease"} /\ sched'[s].id = None
         /\ InHand(s)' \subseteq InHand(s)
         /\ \A q \in Schedulers \ {s} : sched'[q] = sched[q]
  <1>1. sched[s] \in Cycle /\ sched[s].at = "next" /\ sched[s].id = None
    BY CycleTyped DEF CheckLease, At, Sound
  <1>2. PICK j \in First(1, sched[s].todo) :
          \/ Becomes(s, [sched[s] EXCEPT !.todo = sched[s].todo \ {j}])
          \/ Becomes(s, [sched[s] EXCEPT !.at = "lease", !.todo = sched[s].todo \ {j}, !.job = j])
    BY DEF CheckLease
  <1> DEFINE c == [sched[s] EXCEPT !.todo = sched[s].todo \ {j}]
             e == [sched[s] EXCEPT !.at = "lease", !.todo = sched[s].todo \ {j}, !.job = j]
  <1>3. j \in Jobs /\ sched[s].todo \ {j} \subseteq Jobs /\ "lease" \in Points
    BY <1>1, <1>2 DEF First, Cycle, Points
  <1>4. /\ c \in Cycle /\ c.at = "next" /\ c.id = None
        /\ c.todo = sched[s].todo \ {j} /\ c.job = sched[s].job
    BY <1>1, <1>3 DEF Cycle
  <1>5. /\ e \in Cycle /\ e.at = "lease" /\ e.id = None
        /\ e.todo = sched[s].todo \ {j} /\ e.job = j
    BY <1>1, <1>3 DEF Cycle
  <1>6. Becomes(s, c) \/ Becomes(s, e)
    BY <1>2
  <1> HIDE DEF c, e
  <1>7. Sound(c) /\ Sound(e)
    BY <1>3, <1>4, <1>5 DEF Sound
  <1>8. j \in sched[s].todo
    BY <1>2 DEF First
  <1>9. InHand(s)' \subseteq InHand(s)
    BY <1>4, <1>5, <1>6, <1>8, BecomesSets DEF InHand, Job
  <1>. QED
    BY <1>4, <1>5, <1>6, <1>7, <1>9, BecomesSets, BecomesTyped

LEMMA UuidFresh == FreshIds # {} => uuid4 \in FreshIds
  BY DEF uuid4

LEMMA RecordSets ==
  ASSUME Typed, NEW s \in Schedulers, RecordLease(s)
  PROVE  /\ CyclesTyped
         /\ sched'[s].at = IF file.lease[Job(s)] = None THEN "save-lease" ELSE "confirm"
         /\ sched'[s].id = uuid4 /\ sched'[s].job = sched[s].job /\ sched'[s].snapshot = file
         /\ sched'[s].todo = sched[s].todo
         /\ uuid4 \in FreshIds
         /\ \A q \in Schedulers \ {s} : sched'[q] = sched[q]
  <1> DEFINE point == IF file.lease[Job(s)] = None THEN "save-lease" ELSE "confirm"
             c == [sched[s] EXCEPT !.id = uuid4, !.snapshot = file, !.at = point]
  <1>1. sched[s] \in Cycle /\ sched[s].job \in Jobs /\ file \in Document
    BY CycleTyped DEF RecordLease, At, Sound
  <1>2. uuid4 \in FreshIds /\ uuid4 \in LeaseIds
    BY UuidFresh DEF RecordLease, FreshIds
  <1>3. point \in {"save-lease", "confirm"} /\ point \in Points
    BY DEF Points, InCall
  <1>4. Becomes(s, c)
    BY DEF RecordLease
  <1> HIDE DEF point
  <1>5. /\ c \in Cycle /\ c.at = point /\ c.id = uuid4 /\ c.job = sched[s].job
        /\ c.snapshot = file /\ c.todo = sched[s].todo
    BY <1>1, <1>2, <1>3 DEF Cycle
  <1> HIDE DEF c
  <1>6. Sound(c)
    BY <1>1, <1>2, <1>3, <1>5 DEF Sound
  <1>. QED
    BY <1>2, <1>4, <1>5, <1>6, BecomesSets, BecomesTyped DEF point

\* What a saved lease or backoff makes of a document.
LEMMA WithLeaseSets ==
  ASSUME NEW d \in Document, NEW j \in Jobs, NEW lease \in Lease
  PROVE  /\ WithLease(d, j, lease) \in Document
         /\ WithLease(d, j, lease).backoff = d.backoff
         /\ WithLease(d, j, lease).lease[j] = lease
         /\ \A k \in Jobs \ {j} : WithLease(d, j, lease).lease[k] = d.lease[k]
  BY DEF WithLease, Document

LEMMA WithBackoffSets ==
  ASSUME NEW d \in Document, NEW j \in Jobs, NEW until \in Nat
  PROVE  /\ WithBackoff(d, j, until) \in Document
         /\ WithBackoff(d, j, until).lease = d.lease
         /\ \A k \in Jobs \ {j} : WithBackoff(d, j, until).backoff[k] = d.backoff[k]
  BY DEF WithBackoff, Document

-----------------------------------------------------------------------------

LEMMA RunTyped ==
  ASSUME Typed, NEW s \in Schedulers, Run(s)
  PROVE  Typed'
  <1>1. /\ sched[s] \in Cycle /\ Sound(sched[s]) /\ sched[s].snapshot \in Document
        /\ sched[s].now \in Nat /\ file \in Document
    BY CycleTyped
  <1>2. CASE StartCycle(s)
    BY <1>2, StartSets DEF StartCycle, CyclesTyped, Typed, TypeOK
  <1>3. CASE EndCycle(s)
    BY <1>3, EndSets DEF EndCycle, CyclesTyped, Typed, TypeOK
  <1>4. CASE CheckLease(s)
    BY <1>4, CheckSets DEF CheckLease, CyclesTyped, Typed, TypeOK
  <1>5. CASE RecordLease(s)
    BY <1>5, RecordSets DEF RecordLease, CyclesTyped, Typed, TypeOK
  <1>6. CASE SaveLease(s)
    <2> DEFINE lease == [id |-> sched[s].id, expires |-> sched[s].now + LeaseSeconds]
    <2>1. Job(s) \in Jobs /\ lease \in Lease
      BY <1>1, <1>6, SchedulerAssumption DEF SaveLease, At, Sound, Job, Lease
    <2>2. file' \in Document
      BY <1>1, <1>6, <2>1, WithLeaseSets DEF SaveLease
    <2>3. CyclesTyped
      BY <1>6, EmptyTyped, CopySets DEF SaveLease, Saved, At, Within, Points, InCall
    <2>. QED
      BY <1>6, <2>2, <2>3 DEF SaveLease, CyclesTyped, Typed, TypeOK
  <1>7. CASE ConfirmLease(s)
    <2>1. CyclesTyped
      BY <1>7, SkipSets, GotoSets DEF ConfirmLease, At, Within, Points
    <2>2. begun' \in [Jobs -> 0 .. 2]
      BY <1>7 DEF ConfirmLease, Count, Typed, TypeOK
    <2>. QED
      BY <1>7, <2>1, <2>2 DEF ConfirmLease, CyclesTyped, Typed, TypeOK
  <1>8. CASE Dispatch(s)
    <2>1. \E point \in {"cycle", "backoff"} : Goto(s, point)
      BY <1>8 DEF Dispatch
    <2>2. CyclesTyped
      BY <1>8, <2>1, GotoSets DEF Dispatch, At, Within, Points
    <2>. QED
      BY <1>8, <2>2 DEF Dispatch, CyclesTyped, Typed, TypeOK
  <1>9. CASE RecordBackoff(s) \/ RecordCycle(s)
    <2>1. CyclesTyped
      BY <1>1, <1>9, GotoSets, CopySets DEF RecordBackoff, RecordCycle, Load, At, Within, Points, InCall
    <2>. QED
      BY <1>9, <2>1 DEF RecordBackoff, RecordCycle, CyclesTyped, Typed, TypeOK
  <1>10. CASE SaveBackoff(s)
    <2>1. Job(s) \in Jobs /\ sched[s].now + BackoffSeconds \in Nat
      BY <1>1, <1>10, SchedulerAssumption DEF SaveBackoff, At, Sound, Job
    <2>2. file' \in Document
      BY <1>1, <1>10, <2>1, WithBackoffSets DEF SaveBackoff
    <2>3. CyclesTyped
      BY <1>10, EmptyTyped, CopySets DEF SaveBackoff, Saved, At, Within, Points, InCall
    <2>. QED
      BY <1>10, <2>2, <2>3 DEF SaveBackoff, CyclesTyped, Typed, TypeOK
  <1>11. CASE SaveCycle(s)
    BY <1>1, <1>11, SkipSets DEF SaveCycle, CyclesTyped, Typed, TypeOK
  <1>. QED
    BY <1>2, <1>3, <1>4, <1>5, <1>6, <1>7, <1>8, <1>9, <1>10, <1>11 DEF Run

LEMMA StepTyped == Typed /\ [Next]_vars => Typed'
  <1> SUFFICES ASSUME Typed, [Next]_vars
               PROVE  Typed'
    OBVIOUS
  <1>1. CASE UNCHANGED vars
    BY <1>1 DEF vars, Typed, TypeOK
  <1>2. ASSUME NEW s \in Schedulers, Run(s)
        PROVE  Typed'
    BY <1>2, RunTyped
  <1>3. ASSUME NEW s \in Schedulers, Crash(s)
        PROVE  Typed'
    BY <1>3, EndSets, SchedulerAssumption DEF Crash, CyclesTyped, Typed, TypeOK
  <1>4. CASE Tick
    BY <1>4, SchedulerAssumption DEF Tick, Typed, TypeOK
  <1>. QED
    BY <1>1, <1>2, <1>3, <1>4 DEF Next

LEMMA InitTyped == Init => Typed
  BY IdleTyped, EmptyTyped, SchedulerAssumption DEF Init, Typed, TypeOK

\* Leases, backoffs and cycles are well-formed, whether or not store calls overlap.
THEOREM TypeCorrect == Spec => []TypeOK
  <1>1. Typed => TypeOK
    BY DEF Typed
  <1>. QED
    BY <1>1, InitTyped, StepTyped, PTL DEF Spec

-----------------------------------------------------------------------------

\* The lease of a job on record is that of the cycle of an instance.
Owns(s, j) == file.lease[j] # None /\ file.lease[j].id = sched[s].id

\* An instance owns at most the lease of its job, from its save on; what it saves
\* was read before nobody else saved; a job it dispatches had never been dispatched.
Good(s) ==
  /\ sched[s].at \in InCall => sched[s].snapshot = file
  /\ \A j \in Jobs : Owns(s, j) => j = Job(s) /\ sched[s].at \in Working \cup {"confirm"}
  /\ At(s, "save-lease") => file.lease[Job(s)] = None
  /\ At(s, "confirm") /\ Owns(s, Job(s)) => begun[Job(s)] = 0
  /\ sched[s].at \in Working => Owns(s, Job(s)) /\ begun[Job(s)] # 0
  /\ sched[s].at \in {"dispatch", "backoff", "save-backoff"} => file.backoff[Job(s)] = None

\* Two instances: one store call at a time, and identifiers of their own.
Apart(s, q) ==
  /\ sched[s].at \notin InCall \/ sched[q].at \notin InCall
  /\ sched[s].id # None => sched[s].id # sched[q].id

\* A job is dispatched once, under a lease, before it gets a backoff.
Once(j) ==
  /\ begun[j] \in 0 .. 1
  /\ begun[j] # 0 => file.lease[j] # None
  /\ file.backoff[j] # None => begun[j] # 0

Safe ==
  /\ Typed
  /\ \A s \in Schedulers : Good(s)
  /\ \A s, q \in Schedulers : s # q => Apart(s, q)
  /\ \A j \in Jobs : Once(j)

LEMMA SafeFacts ==
  ASSUME Safe, NEW s \in Schedulers
  PROVE  /\ Typed /\ Good(s) /\ sched[s] \in Cycle /\ Sound(sched[s])
         /\ sched[s].at \notin {"idle", "next"} => Job(s) \in Jobs
         /\ \A q \in Schedulers \ {s} : Good(q) /\ Apart(s, q) /\ Apart(q, s)
         /\ \A j \in Jobs : Once(j)
  BY CycleTyped DEF Safe, Sound, Job

\* A step that leaves the file and the dispatches as they are keeps the invariant if
\* the instance that takes it is still good and apart from the others.
LEMMA QuietStep ==
  ASSUME Safe, NEW s \in Schedulers, Typed', UNCHANGED <<file, begun>>,
         \A q \in Schedulers \ {s} : sched'[q] = sched[q],
         Good(s)',
         \A q \in Schedulers \ {s} :
           /\ sched'[s].at \in InCall => sched[q].at \notin InCall
           /\ sched'[s].id # None => sched'[s].id # sched[q].id
  PROVE  Safe'
  <1>1. \A q \in Schedulers \ {s} : Good(q)'
    BY DEF Safe, Good, Owns, At, Job
  <1>2. \A q, r \in Schedulers : q # r => Apart(q, r)'
    BY DEF Safe, Apart
  <1>3. \A j \in Jobs : Once(j)'
    BY DEF Safe, Once
  <1>. QED
    BY <1>1, <1>2, <1>3 DEF Safe

\* An instance without identifier that is in no store call is good.
LEMMA FreeGood ==
  ASSUME Safe, NEW s \in Schedulers, UNCHANGED file, Typed',
         sched'[s].at \in {"idle", "next", "lease"}, sched'[s].id = None
  PROVE  Good(s)'
  <1>1. \A j \in Jobs : file.lease[j] # None => file.lease[j].id # None
    BY SchedulerAssumption DEF Safe, Typed, TypeOK, Document, Lease
  <1>. QED
    BY <1>1 DEF Good, Owns, At, InCall, Working

LEMMA SafeRun ==
  ASSUME Serial, Safe, NEW s \in Schedulers, Run(s)
  PROVE  Safe'
  <1>1. Typed /\ Typed'
    BY RunTyped DEF Safe
  <1>2. CASE StartCycle(s) \/ EndCycle(s) \/ CheckLease(s)
    <2>1. /\ UNCHANGED <<file, begun>>
          /\ sched'[s].at \in {"idle", "next", "lease"} /\ sched'[s].id = None
          /\ \A q \in Schedulers \ {s} : sched'[q] = sched[q]
      BY <1>1, <1>2, StartSets, EndSets, CheckSets DEF StartCycle, EndCycle, CheckLease
    <2>2. Good(s)'
      BY <1>1, <2>1, FreeGood
    <2>. QED
      BY <1>1, <2>1, <2>2, QuietStep DEF InCall
  <1>3. CASE RecordLease(s)
    <2>1. /\ sched'[s].at = IF file.lease[Job(s)] = None THEN "save-lease" ELSE "confirm"
          /\ sched'[s].id = uuid4 /\ sched'[s].job = sched[s].job /\ sched'[s].snapshot = file
          /\ uuid4 \in FreshIds
          /\ \A q \in Schedulers \ {s} : sched'[q] = sched[q]
          /\ UNCHANGED <<file, begun>>
      BY <1>1, <1>3, RecordSets DEF RecordLease
    <2>2. /\ \A j \in Jobs : file.lease[j] # None => file.lease[j].id # uuid4
          /\ \A q \in Schedulers : sched[q].id # uuid4
      BY <2>1 DEF FreshIds
    <2>3. Job(s) \in Jobs
      BY <1>3, SafeFacts DEF RecordLease, At
    <2>4. Good(s)'
      BY <2>1, <2>2, <2>3 DEF Good, Owns, At, Job, InCall, Working
    <2>5. \A q \in Schedulers : sched[q].at \notin InCall
      BY <1>3 DEF RecordLease, MayCall
    <2>. QED
      BY <1>1, <2>1, <2>2, <2>4, <2>5, QuietStep
  <1>4. CASE SaveLease(s)
    <2> DEFINE lease == [id |-> sched[s].id, expires |-> sched[s].now + LeaseSeconds]
    <2>1. /\ sched[s].snapshot = file /\ file.lease[Job(s)] = None
          /\ Job(s) \in Jobs /\ sched[s].id \in LeaseIds /\ sched[s].now \in Nat
          /\ file \in Document
      BY <1>1, <1>4, SafeFacts, CycleTyped DEF SaveLease, At, Good, InCall, Sound
    <2>2. lease \in Lease /\ lease.id = sched[s].id
      BY <2>1, SchedulerAssumption DEF Lease
    <2>3. file' = WithLease(file, Job(s), lease)
      BY <1>4, <2>1 DEF SaveLease
    <2> HIDE DEF lease
    <2>4. /\ file'.backoff = file.backoff /\ file'.lease[Job(s)] = lease
          /\ \A k \in Jobs \ {Job(s)} : file'.lease[k] = file.lease[k]
      BY <2>1, <2>2, <2>3, WithLeaseSets
    <2>5. /\ sched'[s].at = "confirm" /\ sched'[s].job = sched[s].job /\ sched'[s].id = sched[s].id
          /\ \A q \in Schedulers \ {s} : sched'[q] = sched[q]
      BY <1>1, <1>4, EmptyTyped, CopySets DEF SaveLease, Saved, At, Within, Points, InCall
    <2>6. lease # None /\ sched[s].id # None
      BY <2>1, <2>2, SchedulerAssumption DEF Lease
    <2>7. begun' = begun /\ begun[Job(s)] = 0
      BY <1>4, <2>1, SafeFacts DEF SaveLease, Once
    <2>8. Good(s)'
      <3>1. \A j \in Jobs \ {Job(s)} : ~Owns(s, j)
        BY SafeFacts DEF Good
      <3>. QED
        BY <2>1, <2>2, <2>4, <2>5, <2>7, <3>1 DEF Good, Owns, At, Job, InCall, Working
    <2>9. ASSUME NEW q \in Schedulers \ {s}
          PROVE  Good(q)'
      <3>1. /\ Good(q) /\ sched[q].at \notin InCall /\ sched[q].id # sched[s].id
            /\ sched[q].at \in Working => Job(q) \in Jobs
        BY <1>4, <2>6, SafeFacts DEF Apart, SaveLease, At, InCall, Working
      <3>2. \A j \in Jobs : Owns(q, j)' <=> Owns(q, j)
        BY <2>1, <2>2, <2>4, <2>5, <3>1 DEF Owns
      <3>3. At(q, "confirm") => Job(q) \in Jobs
        BY SafeFacts DEF At
      <3>. QED
        BY <2>4, <2>5, <2>7, <3>1, <3>2, <3>3 DEF Good, At, Job, InCall
    <2>10. \A q, r \in Schedulers : q # r => Apart(q, r)'
      BY <2>5 DEF Safe, Apart, InCall
    <2>11. \A j \in Jobs : Once(j)'
      BY <2>1, <2>4, <2>6, <2>7 DEF Safe, Once
    <2>. QED
      BY <1>1, <2>8, <2>9, <2>10, <2>11 DEF Safe
  <1>5. CASE ConfirmLease(s)
    <2>1. Job(s) \in Jobs /\ file' = file /\ sched[s].at = "confirm"
      BY <1>5, SafeFacts DEF ConfirmLease, At
    <2>2. CASE Skip(s) /\ UNCHANGED begun
      <3>1. /\ sched'[s].at = "next" /\ sched'[s].id = None
            /\ \A q \in Schedulers \ {s} : sched'[q] = sched[q]
        BY <1>1, <2>2, SkipSets
      <3>. QED
        BY <1>1, <2>1, <2>2, <3>1, FreeGood, QuietStep DEF InCall
    <2>3. CASE Owns(s, Job(s)) /\ Goto(s, "dispatch") /\ begun' = [begun EXCEPT ![Job(s)] = Count(@)]
      <3>1. /\ sched'[s].at = "dispatch" /\ sched'[s].job = sched[s].job /\ sched'[s].id = sched[s].id
            /\ \A q \in Schedulers \ {s} : sched'[q] = sched[q]
        BY <1>1, <2>1, <2>3, GotoSets DEF Within, Points
      <3>2. begun[Job(s)] = 0 /\ sched[s].id # None
        BY <2>1, <2>3, SafeFacts, SchedulerAssumption DEF Good, At, Sound
      <3>3. begun'[Job(s)] = 1 /\ \A j \in Jobs \ {Job(s)} : begun'[j] = begun[j]
        BY <1>1, <2>1, <2>3, <3>2 DEF Count, Typed, TypeOK
      <3>4. file.backoff[Job(s)] = None
        BY <2>1, <3>2, SafeFacts DEF Once
      <3>5. Good(s)'
        BY <2>1, <2>3, <3>1, <3>3, <3>4, SafeFacts DEF Good, Owns, At, Job, InCall, Working
      <3>6. ASSUME NEW q \in Schedulers \ {s}
            PROVE  Good(q)'
        <4>1. Good(q) /\ ~Owns(q, Job(s))
          BY <2>3, <3>2, SafeFacts DEF Apart, Owns
        <4>2. \A j \in Jobs : Owns(q, j)' <=> Owns(q, j)
          BY <2>1, <3>1 DEF Owns
        <4>3. sched[q].at \in Working \cup {"confirm"} => Job(q) \in Jobs
          BY SafeFacts DEF Working
        <4>. QED
          BY <2>1, <3>1, <3>3, <4>1, <4>2, <4>3 DEF Good, At, Job, Working
      <3>7. \A q, r \in Schedulers : q # r => Apart(q, r)'
        BY <3>1 DEF Safe, Apart, InCall
      <3>8. \A j \in Jobs : Once(j)'
        BY <2>1, <2>3, <3>3 DEF Safe, Once, Owns
      <3>. QED
        BY <1>1, <3>5, <3>6, <3>7, <3>8 DEF Safe
    <2>. QED
      BY <1>5, <2>2, <2>3 DEF ConfirmLease, Owns
  <1>6. CASE Dispatch(s)
    <2>1. \E point \in {"cycle", "backoff"} : Goto(s, point)
      BY <1>6 DEF Dispatch
    <2>2. /\ sched'[s].at \in {"cycle", "backoff"}
          /\ sched'[s].job = sched[s].job /\ sched'[s].id = sched[s].id
          /\ \A q \in Schedulers \ {s} : sched'[q] = sched[q]
          /\ UNCHANGED <<file, begun>> /\ sched[s].at = "dispatch"
      BY <1>1, <1>6, <2>1, GotoSets DEF Dispatch, At, Within, Points
    <2>3. Good(s)'
      BY <2>2, SafeFacts DEF Good, Owns, At, Job, InCall, Working
    <2>. QED
      BY <1>1, <2>2, <2>3, SafeFacts, QuietStep DEF InCall, Apart
  <1>7. CASE RecordBackoff(s) \/ RecordCycle(s)
    <2>1. /\ UNCHANGED <<file, begun>>
          /\ \A q \in Schedulers : sched[q].at \notin InCall
          /\ sched[s].at \in {"backoff", "cycle"}
      BY <1>7 DEF RecordBackoff, RecordCycle, Load, MayCall, At
    <2>2. /\ sched'[s].job = sched[s].job /\ sched'[s].id = sched[s].id
          /\ \A q \in Schedulers \ {s} : sched'[q] = sched[q]
          /\ \/ sched'[s].at = "cycle"
             \/ sched'[s].at = "save-cycle" /\ sched'[s].snapshot = file
             \/ sched'[s].at = "save-backoff" /\ sched'[s].snapshot = file /\ At(s, "backoff")
      <3>1. CASE Goto(s, "cycle")
        BY <1>1, <2>1, <3>1, GotoSets DEF Within, Points
      <3>2. CASE At(s, "backoff") /\ Load(s, "save-backoff")
        BY <1>1, <2>1, <3>2, CycleTyped, CopySets DEF Load, Within, Points, InCall
      <3>3. CASE Load(s, "save-cycle")
        BY <1>1, <2>1, <3>3, CycleTyped, CopySets DEF Load, Within, Points, InCall
      <3>. QED
        BY <1>7, <3>1, <3>2, <3>3 DEF RecordBackoff, RecordCycle
    <2>3. Good(s)'
      BY <2>1, <2>2, SafeFacts DEF Good, Owns, At, Job, InCall, Working
    <2>. QED
      BY <1>1, <2>1, <2>2, <2>3, SafeFacts, QuietStep DEF Apart
  <1>8. CASE SaveBackoff(s)
    <2> DEFINE until == sched[s].now + BackoffSeconds
    <2>1. /\ sched[s].snapshot = file /\ Owns(s, Job(s)) /\ begun[Job(s)] # 0
          /\ Job(s) \in Jobs /\ until \in Nat /\ file \in Document /\ sched[s].id # None
          /\ sched[s].at = "save-backoff"
      BY <1>1, <1>8, SafeFacts, CycleTyped, SchedulerAssumption
      DEF SaveBackoff, At, Good, InCall, Working, Sound
    <2>2. file' = WithBackoff(file, Job(s), until)
      BY <1>8, <2>1 DEF SaveBackoff
    <2> HIDE DEF until
    <2>3. /\ file'.lease = file.lease
          /\ \A k \in Jobs \ {Job(s)} : file'.backoff[k] = file.backoff[k]
      BY <2>1, <2>2, WithBackoffSets
    <2>4. /\ sched'[s].at = "cycle" /\ sched'[s].job = sched[s].job /\ sched'[s].id = sched[s].id
          /\ \A q \in Schedulers \ {s} : sched'[q] = sched[q]
          /\ begun' = begun
      BY <1>1, <1>8, EmptyTyped, CopySets DEF SaveBackoff, Saved, At, Within, Points, InCall
    <2>5. Good(s)'
      BY <2>1, <2>3, <2>4, SafeFacts DEF Good, Owns, At, Job, InCall, Working
    <2>6. ASSUME NEW q \in Schedulers \ {s}
          PROVE  Good(q)'
      <3>1. Good(q) /\ ~Owns(q, Job(s)) /\ sched[q].at \notin InCall
        BY <2>1, SafeFacts DEF Apart, Owns, InCall
      <3>2. \A j \in Jobs : Owns(q, j)' <=> Owns(q, j)
        BY <2>3, <2>4 DEF Owns
      <3>3. sched[q].at \in Working \cup {"confirm"} => Job(q) \in Jobs
        BY SafeFacts DEF Working
      <3>. QED
        BY <2>3, <2>4, <3>1, <3>2, <3>3 DEF Good, At, Job, Working, InCall
    <2>7. \A q, r \in Schedulers : q # r => Apart(q, r)'
      BY <2>4 DEF Safe, Apart, InCall
    <2>8. \A j \in Jobs : Once(j)'
      BY <2>1, <2>3, <2>4 DEF Safe, Once
    <2>. QED
      BY <1>1, <2>5, <2>6, <2>7, <2>8 DEF Safe
  <1>9. CASE SaveCycle(s)
    <2>1. file' = file /\ begun' = begun
      BY <1>9, SafeFacts DEF SaveCycle, At, Good, InCall
    <2>2. /\ sched'[s].at = "next" /\ sched'[s].id = None
          /\ \A q \in Schedulers \ {s} : sched'[q] = sched[q]
      BY <1>1, <1>9, SkipSets DEF SaveCycle
    <2>. QED
      BY <1>1, <2>1, <2>2, FreeGood, QuietStep DEF InCall
  <1>. QED
    BY <1>2, <1>3, <1>4, <1>5, <1>6, <1>7, <1>8, <1>9 DEF Run

LEMMA SafeStep ==
  ASSUME Serial
  PROVE  Safe /\ [Next]_vars => Safe'
  <1> SUFFICES ASSUME Safe, [Next]_vars
               PROVE  Safe'
    OBVIOUS
  <1>1. Typed /\ Typed'
    BY StepTyped DEF Safe
  <1>2. CASE UNCHANGED vars \/ Tick
    BY <1>1, <1>2 DEF vars, Tick, Safe, Good, Apart, Once, Owns, At, Job
  <1>3. ASSUME NEW s \in Schedulers, Run(s)
        PROVE  Safe'
    BY <1>3, SafeRun
  <1>4. ASSUME NEW s \in Schedulers, Crash(s)
        PROVE  Safe'
    <2>1. /\ sched'[s].at = "idle" /\ sched'[s].id = None
          /\ \A q \in Schedulers \ {s} : sched'[q] = sched[q]
          /\ UNCHANGED <<file, begun>>
      BY <1>1, <1>4, EndSets DEF Crash
    <2>. QED
      BY <1>1, <2>1, FreeGood, QuietStep DEF InCall
  <1>. QED
    BY <1>2, <1>3, <1>4 DEF Next

LEMMA InitSafe == Init => Safe
  BY InitTyped DEF Init, Safe, Good, Apart, Once, Owns, At, Job, Idle, Empty, InCall, Working

LEMMA SafeAlways == ASSUME Serial PROVE Spec => []Safe
  BY InitSafe, SafeStep, PTL DEF Spec

\* No job is dispatched twice, whoever crashes and whatever expires.
THEOREM DispatchedAtMostOnce == ASSUME Serial PROVE Spec => []DispatchedOnce
  <1>1. Safe => DispatchedOnce
    BY DEF Safe, Once, DispatchedOnce
  <1>. QED
    BY <1>1, SafeAlways, PTL

\* From its dispatch to its record a job is under the lease of the instance that
\* dispatched it.
THEOREM LeaseHeld == ASSUME Serial PROVE Spec => []DispatchesUnderLease
  <1>1. Safe => DispatchesUnderLease
    BY DEF Safe, Good, Owns, Working, DispatchesUnderLease
  <1>. QED
    BY <1>1, SafeAlways, PTL

\* The backoff of a job is free when a dispatch of it fails.
THEOREM BackoffIsFree == ASSUME Serial PROVE Spec => []FailureGetsBackoff
  <1>1. Safe => FailureGetsBackoff
    BY DEF Safe, Good, At, FailureGetsBackoff
  <1>. QED
    BY <1>1, SafeAlways, PTL

-----------------------------------------------------------------------------
(* What no step does to a lease on record.                                 *)

\* A step of an instance is about no other, and its identifier is one it had or a
\* fresh one.
LEMMA IdsKept ==
  ASSUME Safe, NEW s \in Schedulers, Run(s) \/ Crash(s)
  PROVE  /\ sched'[s].id \in {None, sched[s].id} \cup FreshIds
         /\ \A q \in Schedulers \ {s} : sched'[q] = sched[q]
  <1>1. Typed
    BY DEF Safe
  <1>2. CASE StartCycle(s) \/ EndCycle(s) \/ CheckLease(s) \/ SaveCycle(s) \/ Crash(s)
    BY <1>1, <1>2, StartSets, EndSets, CheckSets, SkipSets DEF EndCycle, SaveCycle, Crash
  <1>3. CASE RecordLease(s)
    BY <1>1, <1>3, RecordSets
  <1>4. CASE SaveLease(s) \/ SaveBackoff(s)
    BY <1>1, <1>4, EmptyTyped, CopySets
    DEF SaveLease, SaveBackoff, Saved, At, Within, Points, InCall
  <1>5. CASE ConfirmLease(s)
    BY <1>1, <1>5, SkipSets, GotoSets DEF ConfirmLease, At, Within, Points
  <1>6. CASE Dispatch(s)
    <2>1. \E point \in {"cycle", "backoff"} : Goto(s, point)
      BY <1>6 DEF Dispatch
    <2>. QED
      BY <1>1, <1>6, <2>1, GotoSets DEF Dispatch, At, Within, Points
  <1>7. CASE RecordBackoff(s) \/ RecordCycle(s)
    BY <1>1, <1>7, CycleTyped, GotoSets, CopySets
    DEF RecordBackoff, RecordCycle, Load, At, Within, Points, InCall
  <1>. QED
    BY <1>2, <1>3, <1>4, <1>5, <1>6, <1>7 DEF Run

\* A lease is saved where there was none, over the document it was read from.
LEMMA LeaseKept ==
  ASSUME Safe, NEW s \in Schedulers, Run(s), NEW j \in Jobs, file.lease[j] # None
  PROVE  file'.lease[j] = file.lease[j]
  <1>1. Typed
    BY DEF Safe
  <1>2. CASE SaveLease(s)
    <2> DEFINE lease == [id |-> sched[s].id, expires |-> sched[s].now + LeaseSeconds]
    <2>1. /\ sched[s].snapshot = file /\ file.lease[Job(s)] = None /\ file \in Document
          /\ Job(s) \in Jobs /\ sched[s].id \in LeaseIds /\ sched[s].now \in Nat
      BY <1>1, <1>2, SafeFacts, CycleTyped DEF SaveLease, At, Good, InCall, Sound
    <2>2. lease \in Lease
      BY <2>1, SchedulerAssumption DEF Lease
    <2>3. file' = WithLease(file, Job(s), lease)
      BY <1>2, <2>1 DEF SaveLease
    <2> HIDE DEF lease
    <2>. QED
      BY <2>1, <2>2, <2>3, WithLeaseSets
  <1>3. CASE SaveBackoff(s)
    <2>1. /\ sched[s].snapshot = file /\ file \in Document /\ Job(s) \in Jobs
          /\ sched[s].now + BackoffSeconds \in Nat
      BY <1>1, <1>3, SafeFacts, CycleTyped, SchedulerAssumption
      DEF SaveBackoff, At, Good, InCall
    <2>2. file' = WithBackoff(file, Job(s), sched[s].now + BackoffSeconds)
      BY <1>3, <2>1 DEF SaveBackoff
    <2>. QED
      BY <2>1, <2>2, WithBackoffSets
  <1>4. CASE SaveCycle(s)
    BY <1>4, SafeFacts DEF SaveCycle, At, Good, InCall
  <1>. QED
    BY <1>2, <1>3, <1>4
    DEF Run, StartCycle, EndCycle, CheckLease, RecordLease, ConfirmLease, Dispatch,
        RecordBackoff, RecordCycle

\* Only who owns the lease of a job dispatches it, and only a dispatch ends it.
LEMMA OwnersDispatch ==
  ASSUME Safe, NEW s \in Schedulers, Run(s), NEW j \in Jobs, ~Owns(s, j)
  PROVE  begun'[j] = begun[j] /\ (j \in live' <=> j \in live)
  <1>1. begun \in [Jobs -> 0 .. 2]
    BY DEF Safe, Typed, TypeOK
  <1>2. CASE ConfirmLease(s)
    BY <1>1, <1>2 DEF ConfirmLease, Owns
  <1>3. CASE Dispatch(s)
    <2>1. Owns(s, Job(s))
      BY <1>3, SafeFacts DEF Dispatch, At, Good, Working
    <2>. QED
      BY <1>3, <2>1 DEF Dispatch
  <1>. QED
    BY <1>2, <1>3
    DEF Run, StartCycle, EndCycle, CheckLease, RecordLease, SaveLease,
        RecordBackoff, SaveBackoff, RecordCycle, SaveCycle

\* What a lease and its job are to one step.
Forsaken(j) ==
  /\ file.lease[j] # None => file'.lease[j] = file.lease[j]
  /\ Abandoned(j) =>
       /\ \A s \in Schedulers : sched'[s].id # file.lease[j].id
       /\ begun'[j] = begun[j]
       /\ j \in live' <=> j \in live

LEMMA StepForsakes ==
  ASSUME Safe, [Next]_vars, NEW j \in Jobs
  PROVE  Forsaken(j)
  <1>1. CASE UNCHANGED vars \/ Tick
    BY <1>1 DEF vars, Tick, Forsaken, Abandoned
  <1>2. ASSUME NEW s \in Schedulers, Run(s) \/ Crash(s)
        PROVE  Forsaken(j)
    <2>1. file.lease[j] # None => file'.lease[j] = file.lease[j]
      BY <1>2, LeaseKept DEF Crash
    <2>2. ASSUME Abandoned(j), NEW q \in Schedulers
          PROVE  sched'[q].id # file.lease[j].id
      <3>1. file.lease[j] # None /\ sched[q].id # file.lease[j].id /\ sched[s].id # file.lease[j].id
        BY <2>2 DEF Abandoned
      <3>2. file.lease[j].id # None
        BY <3>1, SchedulerAssumption DEF Safe, Typed, TypeOK, Document, Lease
      <3>3. file.lease[j].id \notin FreshIds
        BY <3>1 DEF FreshIds
      <3>. QED
        BY <1>2, <3>1, <3>2, <3>3, IdsKept
    <2>3. ASSUME Abandoned(j)
          PROVE  begun'[j] = begun[j] /\ (j \in live' <=> j \in live)
      BY <1>2, <2>3, OwnersDispatch DEF Abandoned, Owns, Crash
    <2>. QED
      BY <2>1, <2>2, <2>3 DEF Forsaken
  <1>. QED
    BY <1>1, <1>2 DEF Next

\* A lease is never replaced or lifted, and a job whose holder died with the lease
\* is never leased or dispatched again.
THEOREM AbandonedStays == ASSUME Serial PROVE Spec => AbandonedForGood
  <1>1. ASSUME Safe, [Next]_vars
        PROVE  \A j \in Jobs : Forsaken(j)
    BY <1>1, StepForsakes
  <1>2. Spec => [][\A j \in Jobs : Forsaken(j)]_vars
    BY <1>1, SafeAlways, PTL DEF Spec
  <1>. QED
    BY <1>2 DEF Forsaken, AbandonedForGood
-----------------------------------------------------------------------------
(* How many jobs a cycle has.                                              *)

\* Of a set of jobs, those created before a given one.
Earlier(j, jobs) == {k \in jobs : Created[k] < Created[j]}

LEMMA EarlierIsLess ==
  ASSUME NEW jobs \in SUBSET Jobs, NEW i \in jobs, NEW j \in jobs, Created[i] < Created[j]
  PROVE  Cardinality(Earlier(i, jobs)) # Cardinality(Earlier(j, jobs))
  <1>1. IsFiniteSet(jobs) /\ \A k \in jobs : Created[k] \in Nat
    BY SchedulerAssumption, FS_Subset
  <1>2. IsFiniteSet(Earlier(j, jobs))
    BY <1>1, FS_Subset DEF Earlier
  <1>3. Earlier(i, jobs) \subseteq Earlier(j, jobs)
    BY <1>1 DEF Earlier
  <1>4. i \in Earlier(j, jobs) /\ i \notin Earlier(i, jobs)
    BY <1>1 DEF Earlier
  <1>. QED
    BY <1>2, <1>3, <1>4, FS_Subset

\* The first n of a set of jobs are at most n: no two of them have as many before them.
LEMMA FirstIsBounded ==
  ASSUME NEW n \in Nat, NEW jobs \in SUBSET Jobs
  PROVE  IsFiniteSet(First(n, jobs)) /\ Cardinality(First(n, jobs)) <= n
  <1> DEFINE rank == [j \in First(n, jobs) |-> Cardinality(Earlier(j, jobs))]
             ranks == 0 .. (n - 1)
  <1>1. \A j \in First(n, jobs) : j \in jobs /\ rank[j] < n
    BY DEF First, Earlier
  <1>2. IsFiniteSet(jobs)
    BY SchedulerAssumption, FS_Subset
  <1>3. ASSUME NEW j \in First(n, jobs)
        PROVE  rank[j] \in ranks
    <2>1. IsFiniteSet(Earlier(j, jobs))
      BY <1>2, FS_Subset DEF Earlier
    <2>2. rank[j] \in Nat
      BY <2>1, FS_CardinalityType
    <2>. QED
      BY <1>1, <2>2
  <1>4. ASSUME NEW i \in First(n, jobs), NEW j \in First(n, jobs), i # j
        PROVE  rank[i] # rank[j]
    <2>1. i \in jobs /\ j \in jobs
      BY <1>1
    <2>2. Created[i] < Created[j] \/ Created[j] < Created[i]
      BY <1>4, <2>1, SchedulerAssumption
    <2>. QED
      BY <2>1, <2>2, EarlierIsLess
  <1>5. rank \in Injection(First(n, jobs), ranks)
    <2>1. rank \in [First(n, jobs) -> ranks]
      BY <1>3
    <2>. QED
      BY <2>1, <1>4 DEF Injection, IsInjective
  <1>6. IsFiniteSet(ranks) /\ Cardinality(ranks) = n
    BY FS_Interval
  <1> HIDE DEF rank, ranks
  <1>. QED
    BY <1>5, <1>6, FS_Injection

\* But for the step that begins a cycle, what an instance has in hand only shrinks.
LEMMA HandShrinks ==
  ASSUME Typed, NEW s \in Schedulers, Run(s) \/ Crash(s), ~StartCycle(s)
  PROVE  InHand(s)' \subseteq InHand(s) /\ \A q \in Schedulers \ {s} : sched'[q] = sched[q]
  <1>1. CASE EndCycle(s) \/ SaveCycle(s) \/ Crash(s)
    BY <1>1, EndSets, SkipSets DEF EndCycle, SaveCycle, Crash, InHand, Job
  <1>2. CASE CheckLease(s)
    BY <1>2, CheckSets
  <1>3. CASE RecordLease(s)
    BY <1>3, RecordSets DEF InHand, Job
  <1>4. CASE SaveLease(s) \/ SaveBackoff(s)
    BY <1>4, EmptyTyped, CopySets
    DEF SaveLease, SaveBackoff, Saved, At, Within, Points, InCall, InHand, Job
  <1>5. CASE ConfirmLease(s)
    BY <1>5, SkipSets, GotoSets DEF ConfirmLease, At, Within, Points, InHand, Job
  <1>6. CASE Dispatch(s)
    <2>1. \E point \in {"cycle", "backoff"} : Goto(s, point)
      BY <1>6 DEF Dispatch
    <2>. QED
      BY <1>6, <2>1, GotoSets DEF Dispatch, At, Within, Points, InHand, Job
  <1>7. CASE RecordBackoff(s) \/ RecordCycle(s)
    BY <1>7, CycleTyped, GotoSets, CopySets
    DEF RecordBackoff, RecordCycle, Load, At, Within, Points, InCall, InHand, Job
  <1>. QED
    BY <1>1, <1>2, <1>3, <1>4, <1>5, <1>6, <1>7 DEF Run

\* What a cycle has in hand is within the limit.
Bounded(s) == IsFiniteSet(InHand(s)) /\ Cardinality(InHand(s)) <= Limit

LEMMA BoundedStep ==
  ASSUME Typed, [Next]_vars, \A s \in Schedulers : Bounded(s), NEW q \in Schedulers
  PROVE  Bounded(q)'
  <1>1. Limit \in Nat
    BY SchedulerAssumption
  <1>2. CASE UNCHANGED vars \/ Tick
    BY <1>2 DEF vars, Tick, Bounded, InHand, Job
  <1>3. ASSUME NEW s \in Schedulers, StartCycle(s)
        PROVE  Bounded(q)'
    <2>1. Eligible \in SUBSET Jobs
      BY DEF Eligible, Typed, TypeOK
    <2>2. InHand(s)' = First(Limit, Eligible)
      BY <1>3, StartSets DEF InHand, Job
    <2>3. Bounded(s)'
      BY <1>1, <2>1, <2>2, FirstIsBounded DEF Bounded
    <2>4. \A r \in Schedulers \ {s} : sched'[r] = sched[r]
      BY <1>3, StartSets
    <2>. QED
      BY <2>3, <2>4 DEF Bounded, InHand, Job
  <1>4. ASSUME NEW s \in Schedulers, Run(s) \/ Crash(s), ~StartCycle(s)
        PROVE  Bounded(q)'
    <2>1. InHand(s)' \in SUBSET InHand(s) /\ \A r \in Schedulers \ {s} : sched'[r] = sched[r]
      BY <1>4, HandShrinks
    <2>2. /\ IsFiniteSet(InHand(s)')
          /\ Cardinality(InHand(s)') <= Cardinality(InHand(s)) /\ Cardinality(InHand(s)) <= Limit
          /\ Cardinality(InHand(s)') \in Nat /\ Cardinality(InHand(s)) \in Nat
      BY <2>1, FS_Subset, FS_CardinalityType DEF Bounded
    <2>3. Bounded(s)'
      BY <1>1, <2>2 DEF Bounded
    <2>. QED
      BY <2>1, <2>3 DEF Bounded, InHand, Job
  <1>. QED
    BY <1>2, <1>3, <1>4 DEF Next

LEMMA InitBounded ==
  ASSUME Init, NEW s \in Schedulers
  PROVE  Bounded(s)
  <1>1. InHand(s) = {}
    BY DEF Init, InHand, Job, Idle
  <1>. QED
    BY <1>1, FS_EmptySet, SchedulerAssumption DEF Bounded

\* No cycle ever has more jobs in hand than one cycle may dispatch, even when store
\* calls overlap.
THEOREM CyclesBounded == Spec => []CycleIsBounded
  <1> DEFINE Inv == Typed /\ \A s \in Schedulers : Bounded(s)
  <1>1. Init => Inv
    BY InitTyped, InitBounded
  <1>2. Inv /\ [Next]_vars => Inv'
    BY StepTyped, BoundedStep
  <1>3. Inv => CycleIsBounded
    BY DEF CycleIsBounded, Bounded
  <1>. QED
    BY <1>1, <1>2, <1>3, PTL DEF Spec
=============================================================================
