--------------------------- MODULE JobStoreProofs ---------------------------
(***************************************************************************)
(* Proofs about JobStore for any processes, jobs, operations and payloads. *)
(***************************************************************************)
EXTENDS JobStore, FiniteSetTheorems, TLAPS

(* A document that extends another by one event.                           *)
Grown(doc, new, e) ==
  /\ doc \in Document
  /\ new \in Document
  /\ e \in Event
  /\ new.events = Append(doc.events, e)

LEMMA GrownEvents ==
  ASSUME NEW doc, NEW new, NEW e, Grown(doc, new, e)
  PROVE  LET n == Len(doc.events) + 1 IN
         /\ n \in Nat
         /\ DOMAIN new.events = DOMAIN doc.events \cup {n}
         /\ \A i \in DOMAIN doc.events :
              i \in Nat /\ i < n /\ new.events[i] = doc.events[i]
         /\ new.events[n] = e
<1>1. doc.events \in Seq(Event)
  BY DEF Grown, Document
<1>2. Len(doc.events) \in Nat /\ DOMAIN doc.events = 1 .. Len(doc.events)
  BY <1>1
<1>3. DOMAIN new.events = 1 .. Len(doc.events) + 1
  BY <1>1 DEF Grown
<1>4. \A i \in DOMAIN doc.events : new.events[i] = doc.events[i]
  BY <1>1, <1>2 DEF Grown
<1>5. new.events[Len(doc.events) + 1] = e
  BY <1>1, <1>2 DEF Grown
<1> QED
  BY <1>2, <1>3, <1>4, <1>5

LEMMA GrownSteps ==
  ASSUME NEW doc, NEW new, NEW e, Grown(doc, new, e), NEW j
  PROVE  LET n == Len(doc.events) + 1 IN
         Steps(new, j) =
           Steps(doc, j) \cup (IF e.job = j /\ IsLifecycle(e) THEN {n} ELSE {})
<1> DEFINE n == Len(doc.events) + 1
<1>1. /\ n \in Nat
      /\ DOMAIN new.events = DOMAIN doc.events \cup {n}
      /\ \A i \in DOMAIN doc.events :
           i \in Nat /\ i < n /\ new.events[i] = doc.events[i]
      /\ new.events[n] = e
  BY GrownEvents
<1> HIDE DEF n
<1>2. \A i : i \in Steps(new, j) <=>
               i \in Steps(doc, j) \/ (i = n /\ e.job = j /\ IsLifecycle(e))
  BY <1>1 DEF Steps, IsLifecycle
<1> QED
  BY <1>2 DEF n

(* Logging the event of an operation that was not recorded before.         *)
LEMMA LogKeepsOneEvent ==
  ASSUME NEW doc, NEW new, NEW e, Grown(doc, new, e),
         OneEventPerOperation(doc), ~Recorded(doc, e.op),
         new.operations = [doc.operations EXCEPT ![e.op] = e.job]
  PROVE  OneEventPerOperation(new)
<1> DEFINE n == Len(doc.events) + 1
<1>1. /\ n \in Nat
      /\ DOMAIN new.events = DOMAIN doc.events \cup {n}
      /\ \A i \in DOMAIN doc.events :
           i \in Nat /\ i < n /\ new.events[i] = doc.events[i]
      /\ new.events[n] = e
  BY GrownEvents
<1> HIDE DEF n
<1>2. /\ e.op \in OpIds /\ e.job \in JobIds
      /\ doc.operations \in [OpIds -> JobIds \cup {None}]
      /\ \A i \in DOMAIN doc.events : doc.events[i].job \in JobIds
  <2>1. \A i \in DOMAIN doc.events : doc.events[i] \in Event
    BY DEF Grown, Document
  <2> QED BY <2>1 DEF Grown, Document, Event
<1>3. \A i \in DOMAIN doc.events : doc.events[i].op # e.op
  BY <1>2, StoreAssumption DEF OneEventPerOperation, Recorded
<1>4. \A i, k \in DOMAIN new.events : new.events[i].op = new.events[k].op => i = k
  BY <1>1, <1>3 DEF OneEventPerOperation
<1>5. \A i \in DOMAIN new.events :
        new.operations[new.events[i].op] = new.events[i].job
  BY <1>1, <1>2, <1>3 DEF OneEventPerOperation
<1>6. \A o \in OpIds :
        Recorded(new, o) => \E i \in DOMAIN new.events : new.events[i].op = o
  <2> SUFFICES ASSUME NEW o \in OpIds, Recorded(new, o)
               PROVE  \E i \in DOMAIN new.events : new.events[i].op = o
    OBVIOUS
  <2>1. CASE o = e.op
    BY <2>1, <1>1
  <2>2. CASE o # e.op
    <3>1. Recorded(doc, o)
      BY <2>2, <1>2 DEF Recorded
    <3>2. PICK i \in DOMAIN doc.events : doc.events[i].op = o
      BY <3>1 DEF OneEventPerOperation
    <3> QED BY <3>2, <1>1
  <2> QED BY <2>1, <2>2
<1> QED
  BY <1>4, <1>5, <1>6 DEF OneEventPerOperation

LEMMA AllowedAreStates ==
  \A s \in JobState : ALLOWED_TRANSITIONS[s] \subseteq JobState
BY DEF ALLOWED_TRANSITIONS, JobState, TERMINAL_STATES, Exits

(* The lifecycle events of a job whose log did not change.                 *)
LEMMA SameStepsSameTrail ==
  ASSUME NEW doc, NEW new, NEW j,
         Steps(new, j) = Steps(doc, j),
         \A i \in Steps(doc, j) : new.events[i] = doc.events[i],
         new.jobs[j] = doc.jobs[j],
         NEW i \in Steps(doc, j), StepExplained(doc, j, i)
  PROVE  StepExplained(new, j, i)
BY DEF StepExplained, First, Last, Follows

(* Creating a job: its log was empty, and now starts at "queued".          *)
LEMMA CreatedKeepsTrail ==
  ASSUME NEW doc, NEW new, NEW e, Grown(doc, new, e),
         AuditTrailExplainsState(doc),
         e.type = "created", e.to = "queued", ~Known(doc, e.job),
         new.jobs = [doc.jobs EXCEPT ![e.job] = NewJob]
  PROVE  AuditTrailExplainsState(new)
<1> DEFINE n == Len(doc.events) + 1
<1>1. /\ n \in Nat
      /\ \A i \in DOMAIN doc.events :
           i \in Nat /\ i < n /\ new.events[i] = doc.events[i]
      /\ new.events[n] = e
  BY GrownEvents
<1>2. \A j : Steps(new, j) = Steps(doc, j) \cup (IF e.job = j THEN {n} ELSE {})
  BY GrownSteps DEF IsLifecycle
<1> HIDE DEF n
<1>3. e.job \in JobIds /\ doc.jobs \in [JobIds -> Job \cup {None}]
  BY DEF Grown, Document, Event
<1>4. NewJob # None /\ NewJob.state = "queued"
  BY StoreAssumption DEF NewJob, Job, JobState
<1>5. Steps(doc, e.job) = {}
  BY <1>3 DEF AuditTrailExplainsState
<1> SUFFICES ASSUME NEW j \in JobIds
             PROVE  /\ Known(new, j) <=> Steps(new, j) # {}
                    /\ \A i \in Steps(new, j) : StepExplained(new, j, i)
  BY DEF AuditTrailExplainsState
<1>6. CASE j = e.job
  <2>1. Steps(new, j) = {n} /\ Known(new, j) /\ new.jobs[j].state = "queued"
    BY <1>2, <1>3, <1>4, <1>5, <1>6 DEF Known
  <2> QED BY <2>1, <1>1 DEF StepExplained, First, Last, Follows
<1>7. CASE j # e.job
  <2>1. Steps(new, j) = Steps(doc, j) /\ new.jobs[j] = doc.jobs[j]
    BY <1>2, <1>3, <1>7
  <2>2. \A i \in Steps(doc, j) : new.events[i] = doc.events[i]
    BY <1>1 DEF Steps
  <2>3. \A i \in Steps(doc, j) : StepExplained(new, j, i)
    BY <2>1, <2>2, SameStepsSameTrail DEF AuditTrailExplainsState
  <2> QED BY <2>1, <2>3 DEF AuditTrailExplainsState, Known
<1> QED BY <1>6, <1>7

(* Moving a job: the new event continues the chain at the logged state.    *)
LEMMA MovedKeepsTrail ==
  ASSUME NEW doc, NEW new, NEW e, Grown(doc, new, e),
         AuditTrailExplainsState(doc),
         e.type = "transitioned", Known(doc, e.job),
         e.from = doc.jobs[e.job].state,
         e.to \in ALLOWED_TRANSITIONS[e.from],
         new.jobs = [doc.jobs EXCEPT ![e.job] = Transitioned(doc.jobs[e.job], e.to)]
  PROVE  AuditTrailExplainsState(new)
<1> DEFINE n == Len(doc.events) + 1
<1>1. /\ n \in Nat
      /\ \A i \in DOMAIN doc.events :
           i \in Nat /\ i < n /\ new.events[i] = doc.events[i]
      /\ new.events[n] = e
  BY GrownEvents
<1>2. \A j : Steps(new, j) = Steps(doc, j) \cup (IF e.job = j THEN {n} ELSE {})
  BY GrownSteps DEF IsLifecycle
<1> HIDE DEF n
<1>3. e.job \in JobIds /\ doc.jobs \in [JobIds -> Job \cup {None}]
  BY DEF Grown, Document, Event
<1>4. new.jobs[e.job].state = e.to /\ Known(new, e.job)
  <2>1. doc.jobs[e.job] \in Job
    BY <1>3 DEF Known
  <2>2. e.to \in JobState
    BY <2>1, AllowedAreStates DEF Job
  <2>3. Transitioned(doc.jobs[e.job], e.to) \in Job
    BY <2>1, <2>2 DEF Transitioned, Job
  <2> QED BY <1>3, <2>3, StoreAssumption DEF Transitioned, Known
<1>5. Steps(doc, e.job) # {}
  BY <1>3 DEF AuditTrailExplainsState
<1> SUFFICES ASSUME NEW j \in JobIds
             PROVE  /\ Known(new, j) <=> Steps(new, j) # {}
                    /\ \A i \in Steps(new, j) : StepExplained(new, j, i)
  BY DEF AuditTrailExplainsState
<1>6. \A i \in Steps(doc, j) : i \in Nat /\ i < n /\ new.events[i] = doc.events[i]
  BY <1>1 DEF Steps
<1>7. CASE j = e.job
  <2>1. Steps(new, j) = Steps(doc, j) \cup {n}
    BY <1>2, <1>7
  <2>2. Known(new, j) /\ Steps(new, j) # {}
    BY <2>1, <1>4, <1>7
  <2>3. ASSUME NEW i \in Steps(doc, j)
        PROVE  StepExplained(new, j, i)
    <3>1. StepExplained(doc, j, i)
      BY <2>3 DEF AuditTrailExplainsState
    <3>2. First(new, j, i) <=> First(doc, j, i)
      BY <2>1, <1>6, <1>1 DEF First
    <3>3. ~Last(new, j, i)
      BY <2>1, <1>6, <1>1 DEF Last
    <3>4. \A k \in Steps(new, j) :
            Follows(new, j, k, i) => k \in Steps(doc, j) /\ Follows(doc, j, k, i)
      BY <2>1, <1>6, <1>1 DEF Follows
    <3> QED BY <3>1, <3>2, <3>3, <3>4, <1>6 DEF StepExplained
  <2>4. StepExplained(new, j, n)
    <3>1. ~First(new, j, n)
      BY <1>5, <1>6, <1>7, <2>1, <1>1 DEF First
    <3>2. ASSUME NEW k \in Steps(new, j), Follows(new, j, k, n)
          PROVE  new.events[k].to = e.from
      <4>1. k \in Steps(doc, j) /\ Last(doc, j, k)
        BY <3>2, <2>1, <1>6, <1>1 DEF Follows, Last
      <4>2. doc.jobs[j].state = doc.events[k].to
        BY <4>1 DEF AuditTrailExplainsState, StepExplained
      <4> QED BY <4>1, <4>2, <1>6, <1>7
    <3> QED BY <3>1, <3>2, <1>1, <1>4, <1>7 DEF StepExplained
  <2> QED BY <2>1, <2>2, <2>3, <2>4
<1>8. CASE j # e.job
  <2>1. Steps(new, j) = Steps(doc, j) /\ new.jobs[j] = doc.jobs[j]
    BY <1>2, <1>3, <1>8
  <2>2. \A i \in Steps(doc, j) : StepExplained(new, j, i)
    BY <2>1, <1>6, SameStepsSameTrail DEF AuditTrailExplainsState
  <2> QED BY <2>1, <2>2 DEF AuditTrailExplainsState, Known
<1> QED BY <1>7, <1>8

(* Recording a result leaves the lifecycle part of the log as it was.      *)
LEMMA AnnotatedKeepsTrail ==
  ASSUME NEW doc, NEW new, NEW e, Grown(doc, new, e),
         AuditTrailExplainsState(doc),
         e.type = "result", new.jobs = doc.jobs
  PROVE  AuditTrailExplainsState(new)
<1>1. \A j : Steps(new, j) = Steps(doc, j)
  <2>1. ~IsLifecycle(e)
    BY DEF IsLifecycle
  <2> SUFFICES ASSUME NEW j
               PROVE  Steps(new, j) = Steps(doc, j)
    OBVIOUS
  <2>2. Steps(new, j) = Steps(doc, j) \cup {}
    BY <2>1, GrownSteps
  <2> QED BY <2>2
<1>2. \A j : \A i \in Steps(doc, j) : new.events[i] = doc.events[i]
  BY GrownEvents DEF Steps
<1>3. \A j \in JobIds : \A i \in Steps(new, j) : StepExplained(new, j, i)
  BY <1>1, <1>2, SameStepsSameTrail DEF AuditTrailExplainsState
<1> QED BY <1>1, <1>3 DEF AuditTrailExplainsState, Known

(* Steps of a log are positions, so a job has finitely many of them.       *)
LEMMA FiniteSteps ==
  ASSUME NEW doc \in Document, NEW j
  PROVE  IsFiniteSet({i \in Steps(doc, j) : doc.events[i].to = "executing"})
<1>1. doc.events \in Seq(Event)
  BY DEF Document
<1>2. IsFiniteSet(1 .. Len(doc.events))
  BY <1>1, FS_Interval
<1>3. {i \in Steps(doc, j) : doc.events[i].to = "executing"} \subseteq 1 .. Len(doc.events)
  BY <1>1 DEF Steps
<1> QED BY <1>2, <1>3, FS_Subset

(* An event that is not an entry into "executing" of job j does not count. *)
LEMMA SameAttempts ==
  ASSUME NEW doc, NEW new, NEW e, Grown(doc, new, e), NEW j,
         ~(e.job = j /\ IsLifecycle(e) /\ e.to = "executing")
  PROVE  {i \in Steps(new, j) : new.events[i].to = "executing"}
           = {i \in Steps(doc, j) : doc.events[i].to = "executing"}
<1> DEFINE n == Len(doc.events) + 1
<1>1. /\ \A i \in DOMAIN doc.events : new.events[i] = doc.events[i]
      /\ new.events[n] = e
  BY GrownEvents
<1>2. Steps(new, j) =
        Steps(doc, j) \cup (IF e.job = j /\ IsLifecycle(e) THEN {n} ELSE {})
  BY GrownSteps
<1> HIDE DEF n
<1>3. \A i \in Steps(doc, j) : new.events[i] = doc.events[i]
  BY <1>1 DEF Steps
<1> QED BY <1>1, <1>2, <1>3

LEMMA GrownKeepsAttempts ==
  ASSUME NEW doc, NEW new, NEW e, Grown(doc, new, e),
         AttemptsMatchLog(doc), AuditTrailExplainsState(doc),
         \/ /\ e.type = "created" /\ e.to = "queued" /\ ~Known(doc, e.job)
            /\ new.jobs = [doc.jobs EXCEPT ![e.job] = NewJob]
         \/ /\ e.type = "transitioned" /\ Known(doc, e.job)
            /\ new.jobs = [doc.jobs EXCEPT ![e.job] = Transitioned(doc.jobs[e.job], e.to)]
         \/ e.type = "result" /\ new.jobs = doc.jobs
  PROVE  AttemptsMatchLog(new)
<1> DEFINE n == Len(doc.events) + 1
           Entries(d, j) == {i \in Steps(d, j) : d.events[i].to = "executing"}
<1>1. /\ n \in Nat
      /\ \A i \in DOMAIN doc.events :
           i \in Nat /\ i < n /\ new.events[i] = doc.events[i]
      /\ new.events[n] = e
  BY GrownEvents
<1>2. e.job \in JobIds /\ doc \in Document /\ doc.jobs \in [JobIds -> Job \cup {None}]
  BY DEF Grown, Document, Event
<1> SUFFICES ASSUME NEW j \in JobIds, Known(new, j)
             PROVE  new.jobs[j].attempts = Cardinality(Entries(new, j))
  BY DEF AttemptsMatchLog
<1>3. CASE ~(e.job = j /\ IsLifecycle(e))
  <2>1. Entries(new, j) = Entries(doc, j)
    BY <1>3, SameAttempts
  <2>2. new.jobs[j] = doc.jobs[j]
    BY <1>2, <1>3 DEF IsLifecycle
  <2> QED BY <2>1, <2>2 DEF AttemptsMatchLog, Known
<1>4. CASE e.job = j /\ e.type = "created"
  <2>1. Entries(new, j) = Entries(doc, j)
    BY <1>4, SameAttempts
  <2>2. Entries(doc, j) = {}
    BY <1>2, <1>4 DEF AuditTrailExplainsState
  <2>3. new.jobs[j].attempts = 0
    BY <1>2, <1>4 DEF NewJob
  <2> QED BY <2>1, <2>2, <2>3, FS_EmptySet
<1>5. CASE e.job = j /\ e.type = "transitioned"
  <2>1. /\ doc.jobs[j] \in Job /\ new.jobs[j] = Transitioned(doc.jobs[j], e.to)
        /\ doc.jobs[j].attempts = Cardinality(Entries(doc, j))
    BY <1>2, <1>5 DEF Known, AttemptsMatchLog
  <2>2. CASE e.to = "executing"
    <3>1. Entries(new, j) = Entries(doc, j) \cup {n}
      <4>1. Steps(new, j) = Steps(doc, j) \cup {n}
        BY <1>5, GrownSteps DEF IsLifecycle
      <4>2. \A i \in Steps(doc, j) : new.events[i] = doc.events[i]
        BY <1>1 DEF Steps
      <4> HIDE DEF n
      <4> QED BY <4>1, <4>2, <1>1, <2>2
    <3>2. n \notin Entries(doc, j)
      BY <1>1 DEF Steps
    <3>3. Cardinality(Entries(new, j)) = Cardinality(Entries(doc, j)) + 1
      <4>1. IsFiniteSet(Entries(doc, j))
        BY <1>2, FiniteSteps
      <4> HIDE DEF Entries, n
      <4> QED BY <3>1, <3>2, <4>1, FS_AddElement
    <3>4. new.jobs[j].attempts = doc.jobs[j].attempts + 1
      BY <2>1, <2>2 DEF Transitioned
    <3> HIDE DEF Entries
    <3> QED BY <3>3, <3>4, <2>1
  <2>3. CASE e.to # "executing"
    <3>1. Entries(new, j) = Entries(doc, j)
      BY <2>3, SameAttempts
    <3>2. new.jobs[j].attempts = doc.jobs[j].attempts
      BY <2>1, <2>3 DEF Transitioned
    <3> HIDE DEF Entries
    <3> QED BY <3>1, <3>2, <2>1
  <2> QED BY <2>2, <2>3
<1> QED BY <1>3, <1>4, <1>5 DEF IsLifecycle

-----------------------------------------------------------------------------
(* Each write takes a consistent document to a consistent document.        *)

LEMMA CreatedConsistent ==
  ASSUME NEW doc \in Document, NEW c \in Calls, c.kind = "create",
         Consistent(doc), ~Recorded(doc, c.op), ~Known(doc, c.job)
  PROVE  Created(doc, c) \in Document /\ Consistent(Created(doc, c))
<1> DEFINE e == [type |-> "created", job |-> c.job, op |-> c.op,
                 from |-> "none", to |-> "queued"]
           new == Created(doc, c)
<1>1. c.job \in JobIds /\ c.op \in OpIds
  BY DEF Calls
<1>2. e \in Event
  BY <1>1 DEF Event, JobState
<1>3. NewJob \in Job
  BY DEF NewJob, Job, JobState
<1>4. /\ new.jobs = [doc.jobs EXCEPT ![c.job] = NewJob]
      /\ new.operations = [doc.operations EXCEPT ![c.op] = c.job]
      /\ new.operation_results = doc.operation_results
      /\ new.events = Append(doc.events, e)
  BY DEF Created, Log, Document
<1>5. new \in Document
  <2>1. Append(doc.events, e) \in Seq(Event)
    BY <1>2 DEF Document
  <2> QED BY <2>1, <1>1, <1>3 DEF Created, Log, Document
<1>6. Grown(doc, new, e)
  BY <1>2, <1>4, <1>5 DEF Grown
<1> HIDE DEF e, new
<1>7. e.type = "created" /\ e.job = c.job /\ e.op = c.op /\ e.to = "queued"
  BY DEF e
<1>8. OneEventPerOperation(new)
  BY <1>4, <1>6, <1>7, LogKeepsOneEvent DEF Consistent
<1>9. AuditTrailExplainsState(new)
  BY <1>4, <1>6, <1>7, CreatedKeepsTrail DEF Consistent
<1>10. AttemptsMatchLog(new)
  BY <1>4, <1>6, <1>7, GrownKeepsAttempts DEF Consistent
<1> QED BY <1>5, <1>8, <1>9, <1>10 DEF Consistent, new

LEMMA MovedConsistent ==
  ASSUME NEW doc \in Document, NEW c \in Calls, c.kind = "transition",
         Consistent(doc), ~Recorded(doc, c.op), Known(doc, c.job),
         CanTransition(doc.jobs[c.job], c.arg)
  PROVE  Moved(doc, c) \in Document /\ Consistent(Moved(doc, c))
<1> DEFINE e == [type |-> "transitioned", job |-> c.job, op |-> c.op,
                 from |-> doc.jobs[c.job].state, to |-> c.arg]
           new == Moved(doc, c)
<1>1. c.job \in JobIds /\ c.op \in OpIds /\ c.arg \in JobState
  BY StoreAssumption DEF Calls
<1>2. doc.jobs[c.job] \in Job
  BY <1>1 DEF Document, Known
<1>3. e \in Event
  BY <1>1, <1>2 DEF Event, Job
<1>4. Transitioned(doc.jobs[c.job], c.arg) \in Job
  BY <1>1, <1>2 DEF Transitioned, Job
<1>5. /\ new.jobs = [doc.jobs EXCEPT ![c.job] = Transitioned(doc.jobs[c.job], c.arg)]
      /\ new.operations = [doc.operations EXCEPT ![c.op] = c.job]
      /\ new.operation_results = doc.operation_results
      /\ new.events = Append(doc.events, e)
  BY DEF Moved, Log, Document
<1>6. new \in Document
  <2>1. Append(doc.events, e) \in Seq(Event)
    BY <1>3 DEF Document
  <2> QED BY <2>1, <1>1, <1>4 DEF Moved, Log, Document
<1>7. Grown(doc, new, e)
  BY <1>3, <1>5, <1>6 DEF Grown
<1> HIDE DEF e, new
<1>8. /\ e.type = "transitioned" /\ e.job = c.job /\ e.op = c.op /\ e.to = c.arg
      /\ e.from = doc.jobs[c.job].state
  BY DEF e
<1>9. OneEventPerOperation(new)
  BY <1>5, <1>7, <1>8, LogKeepsOneEvent DEF Consistent
<1>10. AuditTrailExplainsState(new)
  BY <1>5, <1>7, <1>8, MovedKeepsTrail DEF Consistent, CanTransition
<1>11. AttemptsMatchLog(new)
  BY <1>5, <1>7, <1>8, GrownKeepsAttempts DEF Consistent
<1> QED BY <1>6, <1>9, <1>10, <1>11 DEF Consistent, new

LEMMA AnnotatedConsistent ==
  ASSUME NEW doc \in Document, NEW c \in Calls, c.kind = "record",
         Consistent(doc), ~Recorded(doc, c.op), Known(doc, c.job)
  PROVE  Annotated(doc, c) \in Document /\ Consistent(Annotated(doc, c))
<1> DEFINE e == [type |-> "result", job |-> c.job, op |-> c.op,
                 from |-> "none", to |-> "none"]
           new == Annotated(doc, c)
<1>1. c.job \in JobIds /\ c.op \in OpIds /\ c.arg \in Payloads
  BY DEF Calls
<1>2. e \in Event
  BY <1>1 DEF Event
<1>3. /\ new.jobs = doc.jobs
      /\ new.operations = [doc.operations EXCEPT ![c.op] = c.job]
      /\ new.events = Append(doc.events, e)
  BY DEF Annotated, Log, Document
<1>4. new \in Document
  <2>1. Append(doc.events, e) \in Seq(Event)
    BY <1>2 DEF Document
  <2> QED BY <2>1, <1>1 DEF Annotated, Log, Document
<1>5. Grown(doc, new, e)
  BY <1>2, <1>3, <1>4 DEF Grown
<1> HIDE DEF e, new
<1>6. e.type = "result" /\ e.job = c.job /\ e.op = c.op
  BY DEF e
<1>7. OneEventPerOperation(new)
  BY <1>3, <1>5, <1>6, LogKeepsOneEvent DEF Consistent
<1>8. AuditTrailExplainsState(new)
  BY <1>3, <1>5, <1>6, AnnotatedKeepsTrail DEF Consistent
<1>9. AttemptsMatchLog(new)
  BY <1>3, <1>5, <1>6, GrownKeepsAttempts DEF Consistent
<1> QED BY <1>4, <1>7, <1>8, <1>9 DEF Consistent, new

LEMMA EmptyConsistent == Empty \in Document /\ Consistent(Empty)
<1>1. Empty \in Document
  BY DEF Empty, Document
<1>2. DOMAIN Empty.events = {} /\ \A j : Steps(Empty, j) = {}
  BY DEF Empty, Steps
<1> QED BY <1>1, <1>2 DEF Consistent, OneEventPerOperation,
     AuditTrailExplainsState, AttemptsMatchLog, Recorded, Known, Empty

-----------------------------------------------------------------------------
(* The inductive invariant: every document in the system is consistent,    *)
(* the one on disk and the copies held by calls in flight.                 *)
IInv ==
  /\ TypeOK
  /\ Consistent(file)
  /\ \A p \in Procs : Consistent(snapshot[p])

LEMMA InitIInv == Init => IInv
BY EmptyConsistent DEF Init, IInv, TypeOK

\* Ending a call keeps every copy consistent.
LEMMA EndKeeps ==
  ASSUME IInv, NEW p \in Procs, End(p),
         file' \in Document, Consistent(file')
  PROVE  IInv'
<1>1. /\ call' \in [Procs -> Calls \cup {NoCall}]
      /\ snapshot' \in [Procs -> Document]
  BY EmptyConsistent DEF IInv, TypeOK, End
<1>2. \A q \in Procs : Consistent(snapshot'[q])
  BY EmptyConsistent DEF IInv, TypeOK, End
<1> QED BY <1>1, <1>2 DEF IInv, TypeOK

LEMMA StepIInv == IInv /\ [Next]_vars => IInv'
<1> SUFFICES ASSUME IInv, [Next]_vars
             PROVE  IInv'
  OBVIOUS
<1>1. ASSUME NEW p \in Procs, NEW c \in Calls, Load(p, c)
      PROVE  IInv'
  BY <1>1 DEF IInv, TypeOK, Load
<1>2. ASSUME NEW p \in Procs, call[p].kind \in {"create", "transition", "record"}
      PROVE  call[p] \in Calls /\ snapshot[p] \in Document /\ Consistent(snapshot[p])
  BY <1>2 DEF IInv, TypeOK, NoCall
<1>3. ASSUME NEW p \in Procs, SaveCreate(p)
      PROVE  IInv'
  <2>1. Created(snapshot[p], call[p]) \in Document
        /\ Consistent(Created(snapshot[p], call[p]))
    BY <1>2, <1>3, CreatedConsistent DEF SaveCreate, InCall, FreshCall
  <2> QED BY <2>1, <1>3, EndKeeps DEF SaveCreate, Save
<1>4. ASSUME NEW p \in Procs, SaveTransition(p)
      PROVE  IInv'
  <2>1. Moved(snapshot[p], call[p]) \in Document
        /\ Consistent(Moved(snapshot[p], call[p]))
    BY <1>2, <1>4, MovedConsistent DEF SaveTransition, InCall, FreshCall
  <2> QED BY <2>1, <1>4, EndKeeps DEF SaveTransition, Save
<1>5. ASSUME NEW p \in Procs, SaveResult(p)
      PROVE  IInv'
  <2>1. Annotated(snapshot[p], call[p]) \in Document
        /\ Consistent(Annotated(snapshot[p], call[p]))
    BY <1>2, <1>5, AnnotatedConsistent DEF SaveResult, InCall, FreshCall
  <2> QED BY <2>1, <1>5, EndKeeps DEF SaveResult, Save
<1>6. ASSUME NEW p \in Procs, ReturnPersisted(p) \/ Refuse(p) \/ Crash(p)
      PROVE  IInv'
  <2>1. End(p) /\ UNCHANGED file
    BY <1>6 DEF ReturnPersisted, Refuse, Crash
  <2> QED BY <2>1, EndKeeps DEF IInv, TypeOK
<1>7. CASE UNCHANGED vars
  BY <1>7 DEF vars, IInv, TypeOK
<1> QED BY <1>1, <1>3, <1>4, <1>5, <1>6, <1>7 DEF Next

\* Types: any processes, any interleaving, any crashes (store.py).
THEOREM TypeCorrect == Spec => []TypeOK
<1>1. IInv => TypeOK
  BY DEF IInv
<1> QED BY <1>1, InitIInv, StepIInv, PTL DEF Spec

\* The audit log on disk has exactly one event per consumed operation, in
\* every interleaving and across crashes (JsonJobStore.create, transition,
\* record_operation_result).
THEOREM OneEvent == Spec => []DiskOneEventPerOperation
<1>1. IInv => DiskOneEventPerOperation
  BY DEF IInv, Consistent, DiskOneEventPerOperation
<1> QED BY <1>1, InitIInv, StepIInv, PTL DEF Spec

\* The audit log on disk explains every job state on disk.
THEOREM AuditTrail == Spec => []DiskAuditTrailExplainsState
<1>1. IInv => DiskAuditTrailExplainsState
  BY DEF IInv, Consistent, DiskAuditTrailExplainsState
<1> QED BY <1>1, InitIInv, StepIInv, PTL DEF Spec

\* The attempt counter on disk is the number of logged attempts.
THEOREM Attempts == Spec => []DiskAttemptsMatchLog
<1>1. IInv => DiskAttemptsMatchLog
  BY DEF IInv, Consistent, DiskAttemptsMatchLog
<1> QED BY <1>1, InitIInv, StepIInv, PTL DEF Spec

-----------------------------------------------------------------------------
(* What a write does to the document its process read, and so to the       *)
(* document on disk when nobody replaced that in between.                  *)

LEMMA BusyCall ==
  \A p \in Procs :
    SaveCreate(p) \/ SaveTransition(p) \/ SaveResult(p) \/ ReturnPersisted(p)
      \/ Refuse(p) \/ Crash(p)
    => call[p] # NoCall /\ End(p)
BY DEF SaveCreate, SaveTransition, SaveResult, ReturnPersisted, Refuse, Crash,
       InCall, NoCall, Save

\* What a write does to the document its process read.
LEMMA WritesFile ==
  ASSUME IInv, NEW p \in Procs, NEW doc, doc = snapshot[p],
         SaveCreate(p) \/ SaveTransition(p) \/ SaveResult(p)
  PROVE  /\ doc \in Document /\ file' \in Document /\ call[p] \in Calls
         /\ ~Recorded(doc, call[p].op)
         /\ file'.operations = [doc.operations EXCEPT ![call[p].op] = call[p].job]
         /\ \/ file'.operation_results = doc.operation_results
            \/ file'.operation_results =
                 [doc.operation_results EXCEPT ![call[p].op] = call[p].arg]
         /\ \E e \in Event : file'.events = Append(doc.events, e)
         /\ \/ /\ ~Known(doc, call[p].job)
               /\ file'.jobs = [doc.jobs EXCEPT ![call[p].job] = NewJob]
            \/ /\ Known(doc, call[p].job)
               /\ call[p].arg \in ALLOWED_TRANSITIONS[doc.jobs[call[p].job].state]
               /\ file'.jobs = [doc.jobs EXCEPT ![call[p].job] =
                                  Transitioned(doc.jobs[call[p].job], call[p].arg)]
            \/ /\ Known(doc, call[p].job)
               /\ file'.jobs = doc.jobs
<1>1. /\ call[p] # NoCall
      /\ call[p] \in Calls /\ doc \in Document /\ Consistent(doc)
      /\ ~Recorded(doc, call[p].op)
  BY BusyCall DEF IInv, TypeOK, SaveCreate, SaveTransition, SaveResult, FreshCall
<1>2. call[p].job \in JobIds /\ call[p].op \in OpIds
  BY <1>1 DEF Calls
<1>3. CASE SaveCreate(p)
  <2>1. file' = Created(doc, call[p]) /\ ~Known(doc, call[p].job)
    BY <1>1, <1>3 DEF SaveCreate, Save
  <2>2. file' \in Document
    BY <2>1, <1>1, <1>3, CreatedConsistent DEF SaveCreate, InCall
  <2>3. [type |-> "created", job |-> call[p].job, op |-> call[p].op,
         from |-> "none", to |-> "queued"] \in Event
    BY <1>2 DEF Event, JobState
  <2>4. \E e \in Event : file'.events = Append(doc.events, e)
    BY <2>1, <2>3, <1>1 DEF Created, Log, Document
  <2> QED BY <2>1, <2>2, <2>4, <1>1 DEF Created, Log, Document
<1>4. CASE SaveTransition(p)
  <2>1. /\ file' = Moved(doc, call[p]) /\ Known(doc, call[p].job)
        /\ call[p].arg \in ALLOWED_TRANSITIONS[doc.jobs[call[p].job].state]
    BY <1>1, <1>4 DEF SaveTransition, Save, CanTransition
  <2>2. file' \in Document
    BY <2>1, <1>1, <1>4, MovedConsistent DEF SaveTransition, InCall, CanTransition
  <2>3. call[p].arg \in JobState /\ doc.jobs[call[p].job].state \in JobState
    <3>1. doc.jobs[call[p].job] \in Job
      BY <2>1, <1>1, <1>2 DEF Known, Document
    <3> QED BY <3>1, <2>1, AllowedAreStates DEF Job
  <2>4. [type |-> "transitioned", job |-> call[p].job, op |-> call[p].op,
         from |-> doc.jobs[call[p].job].state, to |-> call[p].arg] \in Event
    BY <1>2, <2>3 DEF Event
  <2>5. \E e \in Event : file'.events = Append(doc.events, e)
    BY <2>1, <2>4, <1>1 DEF Moved, Log, Document
  <2> QED BY <2>1, <2>2, <2>5, <1>1 DEF Moved, Log, Document
<1>5. CASE SaveResult(p)
  <2>1. file' = Annotated(doc, call[p]) /\ Known(doc, call[p].job)
    BY <1>1, <1>5 DEF SaveResult, Save
  <2>2. file' \in Document
    BY <2>1, <1>1, <1>5, AnnotatedConsistent DEF SaveResult, InCall
  <2>3. [type |-> "result", job |-> call[p].job, op |-> call[p].op,
         from |-> "none", to |-> "none"] \in Event
    BY <1>2 DEF Event
  <2>4. \E e \in Event : file'.events = Append(doc.events, e)
    BY <2>1, <2>3, <1>1 DEF Annotated, Log, Document
  <2> QED BY <2>1, <2>2, <2>4, <1>1 DEF Annotated, Log, Document
<1> QED BY <1>3, <1>4, <1>5

\* Every other step leaves the document on disk alone.
LEMMA OtherStepsKeepFile ==
  [Next]_vars =>
    \/ \E p \in Procs : SaveCreate(p) \/ SaveTransition(p) \/ SaveResult(p)
    \/ UNCHANGED file
BY DEF Next, vars, Load, ReturnPersisted, Refuse, Crash

\* The call of a write is over once it is made.
LEMMA WriteEnds ==
  ASSUME IInv, NEW p \in Procs, SaveCreate(p) \/ SaveTransition(p) \/ SaveResult(p)
  PROVE  call[p] # NoCall /\ call'[p] = NoCall
BY BusyCall DEF IInv, TypeOK, End

\* A recorded operation keeps its owner and its result for ever but for writes
\* that overlap: replaying an operation identifier is safe.
THEOREM Durable == Spec => OperationsDurable
<1> DEFINE Step ==
      \A o \in OpIds :
        Recorded(file, o) =>
          \/ /\ file'.operations[o] = file.operations[o]
             /\ file'.operation_results[o] = file.operation_results[o]
          \/ \E p \in Procs : EndsOvertaken(p) /\ ~Saw(p, o)
<1>1. IInv /\ [Next]_vars => [Step]_vars
  <2> SUFFICES ASSUME IInv, [Next]_vars, NEW o \in OpIds, Recorded(file, o)
               PROVE  \/ /\ file'.operations[o] = file.operations[o]
                         /\ file'.operation_results[o] = file.operation_results[o]
                      \/ \E p \in Procs : EndsOvertaken(p) /\ ~Saw(p, o)
    OBVIOUS
  <2> DEFINE Kept == /\ file'.operations[o] = file.operations[o]
                     /\ file'.operation_results[o] = file.operation_results[o]
  <2>1. ASSUME NEW p \in Procs, SaveCreate(p) \/ SaveTransition(p) \/ SaveResult(p)
        PROVE  Kept \/ (EndsOvertaken(p) /\ ~Saw(p, o))
    <3> DEFINE doc == snapshot[p]
    <3>1. /\ doc \in Document /\ ~Recorded(doc, call[p].op)
          /\ file'.operations = [doc.operations EXCEPT ![call[p].op] = call[p].job]
          /\ \/ file'.operation_results = doc.operation_results
             \/ file'.operation_results =
                  [doc.operation_results EXCEPT ![call[p].op] = call[p].arg]
      BY <2>1, WritesFile
    <3>2. call[p] # NoCall /\ call'[p] = NoCall
      BY <2>1, WriteEnds
    <3>3. CASE Saw(p, o)
      <4>1. o # call[p].op
        BY <3>1, <3>3 DEF Saw, Recorded
      <4>2. /\ file'.operations[o] = doc.operations[o]
            /\ file'.operation_results[o] = doc.operation_results[o]
        BY <4>1, <3>1 DEF Document
      <4> QED BY <4>2, <3>3 DEF Saw
    <3>4. CASE ~Saw(p, o)
      BY <3>2, <3>4 DEF Saw, EndsOvertaken
    <3> QED BY <3>3, <3>4
  <2>2. CASE UNCHANGED file
    BY <2>2
  <2> QED BY <2>1, <2>2, OtherStepsKeepFile
<1> QED BY <1>1, InitIInv, StepIInv, PTL DEF Spec, OperationsDurable

\* The audit log only ever grows at its end, but for writes that overlap.
THEOREM AppendOnly == Spec => LogAppendOnly
<1> DEFINE Extends ==
             /\ Len(file'.events) >= Len(file.events)
             /\ \A i \in DOMAIN file.events : file'.events[i] = file.events[i]
           Step == Extends \/ \E p \in Procs : EndsOvertaken(p)
<1>1. IInv /\ [Next]_vars => [Step]_vars
  <2> SUFFICES ASSUME IInv, [Next]_vars
               PROVE  Step
    OBVIOUS
  <2>1. file \in Document /\ file.events \in Seq(Event)
    BY DEF IInv, TypeOK, Document
  <2>2. ASSUME NEW p \in Procs, SaveCreate(p) \/ SaveTransition(p) \/ SaveResult(p)
        PROVE  Step
    <3>1. CASE snapshot[p] = file
      <4>1. PICK e \in Event : file'.events = Append(file.events, e)
        BY <2>2, <3>1, WritesFile
      <4> QED BY <4>1, <2>1
    <3>2. CASE snapshot[p] # file
      BY <3>2, <2>2, WriteEnds DEF EndsOvertaken
    <3> QED BY <3>1, <3>2
  <2>3. CASE UNCHANGED file
    BY <2>1, <2>3
  <2> QED BY <2>2, <2>3, OtherStepsKeepFile
<1> QED BY <1>1, InitIInv, StepIInv, PTL DEF Spec, LogAppendOnly

\* The lifecycle module sees the contract this module sees.
LEMMA SameContract ==
  Lifecycle!JobState = JobState
  /\ Lifecycle!ALLOWED_TRANSITIONS = ALLOWED_TRANSITIONS
BY DEF Lifecycle!JobState, JobState, Lifecycle!TERMINAL_STATES, TERMINAL_STATES,
       Lifecycle!ALLOWED_TRANSITIONS, ALLOWED_TRANSITIONS, Lifecycle!Exits, Exits

LEMMA PrimedMapping ==
  /\ StateOf(file)' = StateOf(file')
  /\ AttemptsOf(file)' = AttemptsOf(file')
  /\ ResultsOf(file)' = ResultsOf(file')
BY DEF StateOf, AttemptsOf, ResultsOf, Known

\* A write to the document is a step of the lifecycle of Subject, or
\* changes nothing the lifecycle of Subject is made of.
LEMMA WriteIsLifecycleStep ==
  ASSUME IInv, NEW p \in Procs, snapshot[p] = file,
         SaveCreate(p) \/ SaveTransition(p) \/ SaveResult(p)
  PROVE  [Lifecycle!LifecycleNext]_(Lifecycle!lifecycleVars)
<1>1. PICK job \in JobIds, op \in OpIds, arg \in {call[p].arg} :
        job = call[p].job /\ op = call[p].op
  <2>1. call[p] \in Calls
    BY WritesFile
  <2> QED BY <2>1 DEF Calls
<1> DEFINE Create1 == /\ ~Known(file, job)
                      /\ file'.jobs = [file.jobs EXCEPT ![job] = NewJob]
           Move1 == /\ Known(file, job)
                    /\ arg \in ALLOWED_TRANSITIONS[file.jobs[job].state]
                    /\ file'.jobs =
                         [file.jobs EXCEPT ![job] = Transitioned(file.jobs[job], arg)]
           Annotate1 == Known(file, job) /\ file'.jobs = file.jobs
<1>2. /\ file \in Document /\ file' \in Document
      /\ ~Recorded(file, op)
      /\ file'.operations = [file.operations EXCEPT ![op] = job]
      /\ \A o \in OpIds \ {op} :
           file'.operation_results[o] = file.operation_results[o]
      /\ Create1 \/ Move1 \/ Annotate1
  <2> HIDE DEF Create1, Move1, Annotate1
  <2>1. /\ file \in Document /\ file' \in Document
        /\ ~Recorded(file, op)
        /\ file'.operations = [file.operations EXCEPT ![op] = job]
        /\ \/ file'.operation_results = file.operation_results
           \/ file'.operation_results = [file.operation_results EXCEPT ![op] = arg]
    BY <1>1, WritesFile
  <2>2. Create1 \/ Move1 \/ Annotate1
    <3>1. \/ /\ ~Known(file, call[p].job)
             /\ file'.jobs = [file.jobs EXCEPT ![call[p].job] = NewJob]
          \/ /\ Known(file, call[p].job)
             /\ call[p].arg \in ALLOWED_TRANSITIONS[file.jobs[call[p].job].state]
             /\ file'.jobs = [file.jobs EXCEPT ![call[p].job] =
                                Transitioned(file.jobs[call[p].job], call[p].arg)]
          \/ Known(file, call[p].job) /\ file'.jobs = file.jobs
      BY WritesFile
    <3> QED BY <1>1, <3>1 DEF Create1, Move1, Annotate1
  <2>3. \A o \in OpIds \ {op} : file'.operation_results[o] = file.operation_results[o]
    BY <2>1 DEF Document
  <2> QED BY <2>1, <2>2, <2>3
<1>3. /\ file.operations \in [OpIds -> JobIds \cup {None}]
      /\ file.jobs \in [JobIds -> Job \cup {None}]
      /\ file'.jobs \in [JobIds -> Job \cup {None}]
      /\ Subject \in JobIds
  BY <1>2, StoreAssumption DEF Document
<1>4. /\ \A o \in OpIds \ {op} : ResultsOf(file')[o] = ResultsOf(file)[o]
      /\ ResultsOf(file)[op] = {} /\ DOMAIN ResultsOf(file') = OpIds
  BY <1>2, <1>3, StoreAssumption DEF Recorded, ResultsOf
<1>5. CASE job # Subject
  <2>1. file'.jobs[Subject] = file.jobs[Subject]
    BY <1>2, <1>3, <1>5
  <2>2. StateOf(file') = StateOf(file) /\ AttemptsOf(file') = AttemptsOf(file)
    BY <2>1 DEF Known, StateOf, AttemptsOf
  <2>3. ResultsOf(file') = ResultsOf(file)
    <3>1. ResultsOf(file')[op] = {}
      BY <1>2, <1>3, <1>5 DEF ResultsOf
    <3> QED BY <3>1, <1>4 DEF ResultsOf
  <2> QED BY <2>2, <2>3, PrimedMapping DEF Lifecycle!lifecycleVars
<1>6. CASE job = Subject
  <2>1. ResultsOf(file')[op] # {}
    BY <1>2, <1>3, <1>6 DEF ResultsOf
  <2>2. CASE Create1
    <3>1. NewJob # None
      BY StoreAssumption DEF NewJob, Job, JobState
    <3>2. /\ StateOf(file) = "absent" /\ StateOf(file') = "queued"
          /\ AttemptsOf(file') = AttemptsOf(file)
      BY <2>2, <1>3, <1>6, <3>1 DEF Known, NewJob, StateOf, AttemptsOf
    <3>3. Lifecycle!Create(op)
      BY <3>2, <2>1, <1>4, PrimedMapping DEF Lifecycle!Create, Lifecycle!Fresh, Lifecycle!Consume
    <3> QED BY <3>3 DEF Lifecycle!LifecycleNext
  <2>3. CASE Move1
    <3>1. file.jobs[Subject] \in Job
      BY <2>3, <1>3, <1>6 DEF Known
    <3>2. arg \in JobState
      BY <2>3, <3>1, <1>6, AllowedAreStates DEF Job
    <3>3. Transitioned(file.jobs[Subject], arg) \in Job
      BY <3>1, <3>2 DEF Transitioned, Job
    <3>4. /\ file'.jobs[Subject] = Transitioned(file.jobs[Subject], arg)
          /\ Known(file', Subject)
      BY <2>3, <3>3, <1>3, <1>6, StoreAssumption DEF Known
    <3>5. /\ StateOf(file) = file.jobs[Subject].state /\ StateOf(file') = arg
          /\ AttemptsOf(file') =
               IF arg = "executing" THEN AttemptsOf(file) + 1 ELSE AttemptsOf(file)
      BY <2>3, <3>4, <1>6 DEF Transitioned, StateOf, AttemptsOf
    <3>6. StateOf(file) # "absent"
      BY <3>1, <3>5 DEF Job, JobState, TERMINAL_STATES
    <3>7. arg \in ALLOWED_TRANSITIONS[StateOf(file)]
      BY <2>3, <3>5, <1>6
    <3>8. Lifecycle!Move(op)
      BY <3>5, <3>6, <3>7, <2>1, <1>4, SameContract, PrimedMapping
         DEF Lifecycle!Move, Lifecycle!Fresh, Lifecycle!Consume
    <3> QED BY <3>8 DEF Lifecycle!LifecycleNext
  <2>4. CASE Annotate1
    <3>1. StateOf(file') = StateOf(file) /\ AttemptsOf(file') = AttemptsOf(file)
      BY <2>4 DEF Known, StateOf, AttemptsOf
    <3>2. file.jobs[Subject] \in Job
      BY <2>4, <1>3, <1>6 DEF Known
    <3>3. StateOf(file) # "absent"
      BY <3>2, <2>4, <1>6 DEF Job, JobState, TERMINAL_STATES, StateOf, Known
    <3>4. Lifecycle!Annotate(op)
      BY <3>1, <3>3, <2>1, <1>4, PrimedMapping DEF Lifecycle!Annotate, Lifecycle!Fresh, Lifecycle!Consume
    <3> QED BY <3>4 DEF Lifecycle!LifecycleNext
  <2> QED BY <1>2, <2>2, <2>3, <2>4
<1> QED BY <1>5, <1>6

LEMMA InitIsLifecycleInit == Init => Lifecycle!LifecycleInit
BY StoreAssumption
   DEF Init, Empty, Known, StateOf, AttemptsOf, ResultsOf, Lifecycle!LifecycleInit

\* A step is one of the lifecycle, or ends a call that was overtaken.
LEMMA StepRefines ==
  IInv /\ [Next]_vars =>
    [Lifecycle!LifecycleNext \/ \E p \in Procs : EndsOvertaken(p)]_(Lifecycle!lifecycleVars)
<1> SUFFICES ASSUME IInv, [Next]_vars
             PROVE  \/ [Lifecycle!LifecycleNext]_(Lifecycle!lifecycleVars)
                    \/ \E p \in Procs : EndsOvertaken(p)
  OBVIOUS
<1>1. CASE UNCHANGED file
  BY <1>1, PrimedMapping DEF Lifecycle!lifecycleVars
<1>2. ASSUME NEW p \in Procs, SaveCreate(p) \/ SaveTransition(p) \/ SaveResult(p)
      PROVE  [Lifecycle!LifecycleNext]_(Lifecycle!lifecycleVars) \/ EndsOvertaken(p)
  <2>1. CASE snapshot[p] = file
    BY <1>2, <2>1, WriteIsLifecycleStep
  <2>2. CASE snapshot[p] # file
    BY <1>2, <2>2, WriteEnds DEF EndsOvertaken
  <2> QED BY <2>1, <2>2
<1> QED BY <1>1, <1>2, OtherStepsKeepFile

\* For any processes and jobs, every step is one of the lifecycle contract but the
\* end of a call whose document somebody replaced in between.
THEOREM OverlapOnly == Spec => OnlyOverlapBreaksLifecycle
BY InitIsLifecycleInit, StepRefines, InitIInv, StepIInv, PTL
   DEF Spec, OnlyOverlapBreaksLifecycle

\* Where no call is overtaken the document implements the lifecycle contract,
\* for whichever job Subject is: contracts.py's promise survives the
\* read-modify-replace of store.py and its crashes.
THEOREM Implements == Spec /\ []Undisturbed => ImplementsLifecycle
<1>1. Undisturbed /\ [Lifecycle!LifecycleNext \/ \E p \in Procs : EndsOvertaken(p)]_(Lifecycle!lifecycleVars)
        => [Lifecycle!LifecycleNext]_(Lifecycle!lifecycleVars)
  BY DEF Undisturbed, EndsOvertaken
<1> QED BY <1>1, OverlapOnly, PTL
        DEF OnlyOverlapBreaksLifecycle, ImplementsLifecycle, Lifecycle!LifecycleSpec

-----------------------------------------------------------------------------
(* What follows from the lifecycle contract.                               *)

Contract ==
  INSTANCE JobLifecycleProofs WITH
    Operations <- OpIds,
    state <- StateOf(file),
    attempts <- AttemptsOf(file),
    results <- ResultsOf(file)

LEMMA SpecMeetsContract == Spec /\ []Undisturbed => Contract!LifecycleSpec
<1>1. Lifecycle!LifecycleInit => Contract!LifecycleInit
  BY DEF Lifecycle!LifecycleInit, Contract!LifecycleInit
<1>2. [Lifecycle!LifecycleNext]_(Lifecycle!lifecycleVars) =>
        [Contract!LifecycleNext]_(Contract!lifecycleVars)
  BY DEF Lifecycle!LifecycleNext, Contract!LifecycleNext,
         Lifecycle!lifecycleVars, Contract!lifecycleVars,
         Lifecycle!Create, Contract!Create, Lifecycle!Move, Contract!Move,
         Lifecycle!Annotate, Contract!Annotate, Lifecycle!Consume, Contract!Consume,
         Lifecycle!Fresh, Contract!Fresh,
         Lifecycle!ALLOWED_TRANSITIONS, Contract!ALLOWED_TRANSITIONS,
         Lifecycle!JobState, Contract!JobState, Lifecycle!Exits, Contract!Exits,
         Lifecycle!TERMINAL_STATES, Contract!TERMINAL_STATES
<1> QED BY <1>1, <1>2, Implements, PTL
        DEF ImplementsLifecycle, Lifecycle!LifecycleSpec, Contract!LifecycleSpec

\* Where no call is overtaken no job on disk ever comes back from a terminal state,
\* is created anew or loses an attempt, whichever clients die between read and write.
THEOREM JobNeverBack == Spec /\ []Undisturbed => [][Contract!OneWay]_(Contract!lifecycleVars)
BY SpecMeetsContract, Contract!NeverBack, PTL

\* Retries do not add up: where no call is overtaken a job has at most as many
\* attempts as the operations that are recorded for it, however often each of them
\* is called.
THEOREM RetriesAreNoAttempts ==
  ASSUME IsFiniteSet(OpIds)
  PROVE  Spec /\ []Undisturbed => []Contract!AttemptsTaken
BY SpecMeetsContract, Contract!AttemptsBounded, PTL DEF Contract!IsFiniteSet, IsFiniteSet
=============================================================================
