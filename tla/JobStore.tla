------------------------------ MODULE JobStore ------------------------------
(***************************************************************************)
(* JsonJobStore (autonomy/store.py): one JSON document on disk, used by    *)
(* client processes (the CLI, the agents, the schedulers) that take no     *)
(* lock.  Every mutating call reads the whole document, works on its copy, *)
(* and replaces the whole document; the replacement is atomic              *)
(* (os.replace), the call is not.  A call is therefore two steps, Load and *)
(* one of the steps that end it, and a process may crash in between.       *)
(***************************************************************************)
EXTENDS JobContracts, Sequences, FiniteSets

CONSTANTS
  Procs,      \* client processes
  JobIds,
  OpIds,      \* operation identifiers, shared by all jobs
  Targets,    \* the states transition is called with
  Payloads,   \* what record_operation_result stores
  Subject,    \* the job whose lifecycle the refinement follows
  None

ASSUME StoreAssumption ==
  /\ Targets \subseteq JobState
  /\ Subject \in JobIds
  /\ None \notin Job \cup JobIds \cup Payloads

VARIABLES
  file,       \* the document on disk
  snapshot,   \* the document each process read when its call began
  call        \* the call each process is executing, or NoCall

vars == <<file, snapshot, call>>

Event == [type : {"created", "transitioned", "result"}, job : JobIds,
          op : OpIds, from : JobState \cup {"none"}, to : JobState \cup {"none"}]

Document == [jobs : [JobIds -> Job \cup {None}],
             operations : [OpIds -> JobIds \cup {None}],
             operation_results : [OpIds -> Payloads \cup {None}],
             events : Seq(Event)]

Empty == [jobs |-> [j \in JobIds |-> None],
          operations |-> [o \in OpIds |-> None],
          operation_results |-> [o \in OpIds |-> None],
          events |-> <<>>]

Calls ==
  [kind : {"create"}, job : JobIds, op : OpIds, arg : {"queued"}]
  \cup [kind : {"transition"}, job : JobIds, op : OpIds, arg : Targets]
  \cup [kind : {"record"}, job : JobIds, op : OpIds, arg : Payloads]

NoCall == [kind |-> "idle"]

TypeOK ==
  /\ file \in Document
  /\ snapshot \in [Procs -> Document]
  /\ call \in [Procs -> Calls \cup {NoCall}]

Init ==
  /\ file = Empty
  /\ snapshot = [p \in Procs |-> Empty]
  /\ call = [p \in Procs |-> NoCall]

-----------------------------------------------------------------------------
(* What each call writes, as a function of the document it read.           *)

Recorded(doc, op) == doc.operations[op] # None

Known(doc, job) == doc.jobs[job] # None

\* Mutant: the operation is recorded under its own name, not its job's.
LogUnowned(doc, c, type, from, to) ==
  [doc EXCEPT !.operations[c.op] = c.op,
              !.events = Append(@, [type |-> type, job |-> c.job, op |-> c.op,
                                    from |-> from, to |-> to])]

\* The part every write shares: consume the operation and log its event.
Log(doc, c, type, from, to) ==
  [doc EXCEPT !.operations[c.op] = c.job,
              !.events = Append(@, [type |-> type, job |-> c.job, op |-> c.op,
                                    from |-> from, to |-> to])]

Created(doc, c) ==
  [Log(doc, c, "created", "none", "queued") EXCEPT !.jobs[c.job] = NewJob]

Moved(doc, c) ==
  [Log(doc, c, "transitioned", doc.jobs[c.job].state, c.arg)
     EXCEPT !.jobs[c.job] = Transitioned(doc.jobs[c.job], c.arg)]

Annotated(doc, c) ==
  [Log(doc, c, "result", "none", "none") EXCEPT !.operation_results[c.op] = c.arg]

-----------------------------------------------------------------------------
(* The steps of a call.                                                    *)

Load(p, c) ==
  /\ call[p] = NoCall
  /\ call' = [call EXCEPT ![p] = c]
  /\ snapshot' = [snapshot EXCEPT ![p] = file]
  /\ UNCHANGED file

\* The call ends, by returning, raising or dying: its copy is gone.
End(p) ==
  /\ call' = [call EXCEPT ![p] = NoCall]
  /\ snapshot' = [snapshot EXCEPT ![p] = Empty]

Save(p, doc) == file' = doc /\ End(p)

InCall(p, kind) == call[p].kind = kind

\* Mutant: the operation identifier is not looked up.
FreshCallAlways(p) == InCall(p, call[p].kind)

FreshCall(p) == ~Recorded(snapshot[p], call[p].op)

SaveCreate(p) ==
  /\ InCall(p, "create")
  /\ FreshCall(p)
  /\ ~Known(snapshot[p], call[p].job)
  /\ Save(p, Created(snapshot[p], call[p]))

SaveTransition(p) ==
  /\ InCall(p, "transition")
  /\ FreshCall(p)
  /\ Known(snapshot[p], call[p].job)
  /\ CanTransition(snapshot[p].jobs[call[p].job], call[p].arg)
  /\ Save(p, Moved(snapshot[p], call[p]))

\* Mutant: a repeated result replaces the one on record.
SaveResultAgain(p) ==
  /\ InCall(p, "record")
  /\ Known(snapshot[p], call[p].job)
  /\ Save(p, Annotated(snapshot[p], call[p]))

SaveResult(p) ==
  /\ InCall(p, "record")
  /\ FreshCall(p)
  /\ Known(snapshot[p], call[p].job)
  /\ Save(p, Annotated(snapshot[p], call[p]))

OwnedByCaller(p) == snapshot[p].operations[call[p].op] = call[p].job

\* The operation was recorded before: the call returns without writing.
ReturnPersisted(p) ==
  /\ call[p] # NoCall
  /\ ~FreshCall(p)
  /\ \/ InCall(p, "create")
     \/ InCall(p, "transition") /\ OwnedByCaller(p)
     \/ /\ InCall(p, "record")
        /\ OwnedByCaller(p)
        /\ snapshot[p].operation_results[call[p].op] # None
  /\ End(p)
  /\ UNCHANGED file

\* KeyError and ValueError: an operation owned by another job, one that
\* has no stored result, an unknown or duplicate job, a transition that
\* ALLOWED_TRANSITIONS does not have.
Refuse(p) ==
  /\ call[p] # NoCall
  /\ \/ ~FreshCall(p) /\ ~InCall(p, "create") /\ ~OwnedByCaller(p)
     \/ /\ ~FreshCall(p)
        /\ InCall(p, "record")
        /\ OwnedByCaller(p)
        /\ snapshot[p].operation_results[call[p].op] = None
     \/ FreshCall(p) /\ InCall(p, "create") /\ Known(snapshot[p], call[p].job)
     \/ FreshCall(p) /\ ~InCall(p, "create") /\ ~Known(snapshot[p], call[p].job)
     \/ /\ FreshCall(p)
        /\ InCall(p, "transition")
        /\ Known(snapshot[p], call[p].job)
        /\ ~CanTransition(snapshot[p].jobs[call[p].job], call[p].arg)
  /\ End(p)
  /\ UNCHANGED file

\* The process dies before os.replace: the temporary file is never seen.
Crash(p) ==
  /\ call[p] # NoCall
  /\ End(p)
  /\ UNCHANGED file

Next ==
  \E p \in Procs :
    \/ \E c \in Calls : Load(p, c)
    \/ SaveCreate(p)
    \/ SaveTransition(p)
    \/ SaveResult(p)
    \/ ReturnPersisted(p)
    \/ Refuse(p)
    \/ Crash(p)

Spec == Init /\ [][Next]_vars

-----------------------------------------------------------------------------
(* Consistency of one document.                                            *)

IsLifecycle(e) == e.type \in {"created", "transitioned"}

\* The positions of a job's lifecycle events in the log.
Steps(doc, job) ==
  {i \in DOMAIN doc.events : doc.events[i].job = job /\ IsLifecycle(doc.events[i])}

\* Every consumed operation is explained by exactly one audit event, of the
\* job that owns it, and no event is without its operation: a retry can
\* neither duplicate an event nor take effect unlogged.
OneEventPerOperation(doc) ==
  /\ \A i, k \in DOMAIN doc.events : doc.events[i].op = doc.events[k].op => i = k
  /\ \A i \in DOMAIN doc.events :
       doc.operations[doc.events[i].op] = doc.events[i].job
  /\ \A o \in OpIds :
       Recorded(doc, o) => \E i \in DOMAIN doc.events : doc.events[i].op = o

\* One lifecycle event of a job among the others: the first one creates it,
\* each later one takes an allowed transition from where its predecessor
\* ended, and the last one ends where the job record is.
First(doc, j, i) == \A k \in Steps(doc, j) : i <= k
Last(doc, j, i) == \A k \in Steps(doc, j) : k <= i
Follows(doc, j, k, i) ==
  k < i /\ \A m \in Steps(doc, j) : m <= k \/ i <= m

StepExplained(doc, j, i) ==
  /\ doc.events[i].type = "created" <=> First(doc, j, i)
  /\ First(doc, j, i) => doc.events[i].to = "queued"
  /\ ~First(doc, j, i) =>
       doc.events[i].to \in ALLOWED_TRANSITIONS[doc.events[i].from]
  /\ \A k \in Steps(doc, j) :
       Follows(doc, j, k, i) => doc.events[k].to = doc.events[i].from
  /\ Last(doc, j, i) => doc.jobs[j].state = doc.events[i].to

\* The job's lifecycle events form one chain of allowed transitions that
\* starts at creation and ends in the state the job record shows.
AuditTrailExplainsState(doc) ==
  \A j \in JobIds :
    /\ Known(doc, j) <=> Steps(doc, j) # {}
    /\ \A i \in Steps(doc, j) : StepExplained(doc, j, i)

\* The attempt counter is the number of logged entries into "executing".
AttemptsMatchLog(doc) ==
  \A j \in JobIds :
    Known(doc, j) =>
      doc.jobs[j].attempts =
        Cardinality({i \in Steps(doc, j) : doc.events[i].to = "executing"})

Consistent(doc) ==
  /\ OneEventPerOperation(doc)
  /\ AuditTrailExplainsState(doc)
  /\ AttemptsMatchLog(doc)

\* Whatever processes interleave or crash, the document on disk has one
\* audit event per consumed operation (create, transition,
\* record_operation_result all log and consume in one replacement).
DiskOneEventPerOperation == OneEventPerOperation(file)

\* Whatever processes interleave or crash, the log on disk leads to the job
\* states on disk: a reader never sees one without the other.
DiskAuditTrailExplainsState == AuditTrailExplainsState(file)

\* Whatever processes interleave or crash, Job.attempts agrees with the log.
DiskAttemptsMatchLog == AttemptsMatchLog(file)

-----------------------------------------------------------------------------
(* What an overlap of client calls costs, and what holds without one.      *)

\* The operation is still as p read it.
Saw(p, o) ==
  /\ snapshot[p].operations[o] = file.operations[o]
  /\ snapshot[p].operation_results[o] = file.operation_results[o]

\* The document was replaced since p read it, and p's call ends.
EndsOvertaken(p) == call[p] # NoCall /\ snapshot[p] # file /\ call'[p] = NoCall

\* A recorded operation keeps its owner and its result, unless a call ends that
\* read the document before they came to be what they are: a retry with the same
\* identifier is safe against every other client but one whose call it overlaps
\* (_save, which replaces the document whatever became of it since _load).
OperationsDurable ==
  [][\A o \in OpIds :
       Recorded(file, o) =>
         \/ /\ file'.operations[o] = file.operations[o]
            /\ file'.operation_results[o] = file.operation_results[o]
         \/ \E p \in Procs : EndsOvertaken(p) /\ ~Saw(p, o)]_vars

\* The audit log only grows at its end, unless an overtaken call ends.
LogAppendOnly ==
  [][\/ /\ Len(file'.events) >= Len(file.events)
        /\ \A i \in DOMAIN file.events : file'.events[i] = file.events[i]
     \/ \E p \in Procs : EndsOvertaken(p)]_vars

StateOf(doc) ==
  IF Known(doc, Subject) THEN doc.jobs[Subject].state ELSE "absent"
AttemptsOf(doc) ==
  IF Known(doc, Subject) THEN doc.jobs[Subject].attempts ELSE 0
ResultsOf(doc) ==
  [o \in OpIds |-> IF doc.operations[o] = Subject THEN {doc.operation_results[o]} ELSE {}]

Lifecycle ==
  INSTANCE JobLifecycle WITH
    Operations <- OpIds,
    state <- StateOf(file),
    attempts <- AttemptsOf(file),
    results <- ResultsOf(file)

\* No call that replaces the document overlaps another: what a process read is on
\* disk for as long as its call lasts.
Undisturbed == \A p \in Procs : call[p] # NoCall => snapshot[p] = file

\* With no such overlap the document implements the lifecycle contract for any
\* one job.
ImplementsLifecycle == Lifecycle!LifecycleSpec

\* Whatever overlaps, retries or dies, every step is a step of the lifecycle
\* contract for any one job but the end of an overtaken call: an update is lost
\* to nothing else (store.py _load, _save).
OnlyOverlapBreaksLifecycle ==
  /\ Lifecycle!LifecycleInit
  /\ [][Lifecycle!LifecycleNext \/ \E p \in Procs : EndsOvertaken(p)]_(Lifecycle!lifecycleVars)
=============================================================================
