--------------------------- MODULE PipelineProofs ---------------------------
(***************************************************************************)
(* Proofs about Pipeline for any commits, outcomes, operator calls, crash  *)
(* points and bounds.                                                      *)
(***************************************************************************)
EXTENDS Pipeline, TLAPS

-----------------------------------------------------------------------------
(* Types.                                                                  *)

\* The points at which a dispatch is under way, and those at which its agent
\* has read the pull request.
Dispatching == Points \ {"idle", "dispatch"}
HeadRead == (ReviewerAt \ {"reviewer"}) \cup (MergerAt \ {"merger"})

AgentTyped ==
  /\ agent \in Agent
  /\ agent.at \in Dispatching => agent.from \in JobState
  /\ agent.at \in HeadRead => agent.head \in Heads

StoreTyped ==
  /\ state \in JobState /\ attempts \in Nat
  /\ done \subseteq TransitionOps
  /\ artifacts \in Artifact
  /\ dispatched \in [JobState -> Dispatch \cup {None}]

WorldTyped ==
  /\ github \in [eligible : BOOLEAN, pr : PrStatus, head : Heads, green : SUBSET Heads]
  /\ intents \in Intent
  /\ crashes \in 0 .. MaxCrashes

Typed == StoreTyped /\ WorldTyped /\ AgentTyped

LEMMA TypedSplits == Typed => TypeOK
BY DEF Typed, StoreTyped, WorldTyped, AgentTyped, TypeOK

LEMMA AllowedAreStates ==
  /\ \A s \in JobState : ALLOWED_TRANSITIONS[s] \subseteq JobState
  /\ \A s \in TERMINAL_STATES : ALLOWED_TRANSITIONS[s] = {}
BY DEF ALLOWED_TRANSITIONS, JobState, TERMINAL_STATES, Exits

\* What a move of the program counter leaves alone.
LEMMA GotoKeeps ==
  ASSUME AgentTyped, NEW point \in Points, Goto(point)
  PROVE  /\ agent' \in Agent /\ agent'.at = point
         /\ agent'.from = agent.from /\ agent'.head = agent.head
         /\ agent'.ok = agent.ok
BY DEF Goto, AgentTyped, Agent

\* A dispatch that goes on with what it knows.
LEMMA GotoTyped ==
  ASSUME AgentTyped, agent.at \in Dispatching, NEW point \in Points, Goto(point),
         point \in HeadRead => agent.at \in HeadRead
  PROVE  AgentTyped'
<1>1. /\ agent' \in Agent /\ agent'.at = point
      /\ agent'.from = agent.from /\ agent'.head = agent.head
  BY GotoKeeps
<1> QED BY <1>1 DEF AgentTyped, HeadRead, ReviewerAt, MergerAt, Dispatching, Points

LEMMA IdleTyped == Idle \in Agent /\ Idle.at = "idle" /\ Idle.from = None /\ ~Idle.ok
<1>1. 0 \in 0 .. MaxDispatches
  BY PipelineAssumption
<1> QED BY <1>1 DEF Idle, Agent, Points

LEMMA RaiseTyped == Raise => AgentTyped'
BY IdleTyped DEF Raise, AgentTyped, Dispatching, HeadRead, ReviewerAt, MergerAt

LEMMA TransitionEffect ==
  ASSUME StoreTyped, NEW target \in JobState, NEW op \in TransitionOps,
         TransitionStore(target, op)
  PROVE  /\ StoreTyped'
         /\ done' = done \cup {op} /\ state \notin TERMINAL_STATES
         /\ UNCHANGED <<artifacts, dispatched>>
<1>1. /\ state' = target /\ done' = done \cup {op}
      /\ UNCHANGED <<artifacts, dispatched>>
  BY DEF TransitionStore
<1>2. attempts' \in Nat
  BY DEF TransitionStore, StoreTyped
<1>3. state \notin TERMINAL_STATES
  BY AllowedAreStates DEF TransitionStore
<1> QED BY <1>1, <1>2, <1>3 DEF StoreTyped

\* What an agent's _transition may do, whatever the job's state.
LEMMA AgentTransitionEffect ==
  ASSUME StoreTyped, NEW target \in JobState, NEW op \in TransitionOps, NEW next,
         AgentTransition(target, op, next) \/ StoreTransition(target, op, next)
  PROVE  /\ StoreTyped' /\ UNCHANGED world
         /\ done' = done \/ (done' = done \cup {op} /\ Goto(next))
         /\ state' = state \/ state \notin TERMINAL_STATES
         /\ UNCHANGED <<artifacts, dispatched>>
         /\ Goto(next) \/ Raise
<1>1. CASE TransitionStore(target, op)
  BY <1>1, TransitionEffect DEF AgentTransition, StoreTransition, TransitionStore, Recorded
<1>2. CASE UNCHANGED store
  <2>1. UNCHANGED <<state, attempts, done, artifacts, dispatched>>
    BY <1>2 DEF store
  <2>2. StoreTyped'
    BY <2>1 DEF StoreTyped
  <2> QED BY <2>1, <2>2 DEF AgentTransition, StoreTransition
<1> QED BY <1>1, <1>2 DEF AgentTransition, StoreTransition

LEMMA AgentTransitionTyped ==
  ASSUME Typed, agent.at \in Dispatching,
         NEW target \in JobState, NEW op \in TransitionOps, NEW next \in Points,
         next \in HeadRead => agent.at \in HeadRead,
         AgentTransition(target, op, next) \/ StoreTransition(target, op, next)
  PROVE  Typed'
<1>1. StoreTyped' /\ UNCHANGED world /\ (Goto(next) \/ Raise)
  BY AgentTransitionEffect DEF Typed
<1>2. AgentTyped'
  BY <1>1, GotoTyped, RaiseTyped DEF Typed
<1> QED BY <1>1, <1>2 DEF Typed, WorldTyped, world

LEMMA GuardedTyped ==
  ASSUME Typed, NEW point \in Dispatching, NEW sources,
         NEW transition \in Points, NEW otherwise \in Points,
         transition \in HeadRead => point \in HeadRead,
         otherwise \in HeadRead => point \in HeadRead,
         Guarded(point, sources, transition, otherwise)
  PROVE  Typed'
<1>1. AgentTyped'
  <2>1. CASE state \in sources
    BY <2>1, GotoTyped DEF Guarded, At, Typed
  <2>2. CASE state \notin sources
    BY <2>2, GotoTyped DEF Guarded, At, Typed
  <2> QED BY <2>1, <2>2
<1> QED BY <1>1 DEF Guarded, Typed, StoreTyped, WorldTyped, store, world

LEMMA PersistTyped ==
  ASSUME Typed, agent.at \in Dispatching, NEW name, NEW payload, NEW next \in Points,
         next \in HeadRead => agent.at \in HeadRead,
         [artifacts EXCEPT ![name] = payload] \in Artifact,
         PersistArtifact(name, payload), Goto(next) \/ Raise
  PROVE  Typed'
<1>1. StoreTyped'
  BY DEF PersistArtifact, StoreTyped, Typed
<1>2. AgentTyped'
  BY GotoTyped, RaiseTyped DEF Typed
<1> QED BY <1>1, <1>2 DEF PersistArtifact, Typed, WorldTyped, world

LEMMA ConclusionTyped ==
  ASSUME Typed, agent.at \in HeadRead
  PROVE  Conclusion \in Verdict
BY DEF Conclusion, Verdict, Typed, AgentTyped, Agent

\* What a Reviewer or Merger knows when it has read the pull request.
LEMMA EnterKeeps ==
  ASSUME Typed, agent.at \in Dispatching, NEW point \in HeadRead, NEW ok \in BOOLEAN,
         agent' = [agent EXCEPT !.at = point, !.entered = state, !.head = github.head,
                                !.ok = ok]
  PROVE  /\ AgentTyped' /\ agent'.at = point /\ agent'.from = agent.from
         /\ agent'.head = github.head /\ agent'.ok = ok
BY DEF Typed, AgentTyped, StoreTyped, WorldTyped, Agent, Points, HeadRead, Dispatching,
       ReviewerAt, MergerAt

\* What it knows when it has read the checks as well.
LEMMA ChecksKeep ==
  ASSUME Typed, agent.at \in HeadRead, NEW point \in HeadRead, NEW ok \in BOOLEAN,
         agent' = [agent EXCEPT !.at = point, !.ok = ok]
  PROVE  /\ AgentTyped' /\ agent'.at = point /\ agent'.from = agent.from
         /\ agent'.head = agent.head /\ agent'.ok = ok
BY DEF Typed, AgentTyped, Agent, Points, HeadRead, Dispatching, ReviewerAt, MergerAt

\* A dispatch begins, or the next one of run_to_terminal does.
LEMMA NextDispatchTyped ==
  ASSUME NEW pr \in BOOLEAN, NEW left \in 0 .. MaxDispatches,
         agent' = [Idle EXCEPT !.at = "dispatch", !.pr = pr, !.left = left]
  PROVE  AgentTyped' /\ agent'.at = "dispatch" /\ agent'.from = None /\ ~agent'.ok
BY DEF Idle, AgentTyped, Agent, Points, HeadRead, Dispatching, ReviewerAt, MergerAt

LEMMA ReturnTyped ==
  ASSUME Typed, NEW result, NEW from, Return(result, from)
  PROVE  /\ AgentTyped' /\ agent'.at \in {"idle", "dispatch"}
         /\ agent'.from = None /\ ~agent'.ok
<1>1. CASE agent.left <= 1 \/ result.terminal \/ state = from
  BY <1>1, RaiseTyped, IdleTyped DEF Return, Raise
<1>2. CASE ~(agent.left <= 1 \/ result.terminal \/ state = from)
  <2>1. agent.left \in 0 .. MaxDispatches
    BY DEF Typed, AgentTyped, Agent
  <2>2. agent.left - 1 \in 0 .. MaxDispatches
    BY <1>2, <2>1, PipelineAssumption
  <2> QED BY <1>2, <2>2, NextDispatchTyped DEF Return
<1> QED BY <1>1, <1>2

LEMMA WorkerTypes ==
  ASSUME Typed, Worker PROVE Typed'
<1>1. CASE WorkerEnter
  <2>1. agent.at \in Dispatching
    BY <1>1 DEF WorkerEnter, At, Dispatching, Points, WorkerAt
  <2>2. AgentTyped'
    <3>1. CASE Raise
      BY <3>1, RaiseTyped
    <3>2. CASE Goto("claim") \/ Goto("may-execute") \/ Goto("claim-ineligible") \/ Goto("may-block")
      BY <2>1, <3>2, GotoTyped DEF Typed, Points, WorkerAt, HeadRead, ReviewerAt, MergerAt
    <3> QED BY <1>1, <3>1, <3>2 DEF WorkerEnter
  <2> QED BY <1>1, <2>2 DEF WorkerEnter, Typed, StoreTyped, WorldTyped, store, world
<1>2. CASE WorkerClaimIneligible
  BY <1>2, AgentTransitionTyped
     DEF WorkerClaimIneligible, At, TransitionOps, PipelineOps, JobState, TERMINAL_STATES,
         Dispatching, HeadRead, Points, WorkerAt, ReviewerAt, MergerAt
<1>3. CASE WorkerMayBlock
  BY <1>3, GuardedTyped DEF WorkerMayBlock, Dispatching, HeadRead, Points, WorkerAt,
                        ReviewerAt, MergerAt
<1>4. CASE WorkerBlock
  BY <1>4, AgentTransitionTyped
     DEF WorkerBlock, At, TransitionOps, PipelineOps, JobState, TERMINAL_STATES,
         Dispatching, HeadRead, Points, WorkerAt, ReviewerAt, MergerAt
<1>5. CASE WorkerIneligible
  <2>1. [artifacts EXCEPT !["eligibility"] = "ineligible"] \in Artifact
    BY DEF Typed, StoreTyped, Artifact
  <2>2. "idle" \in Points /\ "idle" \notin HeadRead /\ agent.at \in Dispatching
    BY <1>5 DEF WorkerIneligible, At, Points, HeadRead, Dispatching, WorkerAt,
                ReviewerAt, MergerAt
  <2> QED BY <1>5, <2>1, <2>2, PersistTyped DEF WorkerIneligible
<1>6. CASE WorkerClaim
  BY <1>6, AgentTransitionTyped
     DEF WorkerClaim, At, TransitionOps, PipelineOps, JobState, TERMINAL_STATES,
         Dispatching, HeadRead, Points, WorkerAt, ReviewerAt, MergerAt
<1>7. CASE WorkerMayExecute
  BY <1>7, GuardedTyped DEF WorkerMayExecute, Dispatching, HeadRead, Points, WorkerAt,
                        ReviewerAt, MergerAt
<1>8. CASE WorkerExecute
  BY <1>8, AgentTransitionTyped
     DEF WorkerExecute, At, TransitionOps, PipelineOps, JobState, TERMINAL_STATES,
         Dispatching, HeadRead, Points, WorkerAt, ReviewerAt, MergerAt
<1>9. CASE WorkerPlan
  <2>1. [artifacts EXCEPT !["plan"] = "plan"] \in Artifact
    BY DEF Typed, StoreTyped, Artifact
  <2> QED BY <1>9, <2>1, PersistTyped DEF WorkerPlan, Persist, At, Dispatching, HeadRead,
                        Points, WorkerAt, ReviewerAt, MergerAt
<1>10. CASE WorkerMayValidate
  BY <1>10, GuardedTyped DEF WorkerMayValidate, Dispatching, HeadRead, Points, WorkerAt,
                        ReviewerAt, MergerAt
<1>11. CASE WorkerValidate
  BY <1>11, AgentTransitionTyped
     DEF WorkerValidate, At, TransitionOps, PipelineOps, JobState, TERMINAL_STATES,
         Dispatching, HeadRead, Points, WorkerAt, ReviewerAt, MergerAt
<1>12. CASE RunValidation
  <2>1. PICK outcome \in Outcomes : Persist("validation", outcome, "worker-result")
    BY <1>12 DEF RunValidation
  <2>2. [artifacts EXCEPT !["validation"] = outcome] \in Artifact
    BY PipelineAssumption DEF Typed, StoreTyped, Artifact
  <2> QED BY <1>12, <2>1, <2>2, PersistTyped DEF RunValidation, Persist, At, Dispatching,
                        HeadRead, Points, WorkerAt, ReviewerAt, MergerAt
<1>13. CASE WorkerResult
  <2>1. [artifacts EXCEPT !["worker"] = "result"] \in Artifact
    BY DEF Typed, StoreTyped, Artifact
  <2> QED BY <1>13, <2>1, PersistTyped DEF WorkerResult, Persist, At, Dispatching,
                        HeadRead, Points, WorkerAt, ReviewerAt, MergerAt
<1> QED BY <1>1, <1>2, <1>3, <1>4, <1>5, <1>6, <1>7, <1>8, <1>9, <1>10, <1>11, <1>12,
<1>13 DEF Worker

LEMMA ReviewerTypes ==
  ASSUME Typed, Reviewer PROVE Typed'
<1>1. CASE ReviewerEnter
  <2>1. agent.at \in Dispatching
    BY <1>1 DEF ReviewerEnter, At, Dispatching, HeadRead, Points, WorkerAt, ReviewerAt,
                MergerAt
  <2>2. AgentTyped'
    <3>1. CASE Raise
      BY <3>1, RaiseTyped
    <3>2. CASE ~Raise
      <4> DEFINE ok == (artifacts.validation = "passed" /\ github.pr \in {"ready",
      "rebased"})
      <4>1. ok \in BOOLEAN
        OBVIOUS
      <4>2. agent' = [agent EXCEPT !.at = "review-checks", !.entered = state,
                                   !.head = github.head, !.ok = ok]
        BY <1>1, <3>2 DEF ReviewerEnter
      <4>3. "review-checks" \in HeadRead
        BY DEF HeadRead, ReviewerAt, MergerAt
      <4> HIDE DEF ok
      <4> QED BY <2>1, <4>1, <4>2, <4>3, EnterKeeps
    <3> QED BY <3>1, <3>2
  <2> QED BY <1>1, <2>2 DEF ReviewerEnter, Typed, StoreTyped, WorldTyped, store, world
<1>2. CASE ReviewerChecks
  <2> DEFINE point == IF agent.entered = "validating" THEN "start-review" ELSE "review-report"
             ok == agent.ok /\ agent.head \in github.green
  <2>1. point \in HeadRead /\ ok \in BOOLEAN /\ agent.at \in HeadRead
    BY <1>2 DEF ReviewerChecks, At, HeadRead, ReviewerAt, MergerAt
  <2>2. agent' = [agent EXCEPT !.at = point, !.ok = ok]
    BY <1>2 DEF ReviewerChecks
  <2> HIDE DEF point, ok
  <2>3. AgentTyped'
    BY <2>1, <2>2, ChecksKeep
  <2> QED BY <1>2, <2>3 DEF ReviewerChecks, Typed, StoreTyped, WorldTyped, store, world
<1>3. CASE ReviewerStart
  BY <1>3, AgentTransitionTyped
     DEF ReviewerStart, At, TransitionOps, PipelineOps, JobState, TERMINAL_STATES,
         Dispatching, HeadRead, Points, WorkerAt, ReviewerAt, MergerAt
<1>4. CASE ReviewerReport
  <2>1. [artifacts EXCEPT !["review_report"] = Conclusion] \in Artifact
    <3>1. Conclusion \in Verdict
      BY <1>4, ConclusionTyped DEF ReviewerReport, At, HeadRead, ReviewerAt, MergerAt
    <3> QED BY <3>1 DEF Typed, StoreTyped, Artifact
  <2> QED BY <1>4, <2>1, PersistTyped DEF ReviewerReport, Persist, At, Dispatching,
                        HeadRead, Points, WorkerAt, ReviewerAt, MergerAt
<1>5. CASE ReviewerSubmit
  <2>1. Conclusion \in Verdict
    BY <1>5, ConclusionTyped DEF ReviewerSubmit, At, HeadRead, ReviewerAt, MergerAt
  <2>2. [intents EXCEPT !["submit_review"] = Conclusion] \in Intent
    BY <2>1 DEF Typed, WorldTyped, Intent
  <2>3. WorldTyped'
    BY <1>5, <2>2 DEF ReviewerSubmit, Intend, Typed, WorldTyped
  <2>4. AgentTyped'
    BY <1>5, GotoTyped DEF ReviewerSubmit, Intend, At, Typed,
       Dispatching, HeadRead, Points, WorkerAt, ReviewerAt, MergerAt
  <2> QED BY <1>5, <2>3, <2>4 DEF ReviewerSubmit, Intend, Typed, StoreTyped, store
<1>6. CASE ReviewerResult
  <2>1. [artifacts EXCEPT !["review"] = Conclusion] \in Artifact
    <3>1. Conclusion \in Verdict
      BY <1>6, ConclusionTyped DEF ReviewerResult, At, HeadRead, ReviewerAt, MergerAt
    <3> QED BY <3>1 DEF Typed, StoreTyped, Artifact
  <2> QED BY <1>6, <2>1, PersistTyped DEF ReviewerResult, Persist, At, Dispatching,
                        HeadRead, Points, WorkerAt, ReviewerAt, MergerAt
<1>7. CASE ReviewerMayApprove
  BY <1>7, GuardedTyped DEF ReviewerMayApprove, Dispatching, HeadRead, Points, WorkerAt,
                        ReviewerAt, MergerAt
<1>8. CASE ReviewerApprove
  BY <1>8, AgentTransitionTyped
     DEF ReviewerApprove, At, TransitionOps, PipelineOps, JobState, TERMINAL_STATES,
         Dispatching, HeadRead, Points, WorkerAt, ReviewerAt, MergerAt
<1> QED BY <1>1, <1>2, <1>3, <1>4, <1>5, <1>6, <1>7, <1>8 DEF Reviewer

LEMMA MergerTypes ==
  ASSUME Typed, Merger PROVE Typed'
<1>1. CASE MergerEnter
  <2>1. agent.at \in Dispatching
    BY <1>1 DEF MergerEnter, At, Dispatching, HeadRead, Points, WorkerAt, ReviewerAt,
                MergerAt
  <2>2. AgentTyped'
    <3>1. CASE Raise
      BY <3>1, RaiseTyped
    <3>2. CASE ~Raise
      <4> DEFINE ok == (/\ artifacts.review.ok
                     /\ artifacts.review.head = github.head
                     /\ artifacts.validation = "passed"
                     /\ github.pr = "ready")
      <4>1. ok \in BOOLEAN
        OBVIOUS
      <4>2. agent' = [agent EXCEPT !.at = "merge-checks", !.entered = state,
                                   !.head = github.head, !.ok = ok]
        BY <1>1, <3>2 DEF MergerEnter
      <4>3. "merge-checks" \in HeadRead
        BY DEF HeadRead, ReviewerAt, MergerAt
      <4> HIDE DEF ok
      <4> QED BY <2>1, <4>1, <4>2, <4>3, EnterKeeps
    <3> QED BY <3>1, <3>2
  <2> QED BY <1>1, <2>2 DEF MergerEnter, Typed, StoreTyped, WorldTyped, store, world
<1>2. CASE MergerChecks
  <2> DEFINE point == "merge-report"
             ok == agent.ok /\ agent.head \in github.green
  <2>1. point \in HeadRead /\ ok \in BOOLEAN /\ agent.at \in HeadRead
    BY <1>2 DEF MergerChecks, At, HeadRead, ReviewerAt, MergerAt
  <2>2. agent' = [agent EXCEPT !.at = point, !.ok = ok]
    BY <1>2 DEF MergerChecks
  <2> HIDE DEF point, ok
  <2>3. AgentTyped'
    BY <2>1, <2>2, ChecksKeep
  <2> QED BY <1>2, <2>3 DEF MergerChecks, Typed, StoreTyped, WorldTyped, store, world
<1>3. CASE MergerReport
  <2>1. [artifacts EXCEPT !["merge_report"] = Conclusion] \in Artifact
    <3>1. Conclusion \in Verdict
      BY <1>3, ConclusionTyped DEF MergerReport, At, HeadRead, ReviewerAt, MergerAt
    <3> QED BY <3>1 DEF Typed, StoreTyped, Artifact
  <2> QED BY <1>3, <2>1, PersistTyped DEF MergerReport, Persist, At, Dispatching,
                        HeadRead, Points, WorkerAt, ReviewerAt, MergerAt
<1>4. CASE MergerDecision
  <2>1. [artifacts EXCEPT !["decision"] = Conclusion] \in Artifact
    <3>1. Conclusion \in Verdict
      BY <1>4, ConclusionTyped DEF MergerDecision, At, HeadRead, ReviewerAt, MergerAt
    <3> QED BY <3>1 DEF Typed, StoreTyped, Artifact
  <2> QED BY <1>4, <2>1, PersistTyped DEF MergerDecision, Persist, At, Dispatching,
                        HeadRead, Points, WorkerAt, ReviewerAt, MergerAt
<1>5. CASE MergerMayStart
  BY <1>5, GuardedTyped DEF MergerMayStart, Dispatching, HeadRead, Points, WorkerAt,
                        ReviewerAt, MergerAt
<1>6. CASE MergerStart
  BY <1>6, AgentTransitionTyped
     DEF MergerStart, At, TransitionOps, PipelineOps, JobState, TERMINAL_STATES,
         Dispatching, HeadRead, Points, WorkerAt, ReviewerAt, MergerAt
<1>7. CASE MergerMerge
  <2>1. agent.head \in Heads
    BY <1>7 DEF MergerMerge, At, HeadRead, ReviewerAt, MergerAt, Typed, AgentTyped
  <2>2. [intents EXCEPT !["merge_pull_request"] = agent.head] \in Intent
    BY <2>1 DEF Typed, WorldTyped, Intent
  <2>3. WorldTyped'
    BY <1>7, <2>2 DEF MergerMerge, Intend, Typed, WorldTyped
  <2>4. AgentTyped'
    BY <1>7, GotoTyped DEF MergerMerge, Intend, At, Typed,
       Dispatching, HeadRead, Points, WorkerAt, ReviewerAt, MergerAt
  <2> QED BY <1>7, <2>3, <2>4 DEF MergerMerge, Intend, Typed, StoreTyped, store
<1>8. CASE MergerResult
  <2>1. [artifacts EXCEPT !["merge"] = agent.head] \in Artifact
    <3>1. agent.head \in Heads
      BY <1>8 DEF MergerResult, At, HeadRead, ReviewerAt, MergerAt, Typed, AgentTyped
    <3> QED BY <3>1 DEF Typed, StoreTyped, Artifact
  <2> QED BY <1>8, <2>1, PersistTyped DEF MergerResult, Persist, At, Dispatching,
                        HeadRead, Points, WorkerAt, ReviewerAt, MergerAt
<1>9. CASE MergerMayComplete
  BY <1>9, GuardedTyped DEF MergerMayComplete, Dispatching, HeadRead, Points, WorkerAt,
                        ReviewerAt, MergerAt
<1>10. CASE MergerComplete
  BY <1>10, AgentTransitionTyped
     DEF MergerComplete, At, TransitionOps, PipelineOps, JobState, TERMINAL_STATES,
         Dispatching, HeadRead, Points, WorkerAt, ReviewerAt, MergerAt
<1> QED BY <1>1, <1>2, <1>3, <1>4, <1>5, <1>6, <1>7, <1>8, <1>9, <1>10 DEF Merger

LEMMA OrchestratorTypes ==
  ASSUME Typed, Orchestrator PROVE Typed'
<1>1. CASE DispatchCached
  BY <1>1, ReturnTyped DEF DispatchCached, Typed, StoreTyped, WorldTyped, store, world
<1>2. CASE DispatchFresh
  <2>1. AgentTyped'
    <3>1. CASE Raise
      BY <3>1, RaiseTyped
    <3>2. CASE agent' = [agent EXCEPT !.at = Owner, !.from = state]
      <4>1. Owner \in {"worker", "reviewer", "merger", "record-dispatch"}
        BY DEF Owner
      <4> QED BY <3>2, <4>1 DEF Typed, AgentTyped, Agent, StoreTyped, Dispatching,
                        HeadRead, Points, WorkerAt, ReviewerAt, MergerAt
    <3> QED BY <1>2, <3>1, <3>2 DEF DispatchFresh
  <2> QED BY <1>2, <2>1 DEF DispatchFresh, Typed, StoreTyped, WorldTyped, store, world
<1>3. CASE RecordDispatch
  <2>1. agent.from \in JobState
    BY <1>3 DEF RecordDispatch, At, Typed, AgentTyped, Dispatching, Points
  <2>2. AgentTyped'
    BY <1>3, ReturnTyped DEF RecordDispatch
  <2>3. dispatched' \in [JobState -> Dispatch \cup {None}]
    BY <1>3, <2>1 DEF RecordDispatch, Typed, StoreTyped, Dispatch
  <2> QED BY <1>3, <2>2, <2>3 DEF RecordDispatch, Typed, StoreTyped, WorldTyped, world
<1> QED BY <1>1, <1>2, <1>3 DEF Orchestrator

LEMMA AroundTypes ==
  ASSUME Typed,
         \/ CallDispatchOnce \/ CallRunToTerminal \/ Crash
         \/ OperatorTransition \/ GitHubChanges \/ GitHubFails \/ ValidationRaises
  PROVE  Typed'
<1>1. CASE CallDispatchOnce
  <2>1. PICK pr \in BOOLEAN : agent' = [Idle EXCEPT !.at = "dispatch", !.pr = pr]
    BY <1>1 DEF CallDispatchOnce
  <2>2. 0 \in 0 .. MaxDispatches
    BY PipelineAssumption
  <2>3. AgentTyped'
    BY <2>1, <2>2 DEF Idle, AgentTyped, Agent, Dispatching, HeadRead, Points, WorkerAt,
                      ReviewerAt, MergerAt
  <2> QED BY <1>1, <2>3 DEF CallDispatchOnce, Typed, StoreTyped, WorldTyped, store, world
<1>2. CASE CallRunToTerminal
  <2>1. MaxDispatches \in 0 .. MaxDispatches
    BY PipelineAssumption
  <2>2. AgentTyped'
    BY <1>2, <2>1, NextDispatchTyped DEF CallRunToTerminal
  <2> QED BY <1>2, <2>2 DEF CallRunToTerminal, Typed, StoreTyped, WorldTyped, store, world
<1>3. CASE Crash
  <2>1. AgentTyped'
    BY <1>3, RaiseTyped DEF Crash, Raise
  <2>2. crashes' \in 0 .. MaxCrashes
    BY <1>3, PipelineAssumption DEF Crash, Typed, WorldTyped
  <2>3. intents' \in Intent
    BY <1>3 DEF Crash, NoIntents, Intent
  <2> QED BY <1>3, <2>1, <2>2, <2>3 DEF Crash, Typed, StoreTyped, WorldTyped, store
<1>4. CASE OperatorTransition
  <2>1. PICK op \in CliOps, target \in CliTargets : TransitionStore(target, op)
    BY <1>4 DEF OperatorTransition
  <2>2. op \in TransitionOps /\ target \in JobState
    BY PipelineAssumption DEF TransitionOps
  <2>3. StoreTyped'
    BY <2>1, <2>2, TransitionEffect DEF Typed
  <2> QED BY <1>4, <2>3 DEF OperatorTransition, Typed, AgentTyped, WorldTyped
<1>5. CASE GitHubChanges
  <2>1. github' \in [eligible : BOOLEAN, pr : PrStatus, head : Heads, green : SUBSET Heads]
    <3>1. CASE github' = [github EXCEPT !.eligible = ~@]
      BY <3>1 DEF Typed, WorldTyped
    <3>2. CASE \E pr \in PrStatuses : github' = [github EXCEPT !.pr = pr]
      BY <3>2, PipelineAssumption DEF Typed, WorldTyped
    <3>3. CASE \E h \in Heads : github' = [github EXCEPT !.head = h]
      BY <3>3 DEF Typed, WorldTyped
    <3>4. CASE \E h \in Heads :
                 github' = [github EXCEPT !.green = IF h \in @ THEN @ \ {h} ELSE @ \cup {h}]
      <4>1. PICK h \in Heads :
               github' = [github EXCEPT !.green = IF h \in github.green THEN github.green \ {h}
                                                  ELSE github.green \cup {h}]
        BY <3>4
      <4>2. /\ github.green \ {h} \in SUBSET Heads
            /\ github.green \cup {h} \in SUBSET Heads
        BY <4>1 DEF Typed, WorldTyped
      <4> QED BY <4>1, <4>2 DEF Typed, WorldTyped
    <3> QED BY <1>5, <3>1, <3>2, <3>3, <3>4 DEF GitHubChanges
  <2> QED BY <1>5, <2>1 DEF GitHubChanges, Typed, AgentTyped, WorldTyped, StoreTyped, store
<1>6. CASE GitHubFails \/ ValidationRaises
  BY <1>6, RaiseTyped DEF GitHubFails, ValidationRaises, Typed, WorldTyped, StoreTyped, store, world
<1> QED BY <1>1, <1>2, <1>3, <1>4, <1>5, <1>6

LEMMA TypedInit == Init => Typed
<1> SUFFICES ASSUME Init PROVE Typed
  OBVIOUS
<1>1. AgentTyped
  BY IdleTyped DEF Init, AgentTyped, Dispatching, HeadRead, ReviewerAt, MergerAt
<1>2. StoreTyped
  BY DEF Init, StoreTyped, JobState, NoArtifacts, Artifact, Dispatch
<1>3. WorldTyped
  <2>1. github \in [eligible : BOOLEAN, pr : PrStatus, head : Heads, green : SUBSET Heads]
    BY DEF Init, PrStatus
  <2> QED BY <2>1, PipelineAssumption DEF Init, WorldTyped, NoIntents, Intent
<1> QED BY <1>1, <1>2, <1>3 DEF Typed

LEMMA TypedNext == Typed /\ [Next]_vars => Typed'
<1> SUFFICES ASSUME Typed, [Next]_vars PROVE Typed'
  OBVIOUS
<1>1. CASE UNCHANGED vars
  BY <1>1 DEF vars, Typed, StoreTyped, WorldTyped, AgentTyped
<1>2. CASE Next
  BY <1>2, WorkerTypes, ReviewerTypes, MergerTypes, OrchestratorTypes, AroundTypes
     DEF Next, AgentStep
<1> QED BY <1>1, <1>2

\* The pipeline's variables always have their types.
THEOREM TypeCorrect == Spec => []TypeOK
<1>1. Spec => []Typed
  BY TypedInit, TypedNext, PTL DEF Spec
<1> QED BY <1>1, TypedSplits, PTL

-----------------------------------------------------------------------------
(* The store only grows.                                                   *)

StoreGrows ==
  /\ \A a \in DOMAIN artifacts : artifacts[a] # None => artifacts'[a] = artifacts[a]
  /\ \A s \in JobState : dispatched[s] # None => dispatched'[s] = dispatched[s]
  /\ state \in TERMINAL_STATES => state' = state

LEMMA PersistGrows ==
  ASSUME Typed, NEW name, NEW payload, PersistArtifact(name, payload)
  PROVE  StoreGrows
BY DEF PersistArtifact, StoreGrows, Typed, StoreTyped, Artifact

LEMMA AgentTransitionGrows ==
  ASSUME Typed, NEW target \in JobState, NEW op \in TransitionOps, NEW next,
         AgentTransition(target, op, next) \/ StoreTransition(target, op, next)
  PROVE  StoreGrows
BY AgentTransitionEffect DEF Typed, StoreGrows

LEMMA Growing == Typed /\ [Next]_vars => StoreGrows
<1> SUFFICES ASSUME Typed, [Next]_vars PROVE StoreGrows
  OBVIOUS
<1>1. CASE Worker
  BY <1>1, PersistGrows, AgentTransitionGrows
     DEF Worker, WorkerEnter, WorkerClaimIneligible, WorkerMayBlock, WorkerBlock,
         WorkerIneligible, WorkerClaim, WorkerMayExecute, WorkerExecute, WorkerPlan,
         WorkerMayValidate, WorkerValidate, RunValidation, WorkerResult,
         Guarded, Persist, StoreGrows, store, TransitionOps, PipelineOps, JobState,
         TERMINAL_STATES
<1>2. CASE Reviewer
  BY <1>2, PersistGrows, AgentTransitionGrows
     DEF Reviewer, ReviewerEnter, ReviewerChecks, ReviewerStart, ReviewerReport,
         ReviewerSubmit,
         ReviewerResult, ReviewerMayApprove, ReviewerApprove,
         Guarded, Persist, Intend, StoreGrows, store, TransitionOps, PipelineOps,
         JobState, TERMINAL_STATES
<1>3. CASE Merger
  BY <1>3, PersistGrows, AgentTransitionGrows
     DEF Merger, MergerEnter, MergerChecks, MergerReport, MergerDecision, MergerMayStart,
         MergerStart, MergerMerge, MergerResult, MergerMayComplete, MergerComplete,
         Guarded, Persist, Intend, StoreGrows, store, TransitionOps, PipelineOps,
         JobState, TERMINAL_STATES
<1>4. CASE Orchestrator
  BY <1>4 DEF Orchestrator, DispatchCached, DispatchFresh, RecordDispatch, StoreGrows,
              store,
              Typed, StoreTyped
<1>5. CASE OperatorTransition
  <2>1. PICK op \in CliOps, target \in CliTargets : TransitionStore(target, op)
    BY <1>5 DEF OperatorTransition
  <2> QED BY <2>1, TransitionEffect, PipelineAssumption DEF TransitionOps, Typed, StoreGrows
<1>6. CASE CallDispatchOnce \/ CallRunToTerminal \/ Crash \/ GitHubChanges \/ GitHubFails \/ ValidationRaises
  BY <1>6 DEF CallDispatchOnce, CallRunToTerminal, Crash, GitHubChanges, GitHubFails, ValidationRaises,
              store, StoreGrows
<1>7. CASE UNCHANGED vars
  BY <1>7 DEF vars, StoreGrows
<1> QED BY <1>1, <1>2, <1>3, <1>4, <1>5, <1>6, <1>7 DEF Next, AgentStep

\* Evidence, once persisted, is never replaced.
THEOREM EvidenceKept == Spec => EvidenceIsImmutable
<1>1. Typed /\ [Next]_vars =>
        [/\ \A a \in DOMAIN artifacts :
               artifacts[a] # None => artifacts'[a] = artifacts[a]
         /\ \A s \in JobState :
               dispatched[s] # None => dispatched'[s] = dispatched[s]]_vars
  BY Growing DEF StoreGrows
<1> QED BY <1>1, TypedInit, TypedNext, PTL DEF Spec, EvidenceIsImmutable

-----------------------------------------------------------------------------
(* What the agents conclude is backed by what they persisted.              *)

\* The inductive strengthening: what an agent between two writes knows.
AgentJustified ==
  /\ agent.at \in MergerAt \ {"merger"} /\ agent.ok => Approved(agent.head)
  /\ agent.at \in {"may-merge", "start-merge", "merge", "merge-result",
                   "may-complete", "complete"} => agent.ok
  /\ agent.at \in {"may-complete", "complete"} => artifacts.merge # None
  /\ agent.at \in ReviewerAt \ {"reviewer"} /\ agent.ok =>
       artifacts.worker # None /\ artifacts.validation = "passed"
  /\ agent.at = "approve" => agent.ok
  /\ agent.from \in TERMINAL_STATES => state \in TERMINAL_STATES

\* StoreGrows, for the artifacts the invariants speak of.
LEMMA ArtifactsKept ==
  ASSUME Typed, StoreGrows
  PROVE  /\ artifacts.review # None => artifacts'.review = artifacts.review
         /\ artifacts.worker # None => artifacts'.worker = artifacts.worker
         /\ artifacts.merge # None => artifacts'.merge = artifacts.merge
         /\ artifacts.validation = "passed" => artifacts'.validation = "passed"
BY PipelineAssumption DEF StoreGrows, Typed, StoreTyped, Artifact, ValidationStatus

LEMMA AgentStays ==
  ASSUME Typed, StoreGrows, AgentJustified,
         agent'.from = agent.from, agent'.head = agent.head, agent'.ok = agent.ok,
         agent'.at \in MergerAt \ {"merger"} => agent.at \in MergerAt \ {"merger"},
         agent'.at \in ReviewerAt \ {"reviewer"} => agent.at \in ReviewerAt \ {"reviewer"},
         agent'.at \in {"may-merge", "start-merge", "merge", "merge-result",
                        "may-complete", "complete", "approve"} => agent.ok,
         agent'.at \in {"may-complete", "complete"} => artifacts'.merge # None
  PROVE  AgentJustified'
BY ArtifactsKept DEF AgentJustified, Approved, StoreGrows

LEMMA AgentLeaves ==
  ASSUME agent'.at \in {"idle", "dispatch"}, agent'.from = None
  PROVE  AgentJustified'
BY PipelineAssumption DEF AgentJustified, ReviewerAt, MergerAt, JobState

LEMMA RaiseLeaves == Raise => AgentJustified'
BY AgentLeaves, IdleTyped DEF Raise

LEMMA WorkerJustified ==
  ASSUME Typed, AgentJustified, StoreGrows, Worker
  PROVE  AgentJustified'
<1>1. CASE WorkerEnter
  BY <1>1, GotoKeeps, AgentStays, RaiseLeaves
     DEF WorkerEnter, At, Typed, AgentJustified, Points, WorkerAt, ReviewerAt, MergerAt
<1>2. CASE WorkerClaimIneligible
  BY <1>2, AgentTransitionEffect, GotoKeeps, AgentStays, RaiseLeaves
     DEF WorkerClaimIneligible, At, Typed, AgentJustified, TransitionOps, PipelineOps,
         JobState,
         TERMINAL_STATES, Points, WorkerAt, ReviewerAt, MergerAt
<1>3. CASE WorkerMayBlock
  BY <1>3, GotoKeeps, AgentStays
     DEF WorkerMayBlock, Guarded, At, Typed, AgentJustified, store, Points, WorkerAt,
         ReviewerAt, MergerAt
<1>4. CASE WorkerBlock
  BY <1>4, AgentTransitionEffect, GotoKeeps, AgentStays, RaiseLeaves
     DEF WorkerBlock, At, Typed, AgentJustified, TransitionOps, PipelineOps, JobState,
         TERMINAL_STATES, Points, WorkerAt, ReviewerAt, MergerAt
<1>5. CASE WorkerIneligible
  BY <1>5, RaiseLeaves DEF WorkerIneligible
<1>6. CASE WorkerClaim
  BY <1>6, AgentTransitionEffect, GotoKeeps, AgentStays, RaiseLeaves
     DEF WorkerClaim, At, Typed, AgentJustified, TransitionOps, PipelineOps, JobState,
         TERMINAL_STATES, Points, WorkerAt, ReviewerAt, MergerAt
<1>7. CASE WorkerMayExecute
  BY <1>7, GotoKeeps, AgentStays
     DEF WorkerMayExecute, Guarded, At, Typed, AgentJustified, store, Points, WorkerAt,
         ReviewerAt, MergerAt
<1>8. CASE WorkerExecute
  BY <1>8, AgentTransitionEffect, GotoKeeps, AgentStays, RaiseLeaves
     DEF WorkerExecute, At, Typed, AgentJustified, TransitionOps, PipelineOps, JobState,
         TERMINAL_STATES, Points, WorkerAt, ReviewerAt, MergerAt
<1>9. CASE WorkerPlan
  BY <1>9, GotoKeeps, AgentStays
     DEF WorkerPlan, Persist, At, Typed, AgentJustified, Points, WorkerAt, ReviewerAt,
         MergerAt
<1>10. CASE WorkerMayValidate
  BY <1>10, GotoKeeps, AgentStays
     DEF WorkerMayValidate, Guarded, At, Typed, AgentJustified, store, Points, WorkerAt,
         ReviewerAt, MergerAt
<1>11. CASE WorkerValidate
  BY <1>11, AgentTransitionEffect, GotoKeeps, AgentStays, RaiseLeaves
     DEF WorkerValidate, At, Typed, AgentJustified, TransitionOps, PipelineOps, JobState,
         TERMINAL_STATES, Points, WorkerAt, ReviewerAt, MergerAt
<1>12. CASE RunValidation
  BY <1>12, GotoKeeps, AgentStays
     DEF RunValidation, Persist, At, Typed, AgentJustified, Points, WorkerAt, ReviewerAt,
         MergerAt
<1>13. CASE WorkerResult
  BY <1>13, GotoKeeps, AgentStays
     DEF WorkerResult, Persist, At, Typed, AgentJustified, Points, WorkerAt, ReviewerAt,
         MergerAt
<1> QED BY <1>1, <1>2, <1>3, <1>4, <1>5, <1>6, <1>7, <1>8, <1>9, <1>10, <1>11, <1>12,
<1>13 DEF Worker

LEMMA ReviewerJustified ==
  ASSUME Typed, AgentJustified, StoreGrows, Reviewer
  PROVE  AgentJustified'
<1>1. CASE ReviewerEnter
  <2>1. CASE Raise
    BY <2>1, RaiseLeaves
  <2>2. CASE ~Raise
    <3> DEFINE ok == (artifacts.validation = "passed" /\ github.pr \in {"ready", "rebased"})
    <3>1. /\ agent' = [agent EXCEPT !.at = "review-checks", !.entered = state,
                                    !.head = github.head, !.ok = ok]
          /\ artifacts.worker # None
      BY <1>1, <2>2 DEF ReviewerEnter
    <3>2. agent.at \in Dispatching /\ "review-checks" \in HeadRead /\ ok \in BOOLEAN
      BY <1>1 DEF ReviewerEnter, At, Dispatching, HeadRead, Points, WorkerAt, ReviewerAt,
                  MergerAt
    <3>3. /\ agent'.at = "review-checks" /\ agent'.from = agent.from
          /\ agent'.head = github.head /\ agent'.ok = ok
      <4> HIDE DEF ok
      <4> QED BY <3>1, <3>2, EnterKeeps
    <3> QED BY <1>1, <3>1, <3>3
            DEF ReviewerEnter, AgentJustified, Approved, ReviewerAt, MergerAt, store
  <2> QED BY <2>1, <2>2
<1>2. CASE ReviewerChecks
  <2> DEFINE point == IF agent.entered = "validating" THEN "start-review" ELSE "review-report"
             ok == agent.ok /\ agent.head \in github.green
  <2>1. point \in HeadRead /\ ok \in BOOLEAN /\ agent.at \in HeadRead
    BY <1>2 DEF ReviewerChecks, At, HeadRead, ReviewerAt, MergerAt
  <2>2. agent' = [agent EXCEPT !.at = point, !.ok = ok]
    BY <1>2 DEF ReviewerChecks
  <2>3. /\ agent'.at = point /\ agent'.from = agent.from
        /\ agent'.head = agent.head /\ agent'.ok = ok
    <3> HIDE DEF point, ok
    <3> QED BY <2>1, <2>2, ChecksKeep
  <2>4. point \in {"start-review", "review-report"}
    OBVIOUS
  <2> HIDE DEF point
  <2> QED BY <1>2, <2>3, <2>4 DEF ReviewerChecks, At, AgentJustified, Approved,
                        ReviewerAt, MergerAt, store
<1>3. CASE ReviewerStart
  BY <1>3, AgentTransitionEffect, GotoKeeps, AgentStays, RaiseLeaves
     DEF ReviewerStart, At, Typed, AgentJustified, TransitionOps, PipelineOps, JobState,
         TERMINAL_STATES, Points, WorkerAt, ReviewerAt, MergerAt
<1>4. CASE ReviewerReport
  BY <1>4, GotoKeeps, AgentStays
     DEF ReviewerReport, Persist, At, Typed, AgentJustified, Points, WorkerAt,
         ReviewerAt, MergerAt
<1>5. CASE ReviewerSubmit
  BY <1>5, GotoKeeps, AgentStays
     DEF ReviewerSubmit, Intend, At, Typed, AgentJustified, store, Points, WorkerAt,
         ReviewerAt, MergerAt
<1>6. CASE ReviewerResult
  BY <1>6, GotoKeeps, AgentStays
     DEF ReviewerResult, Persist, At, Typed, AgentJustified, Points, WorkerAt,
         ReviewerAt, MergerAt
<1>7. CASE ReviewerMayApprove
  BY <1>7, GotoKeeps, AgentStays
     DEF ReviewerMayApprove, Guarded, At, Typed, AgentJustified, store, Points, WorkerAt,
         ReviewerAt, MergerAt
<1>8. CASE ReviewerApprove
  BY <1>8, AgentTransitionEffect, GotoKeeps, AgentStays, RaiseLeaves
     DEF ReviewerApprove, At, Typed, AgentJustified, TransitionOps, PipelineOps, JobState,
         TERMINAL_STATES, Points, WorkerAt, ReviewerAt, MergerAt
<1> QED BY <1>1, <1>2, <1>3, <1>4, <1>5, <1>6, <1>7, <1>8 DEF Reviewer

LEMMA MergerJustified ==
  ASSUME Typed, AgentJustified, StoreGrows, Merger
  PROVE  AgentJustified'
<1>1. CASE MergerEnter
  <2>1. CASE Raise
    BY <2>1, RaiseLeaves
  <2>2. CASE ~Raise
    <3> DEFINE ok == (/\ artifacts.review.ok
                   /\ artifacts.review.head = github.head
                   /\ artifacts.validation = "passed"
                   /\ github.pr = "ready")
    <3>1. /\ agent' = [agent EXCEPT !.at = "merge-checks", !.entered = state,
                                    !.head = github.head, !.ok = ok]
          /\ artifacts.review # None
      BY <1>1, <2>2 DEF MergerEnter
    <3>2. agent.at \in Dispatching /\ "merge-checks" \in HeadRead /\ ok \in BOOLEAN
      BY <1>1 DEF MergerEnter, At, Dispatching, HeadRead, Points, WorkerAt, ReviewerAt,
                  MergerAt
    <3>3. /\ agent'.at = "merge-checks" /\ agent'.from = agent.from
          /\ agent'.head = github.head /\ agent'.ok = ok
      <4> HIDE DEF ok
      <4> QED BY <3>1, <3>2, EnterKeeps
    <3> QED BY <1>1, <3>1, <3>3
            DEF MergerEnter, AgentJustified, Approved, ReviewerAt, MergerAt, store
  <2> QED BY <2>1, <2>2
<1>2. CASE MergerChecks
  <2> DEFINE point == "merge-report"
             ok == agent.ok /\ agent.head \in github.green
  <2>1. point \in HeadRead /\ ok \in BOOLEAN /\ agent.at \in HeadRead
    BY <1>2 DEF MergerChecks, At, HeadRead, ReviewerAt, MergerAt
  <2>2. agent' = [agent EXCEPT !.at = point, !.ok = ok]
    BY <1>2 DEF MergerChecks
  <2>3. /\ agent'.at = point /\ agent'.from = agent.from
        /\ agent'.head = agent.head /\ agent'.ok = ok
    <3> HIDE DEF point, ok
    <3> QED BY <2>1, <2>2, ChecksKeep
  <2>4. point \in {"merge-report"}
    OBVIOUS
  <2> HIDE DEF point
  <2> QED BY <1>2, <2>3, <2>4 DEF MergerChecks, At, AgentJustified, Approved, ReviewerAt,
                        MergerAt, store
<1>3. CASE MergerReport
  BY <1>3, GotoKeeps, AgentStays
     DEF MergerReport, Persist, At, Typed, AgentJustified, Points, WorkerAt, ReviewerAt,
         MergerAt
<1>4. CASE MergerDecision
  BY <1>4, GotoKeeps, AgentStays
     DEF MergerDecision, Persist, At, Typed, AgentJustified, Points, WorkerAt,
         ReviewerAt, MergerAt
<1>5. CASE MergerMayStart
  BY <1>5, GotoKeeps, AgentStays
     DEF MergerMayStart, Guarded, At, Typed, AgentJustified, store, Points, WorkerAt,
         ReviewerAt, MergerAt
<1>6. CASE MergerStart
  BY <1>6, AgentTransitionEffect, GotoKeeps, AgentStays, RaiseLeaves
     DEF MergerStart, At, Typed, AgentJustified, TransitionOps, PipelineOps, JobState,
         TERMINAL_STATES, Points, WorkerAt, ReviewerAt, MergerAt
<1>7. CASE MergerMerge
  BY <1>7, GotoKeeps, AgentStays
     DEF MergerMerge, Intend, At, Typed, AgentJustified, store, Points, WorkerAt,
         ReviewerAt, MergerAt
<1>8. CASE MergerResult
  <2>1. artifacts'.merge # None
    BY <1>8, PipelineAssumption
       DEF MergerResult, Persist, PersistArtifact, At, Typed, StoreTyped, AgentTyped,
           HeadRead, MergerAt, Artifact
  <2>2. Goto("may-complete") /\ agent.at = "merge-result"
    BY <1>8 DEF MergerResult, Persist, At
  <2> QED BY <2>1, <2>2, GotoKeeps, AgentStays DEF Typed, AgentJustified, Points,
                        WorkerAt, ReviewerAt, MergerAt
<1>9. CASE MergerMayComplete
  BY <1>9, GotoKeeps, AgentStays
     DEF MergerMayComplete, Guarded, At, Typed, AgentJustified, store, Points, WorkerAt,
         ReviewerAt, MergerAt
<1>10. CASE MergerComplete
  BY <1>10, AgentTransitionEffect, GotoKeeps, AgentStays, RaiseLeaves
     DEF MergerComplete, At, Typed, AgentJustified, TransitionOps, PipelineOps, JobState,
         TERMINAL_STATES, Points, WorkerAt, ReviewerAt, MergerAt
<1> QED BY <1>1, <1>2, <1>3, <1>4, <1>5, <1>6, <1>7, <1>8, <1>9, <1>10 DEF Merger

LEMMA OrchestratorJustified ==
  ASSUME Typed, AgentJustified, StoreGrows, Orchestrator
  PROVE  AgentJustified'
<1>1. CASE DispatchCached
  BY <1>1, ReturnTyped, AgentLeaves DEF DispatchCached
<1>2. CASE DispatchFresh
  <2>1. CASE Raise
    BY <2>1, RaiseLeaves
  <2>2. CASE agent' = [agent EXCEPT !.at = Owner, !.from = state]
    <3>1. Owner \in {"worker", "reviewer", "merger", "record-dispatch"}
      BY DEF Owner
    <3>2. agent'.at = Owner /\ agent'.from = state
      BY <2>2 DEF Typed, AgentTyped, Agent
    <3> QED BY <1>2, <3>1, <3>2 DEF DispatchFresh, AgentJustified, ReviewerAt, MergerAt,
                        store
  <2> QED BY <1>2, <2>1, <2>2 DEF DispatchFresh
<1>3. CASE RecordDispatch
  BY <1>3, ReturnTyped, AgentLeaves DEF RecordDispatch
<1> QED BY <1>1, <1>2, <1>3 DEF Orchestrator

LEMMA AroundJustified ==
  ASSUME Typed, AgentJustified, StoreGrows, 
         \/ CallDispatchOnce
         \/ CallRunToTerminal
         \/ Crash
         \/ OperatorTransition
         \/ GitHubChanges
         \/ GitHubFails
         \/ ValidationRaises
  PROVE  AgentJustified'
<1>1. CASE CallDispatchOnce
  <2>1. agent'.at = "dispatch" /\ agent'.from = None
    BY <1>1 DEF CallDispatchOnce, Idle
  <2> QED BY <2>1, AgentLeaves
<1>2. CASE CallRunToTerminal
  <2>1. agent'.at = "dispatch" /\ agent'.from = None
    BY <1>2 DEF CallRunToTerminal, Idle
  <2> QED BY <2>1, AgentLeaves
<1>3. CASE Crash
  BY <1>3, RaiseLeaves DEF Crash, Raise
<1>4. CASE OperatorTransition
  <2>1. UNCHANGED agent
    BY <1>4 DEF OperatorTransition
  <2>2. agent.at \in {"may-complete", "complete"} => artifacts'.merge # None
    BY ArtifactsKept DEF AgentJustified
  <2> QED BY <2>1, <2>2, AgentStays DEF AgentJustified
<1>5. CASE GitHubChanges
  <2>1. UNCHANGED agent
    BY <1>5 DEF GitHubChanges
  <2>2. agent.at \in {"may-complete", "complete"} => artifacts'.merge # None
    BY ArtifactsKept DEF AgentJustified
  <2> QED BY <2>1, <2>2, AgentStays DEF AgentJustified
<1>6. CASE GitHubFails \/ ValidationRaises
  BY <1>6, RaiseLeaves DEF GitHubFails, ValidationRaises
<1> QED BY <1>1, <1>2, <1>3, <1>4, <1>5, <1>6

Backed ==
  /\ Typed /\ AgentJustified
  /\ MergedHeadWasApproved /\ LifecycleFollowsEvidence /\ TerminalDispatchIsFinal

LEMMA BackedInit == Init => Backed
<1> SUFFICES ASSUME Init PROVE Backed
  OBVIOUS
<1>1. Typed
  BY TypedInit
<1>2. AgentJustified
  BY IdleTyped, PipelineAssumption DEF Init, AgentJustified, ReviewerAt, MergerAt, JobState
<1>3. MergedHeadWasApproved
  BY DEF Init, NoArtifacts, NoIntents, MergedHeadWasApproved
<1>4. LifecycleFollowsEvidence
  BY DEF Init, LifecycleFollowsEvidence
<1>5. TerminalDispatchIsFinal
  BY DEF Init, TerminalDispatchIsFinal
<1> QED BY <1>1, <1>2, <1>3, <1>4, <1>5 DEF Backed

\* An approval outlives every step.
LEMMA ApprovedKept ==
  ASSUME Typed, StoreGrows, NEW head, Approved(head)
  PROVE  Approved(head)'
BY ArtifactsKept DEF Approved

LEMMA PersistsOther ==
  ASSUME Typed, NEW name \in DOMAIN NoArtifacts, NEW payload,
         PersistArtifact(name, payload), name # "merge"
  PROVE  artifacts'.merge = artifacts.merge /\ intents' = intents
BY DEF PersistArtifact, world, Typed, StoreTyped, Artifact, NoArtifacts

\* Only the Merger writes a merge.
LEMMA MergesKept ==
  ASSUME Typed, [Next]_vars, ~MergerMerge, ~MergerResult
  PROVE  /\ artifacts'.merge = artifacts.merge
         /\ intents'.merge_pull_request \in {intents.merge_pull_request, None}
<1>1. CASE Worker
  BY <1>1, PersistsOther, AgentTransitionEffect
     DEF Worker, WorkerEnter, WorkerClaimIneligible, WorkerMayBlock, WorkerBlock,
         WorkerIneligible, WorkerClaim, WorkerMayExecute, WorkerExecute, WorkerPlan,
         WorkerMayValidate, WorkerValidate, RunValidation, WorkerResult,
         Guarded, Persist, store, world, Typed, TransitionOps, PipelineOps, JobState,
         TERMINAL_STATES,
         NoArtifacts
<1>2. CASE Reviewer
  BY <1>2, PersistsOther, AgentTransitionEffect
     DEF Reviewer, ReviewerEnter, ReviewerChecks, ReviewerStart, ReviewerReport,
         ReviewerSubmit,
         ReviewerResult, ReviewerMayApprove, ReviewerApprove,
         Guarded, Persist, Intend, store, world, Typed, WorldTyped, Intent,
         TransitionOps, PipelineOps, JobState, TERMINAL_STATES, NoArtifacts
<1>3. CASE Merger
  BY <1>3, PersistsOther, AgentTransitionEffect
     DEF Merger, MergerEnter, MergerChecks, MergerReport, MergerDecision, MergerMayStart,
         MergerStart, MergerMerge, MergerResult, MergerMayComplete, MergerComplete,
         Guarded, Persist, store, world, Typed, TransitionOps, PipelineOps, JobState,
         TERMINAL_STATES,
         NoArtifacts
<1>4. CASE Orchestrator
  BY <1>4 DEF Orchestrator, DispatchCached, DispatchFresh, RecordDispatch, store, world
<1>5. CASE Crash
  BY <1>5 DEF Crash, NoIntents, store
<1>6. CASE CallDispatchOnce \/ CallRunToTerminal \/ OperatorTransition
           \/ GitHubChanges \/ GitHubFails \/ ValidationRaises \/ UNCHANGED vars
  BY <1>6 DEF CallDispatchOnce, CallRunToTerminal, OperatorTransition, TransitionStore,
              GitHubChanges, GitHubFails, ValidationRaises, store, world, vars
<1> QED BY <1>1, <1>2, <1>3, <1>4, <1>5, <1>6 DEF Next, AgentStep

LEMMA MergedHeadNext ==
  ASSUME Backed, StoreGrows, [Next]_vars
  PROVE  MergedHeadWasApproved'
<1>1. CASE MergerMerge
  <2>1. Approved(agent.head)
    BY <1>1 DEF MergerMerge, At, Backed, AgentJustified, MergerAt
  <2>2. /\ artifacts'.merge = artifacts.merge
        /\ intents'.merge_pull_request \in {intents.merge_pull_request, agent.head}
    BY <1>1 DEF MergerMerge, Intend, store, Backed, Typed, WorldTyped, Intent
  <2> QED BY <2>1, <2>2, ApprovedKept DEF Backed, MergedHeadWasApproved
<1>2. CASE MergerResult
  <2>1. Approved(agent.head)
    BY <1>2 DEF MergerResult, At, Backed, AgentJustified, MergerAt
  <2>2. /\ artifacts'.merge \in {artifacts.merge, agent.head}
        /\ intents' = intents
    BY <1>2 DEF MergerResult, Persist, PersistArtifact, world, Backed, Typed, StoreTyped,
                Artifact
  <2> QED BY <2>1, <2>2, ApprovedKept DEF Backed, MergedHeadWasApproved
<1>3. CASE ~MergerMerge /\ ~MergerResult
  BY <1>3, MergesKept, ApprovedKept DEF Backed, MergedHeadWasApproved
<1> QED BY <1>1, <1>2, <1>3

\* The agents' own operations are consumed where their programs say.
LEMMA OpsDone ==
  ASSUME Typed, [Next]_vars, NEW op \in {"approve", "complete"}, op \in done'
  PROVE  op \in done \/ agent.at = op
<1>1. CASE Worker
  BY <1>1, AgentTransitionEffect
     DEF Worker, WorkerEnter, WorkerClaimIneligible, WorkerMayBlock, WorkerBlock,
         WorkerIneligible, WorkerClaim, WorkerMayExecute, WorkerExecute, WorkerPlan,
         WorkerMayValidate, WorkerValidate, RunValidation, WorkerResult,
         Guarded, Persist, PersistArtifact, store, Typed, TransitionOps, PipelineOps,
         JobState,
         TERMINAL_STATES
<1>2. CASE Reviewer
  BY <1>2, AgentTransitionEffect
     DEF Reviewer, ReviewerEnter, ReviewerChecks, ReviewerStart, ReviewerReport,
         ReviewerSubmit,
         ReviewerResult, ReviewerMayApprove, ReviewerApprove,
         At, Guarded, Persist, PersistArtifact, Intend, store, Typed, TransitionOps,
         PipelineOps,
         JobState, TERMINAL_STATES
<1>3. CASE Merger
  BY <1>3, AgentTransitionEffect
     DEF Merger, MergerEnter, MergerChecks, MergerReport, MergerDecision, MergerMayStart,
         MergerStart, MergerMerge, MergerResult, MergerMayComplete, MergerComplete,
         At, Guarded, Persist, PersistArtifact, Intend, store, Typed, TransitionOps,
         PipelineOps,
         JobState, TERMINAL_STATES
<1>4. CASE Orchestrator
  BY <1>4 DEF Orchestrator, DispatchCached, DispatchFresh, RecordDispatch, store
<1>5. CASE OperatorTransition
  BY <1>5, PipelineAssumption DEF OperatorTransition, TransitionStore, PipelineOps
<1>6. CASE CallDispatchOnce \/ CallRunToTerminal \/ Crash
           \/ GitHubChanges \/ GitHubFails \/ ValidationRaises \/ UNCHANGED vars
  BY <1>6 DEF CallDispatchOnce, CallRunToTerminal, Crash, GitHubChanges, GitHubFails, ValidationRaises,
              store, vars
<1> QED BY <1>1, <1>2, <1>3, <1>4, <1>5, <1>6 DEF Next, AgentStep

LEMMA EvidenceNext ==
  ASSUME Backed, StoreGrows, [Next]_vars
  PROVE  LifecycleFollowsEvidence'
<1>1. Typed /\ AgentJustified /\ LifecycleFollowsEvidence
  BY DEF Backed
<1>2. "complete" \in done' => artifacts'.merge # None
  BY <1>1, OpsDone, ArtifactsKept DEF AgentJustified, LifecycleFollowsEvidence
<1>3. "approve" \in done' => artifacts'.worker # None /\ artifacts'.validation = "passed"
  BY <1>1, OpsDone, ArtifactsKept DEF AgentJustified, LifecycleFollowsEvidence, ReviewerAt
<1> QED BY <1>2, <1>3 DEF LifecycleFollowsEvidence

LEMMA DispatchesOther ==
  ASSUME [Next]_vars, ~RecordDispatch
  PROVE  dispatched' = dispatched
<1>1. CASE Worker
  BY <1>1 DEF Worker, WorkerEnter, WorkerClaimIneligible, WorkerMayBlock, WorkerBlock,
         WorkerIneligible, WorkerClaim, WorkerMayExecute, WorkerExecute, WorkerPlan,
         WorkerMayValidate, WorkerValidate, RunValidation, WorkerResult,
         AgentTransition, StoreTransition, TransitionStore, Guarded, Persist, PersistArtifact, store
<1>2. CASE Reviewer
  BY <1>2 DEF Reviewer, ReviewerEnter, ReviewerChecks, ReviewerStart, ReviewerReport,
              ReviewerSubmit,
         ReviewerResult, ReviewerMayApprove, ReviewerApprove,
         AgentTransition, StoreTransition, TransitionStore, Guarded, Persist, PersistArtifact, Intend, store
<1>3. CASE Merger
  BY <1>3 DEF Merger, MergerEnter, MergerChecks, MergerReport, MergerDecision,
              MergerMayStart,
         MergerStart, MergerMerge, MergerResult, MergerMayComplete, MergerComplete,
         AgentTransition, StoreTransition, TransitionStore, Guarded, Persist, PersistArtifact, Intend, store
<1>4. CASE Orchestrator
  BY <1>4 DEF Orchestrator, DispatchCached, DispatchFresh, store
<1>5. CASE CallDispatchOnce \/ CallRunToTerminal \/ Crash \/ OperatorTransition
           \/ GitHubChanges \/ GitHubFails \/ ValidationRaises \/ UNCHANGED vars
  BY <1>5 DEF CallDispatchOnce, CallRunToTerminal, Crash, OperatorTransition,
              TransitionStore,
              GitHubChanges, GitHubFails, ValidationRaises, store, vars
<1> QED BY <1>1, <1>2, <1>3, <1>4, <1>5 DEF Next, AgentStep

LEMMA TerminalNext ==
  ASSUME Backed, StoreGrows, [Next]_vars
  PROVE  TerminalDispatchIsFinal'
<1>1. CASE RecordDispatch
  <2> DEFINE result ==
        [to |-> state,
         terminal |-> \/ agent.from \in TERMINAL_STATES
                      \/ agent.from \in {"approved", "merging"} /\ state = "completed"]
  <2>1. agent.from \in TERMINAL_STATES => state \in TERMINAL_STATES
    BY DEF Backed, AgentJustified
  <2>2. result.terminal => result.to \in TERMINAL_STATES
    BY <2>1 DEF TERMINAL_STATES
  <2>3. /\ state' = state
        /\ \A s \in JobState : dispatched'[s] = dispatched[s] \/ dispatched'[s] = result
    BY <1>1 DEF RecordDispatch, Backed, Typed, StoreTyped
  <2>4. result.to = state
    OBVIOUS
  <2> HIDE DEF result
  <2> QED BY <2>2, <2>3, <2>4 DEF Backed, TerminalDispatchIsFinal
<1>2. CASE ~RecordDispatch
  <2>1. dispatched' = dispatched
    BY <1>2, DispatchesOther
  <2> QED BY <2>1 DEF Backed, TerminalDispatchIsFinal, StoreGrows
<1> QED BY <1>1, <1>2

LEMMA BackedNext == Backed /\ [Next]_vars => Backed'
<1> SUFFICES ASSUME Backed, [Next]_vars PROVE Backed'
  OBVIOUS
<1>1. Typed' /\ StoreGrows
  BY TypedNext, Growing DEF Backed
<1>2. AgentJustified'
  <2>1. CASE UNCHANGED vars
    BY <2>1 DEF vars, Backed, AgentJustified, Approved
  <2>2. CASE Next
    BY <1>1, <2>2, WorkerJustified, ReviewerJustified, MergerJustified,
       OrchestratorJustified, AroundJustified DEF Next, AgentStep, Backed
  <2> QED BY <2>1, <2>2
<1> QED
  BY <1>1, <1>2, MergedHeadNext, EvidenceNext, TerminalNext DEF Backed

LEMMA AlwaysBacked == Spec => []Backed
BY BackedInit, BackedNext, PTL DEF Spec

\* Whatever head is merged was approved, after a passing validation.
THEOREM MergeIsSafe == Spec => []MergedHeadWasApproved
<1>1. Backed => MergedHeadWasApproved
  BY DEF Backed
<1> QED BY <1>1, AlwaysBacked, PTL

\* The agents approve and complete a job only on the evidence the policy asks for.
THEOREM EvidenceFirst == Spec => []LifecycleFollowsEvidence
<1>1. Backed => LifecycleFollowsEvidence
  BY DEF Backed
<1> QED BY <1>1, AlwaysBacked, PTL

\* A recorded terminal dispatch stays true.
THEOREM TerminalIsFinal == Spec => []TerminalDispatchIsFinal
<1>1. Backed => TerminalDispatchIsFinal
  BY DEF Backed
<1> QED BY <1>1, AlwaysBacked, PTL

-----------------------------------------------------------------------------
(* Refinement of the lifecycle contract.                                   *)

\* The three ways a step changes the store.
Transitions == \E op \in TransitionOps, target \in JobState : TransitionStore(target, op)
Annotates ==
  \E name \in DOMAIN NoArtifacts :
    /\ UNCHANGED <<state, attempts, done, dispatched>>
    /\ artifacts[name] = None
    /\ artifacts'[name] # None
    /\ \A other \in DOMAIN NoArtifacts \ {name} : artifacts'[other] = artifacts[other]
Dispatches ==
  \E s \in JobState :
    /\ UNCHANGED <<state, attempts, done, artifacts>>
    /\ dispatched[s] = None
    /\ dispatched'[s] # None
    /\ \A other \in JobState \ {s} : dispatched'[other] = dispatched[other]

StoreStep == Transitions \/ Annotates \/ Dispatches \/ UNCHANGED store

LEMMA PersistStep ==
  ASSUME Typed, NEW name \in DOMAIN NoArtifacts, NEW payload, payload # None,
         PersistArtifact(name, payload)
  PROVE  StoreStep
<1>1. CASE artifacts[name] = None
  BY <1>1 DEF PersistArtifact, StoreStep, Annotates, Typed, StoreTyped, Artifact,
              NoArtifacts
<1>2. CASE artifacts[name] # None
  BY <1>2 DEF PersistArtifact, StoreStep, store
<1> QED BY <1>1, <1>2

LEMMA AgentTransitionStep ==
  ASSUME NEW target \in JobState, NEW op \in TransitionOps, NEW next,
         AgentTransition(target, op, next) \/ StoreTransition(target, op, next)
  PROVE  StoreStep
BY DEF AgentTransition, StoreTransition, StoreStep, Transitions

LEMMA StoreSteps == Typed /\ [Next]_vars => StoreStep
<1> SUFFICES ASSUME Typed, [Next]_vars PROVE StoreStep
  OBVIOUS
<1>1. CASE Worker
  <2>1. \A outcome \in Outcomes : outcome # None
    BY PipelineAssumption
  <2> QED BY <1>1, <2>1, PersistStep, AgentTransitionStep, PipelineAssumption
     DEF Worker, WorkerEnter, WorkerClaimIneligible, WorkerMayBlock, WorkerBlock,
         WorkerIneligible, WorkerClaim, WorkerMayExecute, WorkerExecute, WorkerPlan,
         WorkerMayValidate, WorkerValidate, RunValidation, WorkerResult,
         Guarded, Persist, StoreStep, TransitionOps, PipelineOps, JobState, TERMINAL_STATES,
         NoArtifacts
<1>2. CASE Reviewer
  <2>1. agent.at \in HeadRead => Conclusion # None
    BY ConclusionTyped, PipelineAssumption DEF Verdict
  <2> QED BY <1>2, <2>1, PersistStep, AgentTransitionStep
     DEF Reviewer, ReviewerEnter, ReviewerChecks, ReviewerStart, ReviewerReport,
         ReviewerSubmit,
         ReviewerResult, ReviewerMayApprove, ReviewerApprove,
         At, HeadRead, ReviewerAt, Guarded, Persist, Intend, StoreStep, TransitionOps,
         PipelineOps, JobState, TERMINAL_STATES, NoArtifacts
<1>3. CASE Merger
  <2>1. agent.at \in HeadRead => Conclusion # None
    BY ConclusionTyped, PipelineAssumption DEF Verdict
  <2>2. agent.at \in HeadRead => agent.head # None
    BY PipelineAssumption DEF Typed, AgentTyped
  <2> QED BY <1>3, <2>1, <2>2, PersistStep, AgentTransitionStep
     DEF Merger, MergerEnter, MergerChecks, MergerReport, MergerDecision, MergerMayStart,
         MergerStart, MergerMerge, MergerResult, MergerMayComplete, MergerComplete,
         At, HeadRead, MergerAt, Guarded, Persist, Intend, StoreStep, TransitionOps,
         PipelineOps, JobState, TERMINAL_STATES, NoArtifacts
<1>4. CASE RecordDispatch
  <2> DEFINE result ==
        [to |-> state,
         terminal |-> \/ agent.from \in TERMINAL_STATES
                      \/ agent.from \in {"approved", "merging"} /\ state = "completed"]
  <2>1. agent.from \in JobState
    BY <1>4 DEF RecordDispatch, At, Typed, AgentTyped, Dispatching, Points
  <2>2. result # None
    <3>1. result \in Dispatch
      BY DEF Dispatch, Typed, StoreTyped
    <3> QED BY <3>1, PipelineAssumption DEF Dispatch
  <2>3. /\ UNCHANGED <<state, attempts, done, artifacts>>
        /\ dispatched' = IF dispatched[agent.from] = None
                         THEN [dispatched EXCEPT ![agent.from] = result] ELSE dispatched
    BY <1>4 DEF RecordDispatch
  <2> HIDE DEF result
  <2>4. CASE dispatched[agent.from] = None
    <3>1. \E s \in JobState :
            /\ dispatched[s] = None
            /\ dispatched'[s] # None
            /\ \A other \in JobState \ {s} : dispatched'[other] = dispatched[other]
      BY <2>1, <2>2, <2>3, <2>4 DEF Typed, StoreTyped
    <3> QED BY <2>3, <3>1 DEF StoreStep, Dispatches
  <2>5. CASE dispatched[agent.from] # None
    BY <2>3, <2>5 DEF StoreStep, store
  <2> QED BY <2>4, <2>5
<1>5. CASE OperatorTransition
  BY <1>5, PipelineAssumption DEF OperatorTransition, StoreStep, Transitions, TransitionOps
<1>6. CASE DispatchCached \/ DispatchFresh \/ CallDispatchOnce \/ CallRunToTerminal
           \/ Crash \/ GitHubChanges \/ GitHubFails \/ ValidationRaises \/ UNCHANGED vars
  BY <1>6 DEF DispatchCached, DispatchFresh, CallDispatchOnce, CallRunToTerminal, Crash,
              GitHubChanges, GitHubFails, ValidationRaises, store, vars, StoreStep
<1> QED BY <1>1, <1>2, <1>3, <1>4, <1>5, <1>6 DEF Next, AgentStep, Orchestrator

\* Both modules extend the same contract.
LEMMA SameContract ==
  /\ Lifecycle!JobState = JobState
  /\ Lifecycle!ALLOWED_TRANSITIONS = ALLOWED_TRANSITIONS
BY DEF Lifecycle!JobState, JobState, Lifecycle!TERMINAL_STATES, TERMINAL_STATES,
       Lifecycle!ALLOWED_TRANSITIONS, ALLOWED_TRANSITIONS, Lifecycle!Exits, Exits

\* An operation is a kind and an identifier of that kind, and what it recorded
\* is in the field of the store that its kind names.
LEMMA ResultsAre ==
  ASSUME NEW x \in LifecycleOps
  PROVE  \/ \E op \in TransitionOps :
              /\ x = <<"transition", op>>
              /\ ResultOf(x[1], x[2]) = done \cap {op}
              /\ ResultOf(x[1], x[2])' = done' \cap {op}
         \/ \E op \in DOMAIN NoArtifacts :
              /\ x = <<"artifact", op>>
              /\ ResultOf(x[1], x[2]) = {artifacts[op]} \ {None}
              /\ ResultOf(x[1], x[2])' = {artifacts'[op]} \ {None}
         \/ \E op \in JobState :
              /\ x = <<"dispatch", op>>
              /\ ResultOf(x[1], x[2]) = {dispatched[op]} \ {None}
              /\ ResultOf(x[1], x[2])' = {dispatched'[op]} \ {None}
<1>1. CASE \E op \in TransitionOps : x = <<"transition", op>>
  BY <1>1 DEF ResultOf
<1>2. CASE \E op \in DOMAIN NoArtifacts : x = <<"artifact", op>>
  BY <1>2 DEF ResultOf
<1>3. CASE \E op \in JobState : x = <<"dispatch", op>>
  BY <1>3 DEF ResultOf
<1> QED BY <1>1, <1>2, <1>3 DEF LifecycleOps

LEMMA StepRefines ==
  ASSUME Typed, Typed', StoreStep
  PROVE  [Lifecycle!LifecycleNext]_(Lifecycle!lifecycleVars)
<1> DEFINE Now == [x \in LifecycleOps |-> ResultOf(x[1], x[2])]
           Then == [x \in LifecycleOps |-> ResultOf(x[1], x[2])']
           Only(one) == /\ one \in LifecycleOps /\ Now[one] = {} /\ Then[one] # {}
                        /\ \A x \in LifecycleOps \ {one} : Then[x] = Now[x]
<1>1. state # "absent" /\ state \in JobState
  BY DEF Typed, StoreTyped, JobState, TERMINAL_STATES
<1>2. CASE Transitions
  <2>1. PICK op \in TransitionOps, target \in JobState : TransitionStore(target, op)
    BY <1>2 DEF Transitions
  <2> DEFINE one == <<"transition", op>>
  <2>2. /\ one \in LifecycleOps
        /\ op \notin done /\ done' = done \cup {op}
        /\ artifacts' = artifacts /\ dispatched' = dispatched
    BY <2>1 DEF LifecycleOps, TransitionStore, Recorded
  <2>3. Only(one)
    <3>1. Now[one] = {} /\ Then[one] # {}
      BY <2>2, ResultsAre
    <3>2. ASSUME NEW x \in LifecycleOps, x # one
          PROVE  Then[x] = Now[x]
      BY <2>2, <3>2, ResultsAre
    <3> QED BY <2>2, <3>1, <3>2
  <2>4. Lifecycle!Move(one)
    BY <1>1, <2>1, <2>3, SameContract
       DEF Lifecycle!Move, Lifecycle!Fresh, Lifecycle!Consume, TransitionStore
  <2> QED BY <2>2, <2>4 DEF Lifecycle!LifecycleNext
<1>3. CASE Annotates
  <2>1. PICK name \in DOMAIN NoArtifacts :
          /\ UNCHANGED <<state, attempts, done, dispatched>>
          /\ artifacts[name] = None /\ artifacts'[name] # None
          /\ \A other \in DOMAIN NoArtifacts \ {name} : artifacts'[other] = artifacts[other]
    BY <1>3 DEF Annotates
  <2> DEFINE one == <<"artifact", name>>
  <2>2. one \in LifecycleOps
    BY <2>1 DEF LifecycleOps
  <2>3. Only(one)
    <3>1. Now[one] = {} /\ Then[one] # {}
      BY <2>1, <2>2, ResultsAre
    <3>2. ASSUME NEW x \in LifecycleOps, x # one
          PROVE  Then[x] = Now[x]
      BY <2>1, <2>2, <3>2, ResultsAre
    <3> QED BY <2>2, <3>1, <3>2
  <2>4. Lifecycle!Annotate(one)
    BY <1>1, <2>1, <2>3 DEF Lifecycle!Annotate, Lifecycle!Fresh, Lifecycle!Consume
  <2> QED BY <2>2, <2>4 DEF Lifecycle!LifecycleNext
<1>4. CASE Dispatches
  <2>1. PICK s \in JobState :
          /\ UNCHANGED <<state, attempts, done, artifacts>>
          /\ dispatched[s] = None /\ dispatched'[s] # None
          /\ \A other \in JobState \ {s} : dispatched'[other] = dispatched[other]
    BY <1>4 DEF Dispatches
  <2> DEFINE one == <<"dispatch", s>>
  <2>2. one \in LifecycleOps
    BY <2>1 DEF LifecycleOps
  <2>3. Only(one)
    <3>1. Now[one] = {} /\ Then[one] # {}
      BY <2>1, <2>2, ResultsAre
    <3>2. ASSUME NEW x \in LifecycleOps, x # one
          PROVE  Then[x] = Now[x]
      BY <2>1, <2>2, <3>2, ResultsAre
    <3> QED BY <2>2, <3>1, <3>2
  <2>4. Lifecycle!Annotate(one)
    BY <1>1, <2>1, <2>3 DEF Lifecycle!Annotate, Lifecycle!Fresh, Lifecycle!Consume
  <2> QED BY <2>2, <2>4 DEF Lifecycle!LifecycleNext
<1>5. CASE UNCHANGED store
  <2>1. \A x \in LifecycleOps : Then[x] = Now[x]
    BY <1>5, ResultsAre DEF store
  <2>2. Then = Now
    BY <2>1
  <2> QED BY <1>5, <2>2 DEF store, Lifecycle!lifecycleVars
<1> QED BY <1>2, <1>3, <1>4, <1>5 DEF StoreStep

\* Agents that crash, retry and are overtaken by the operator still move the
\* job along the lifecycle contract, each operation taking effect once.
THEOREM PipelineImplements == Spec => ImplementsLifecycle
<1>1. Init => Lifecycle!LifecycleInit
  <2> SUFFICES ASSUME Init PROVE Lifecycle!LifecycleInit
    OBVIOUS
  <2>1. \A x \in LifecycleOps : ResultOf(x[1], x[2]) = {}
    BY ResultsAre DEF Init, NoArtifacts
  <2> QED BY <2>1 DEF Init, Lifecycle!LifecycleInit
<1>2. Typed /\ Typed' /\ [Next]_vars =>
        [Lifecycle!LifecycleNext]_(Lifecycle!lifecycleVars)
  BY StoreSteps, StepRefines
<1> QED BY <1>1, <1>2, TypedInit, TypedNext, PTL
        DEF Spec, ImplementsLifecycle, Lifecycle!LifecycleSpec

-----------------------------------------------------------------------------
(* What a rejection and a death between two writes cost a job.             *)

\* A review that did not approve keeps the job from being merged and completed.
THEOREM RejectedForGood == Spec => RejectionIsFinal
<1>1. ASSUME Backed, [Next]_vars, Rejected
      PROVE  Rejected' /\ artifacts'.merge = None /\ "complete" \notin done'
  <2>1. StoreGrows /\ Backed'
    BY <1>1, Growing, BackedNext DEF Backed
  <2>2. Rejected'
    BY <1>1, <2>1, ArtifactsKept DEF Backed, Rejected
  <2>3. artifacts'.merge = None
    BY <2>1, <2>2 DEF Backed, MergedHeadWasApproved, Approved, Rejected
  <2> QED BY <2>1, <2>2, <2>3 DEF Backed, LifecycleFollowsEvidence
<1>2. Backed /\ [Next]_vars =>
        [Rejected => Rejected' /\ artifacts'.merge = None /\ "complete" \notin done']_vars
  BY <1>1
<1> QED BY <1>2, AlwaysBacked, PTL DEF Spec, RejectionIsFinal

\* The points between the Worker's transition to validating and its result, and
\* the states in which the results are required.
Unrecorded == {"run-validation", "worker-result"}
Requiring == {"validating", "reviewing", "approved", "merging"}

\* The inductive strengthening: what has been recorded when an agent is where it is.
Followed ==
  /\ agent.at = "worker-result" => artifacts.validation # None
  /\ agent.at \in ReviewerAt \ {"reviewer"} =>
       artifacts.worker # None /\ artifacts.validation # None
  /\ agent.at \in {"may-approve", "approve"} => artifacts.review # None
  /\ done \cap CliOps = {} =>
       /\ agent.at \in WorkerAt \ Unrecorded => state \notin Requiring
       /\ state \in {"approved", "merging"} =>
            artifacts.review # None /\ artifacts.validation # None

ResultsKept ==
  /\ artifacts'.worker = artifacts.worker
  /\ artifacts'.validation = artifacts.validation
  /\ artifacts'.review = artifacts.review

LEMMA PersistTraced ==
  ASSUME Typed, NEW name \in DOMAIN NoArtifacts, NEW payload, PersistArtifact(name, payload)
  PROVE  /\ payload # None => artifacts'[name] # None
         /\ \A other \in DOMAIN NoArtifacts \ {name} : artifacts'[other] = artifacts[other]
         /\ state' = state
BY DEF PersistArtifact, Typed, StoreTyped, Artifact, NoArtifacts

LEMMA TransitionTraced ==
  ASSUME Typed, NEW target \in JobState, NEW op \in TransitionOps, NEW next \in Points,
         AgentTransition(target, op, next) \/ StoreTransition(target, op, next)
  PROVE  /\ ResultsKept
         /\ \/ agent'.at = next
            \/ agent'.at = "idle" /\ state' = state
         /\ \/ state' = state
            \/ state' = target /\ target \in ALLOWED_TRANSITIONS[state]
BY GotoKeeps, IdleTyped
   DEF AgentTransition, StoreTransition, TransitionStore, Raise, store, ResultsKept, Typed

LEMMA GuardedTraced ==
  ASSUME Typed, NEW point, NEW sources, NEW transition \in Points, NEW otherwise \in Points,
         Guarded(point, sources, transition, otherwise)
  PROVE  ResultsKept /\ state' = state /\ agent'.at \in {transition, otherwise}
BY GotoKeeps DEF Guarded, store, ResultsKept, Typed

LEMMA WorkerTraced ==
  ASSUME Typed, Worker
  PROVE  /\ agent.at \in WorkerAt
         /\ \/ /\ agent.at = "run-validation" /\ agent'.at = "worker-result"
               /\ artifacts'.validation # None /\ state' = state
            \/ /\ agent.at = "worker-result" /\ agent'.at = "record-dispatch"
               /\ artifacts'.worker # None /\ state' = state
            \/ /\ agent.at \notin Unrecorded /\ ResultsKept
               /\ agent'.at \in {"idle"} \cup (WorkerAt \ {"worker-result"})
               /\ \/ state' = state \/ state' \notin Requiring
                  \/ state' = "validating" /\ agent'.at = "run-validation"
<1> USE DEF At, Points, WorkerAt, Unrecorded
<1>1. CASE WorkerEnter
  BY <1>1, GotoKeeps, IdleTyped DEF WorkerEnter, Raise, Typed, store, ResultsKept
<1>2. CASE WorkerClaimIneligible \/ WorkerClaim \/ WorkerBlock
  <2> USE DEF TransitionOps, PipelineOps, JobState, TERMINAL_STATES, Requiring
  <2>1. CASE WorkerClaimIneligible
    BY <2>1, TransitionTraced DEF WorkerClaimIneligible
  <2>2. CASE WorkerClaim
    BY <2>2, TransitionTraced DEF WorkerClaim
  <2>3. CASE WorkerBlock
    BY <2>3, TransitionTraced DEF WorkerBlock
  <2> QED BY <1>2, <2>1, <2>2, <2>3
<1>3. CASE WorkerMayBlock \/ WorkerMayExecute \/ WorkerMayValidate
  <2>1. CASE WorkerMayBlock
    BY <2>1, GuardedTraced DEF WorkerMayBlock, Guarded
  <2>2. CASE WorkerMayExecute
    <3>1. ResultsKept /\ state' = state /\ agent'.at \in {"execute", "plan"}
      BY <2>2, GuardedTraced DEF WorkerMayExecute
    <3> QED BY <2>2, <3>1 DEF WorkerMayExecute, Guarded
  <2>3. CASE WorkerMayValidate
    BY <2>3, GuardedTraced DEF WorkerMayValidate, Guarded
  <2> QED BY <1>3, <2>1, <2>2, <2>3
<1>4. CASE WorkerIneligible
  BY <1>4, PersistTraced, IdleTyped
     DEF WorkerIneligible, Raise, NoArtifacts, ResultsKept
<1>5. CASE WorkerExecute
  BY <1>5, TransitionTraced
     DEF WorkerExecute, TransitionOps, PipelineOps, JobState, TERMINAL_STATES, Requiring
<1>6. CASE WorkerValidate
  BY <1>6, TransitionTraced
     DEF WorkerValidate, TransitionOps, PipelineOps, JobState, TERMINAL_STATES
<1>7. CASE WorkerPlan
  BY <1>7, PersistTraced, GotoKeeps DEF WorkerPlan, Persist, NoArtifacts, ResultsKept, Typed
<1>8. CASE RunValidation
  <2>1. PICK outcome \in Outcomes : Persist("validation", outcome, "worker-result")
    BY <1>8 DEF RunValidation
  <2>2. outcome # None
    BY PipelineAssumption
  <2> QED BY <1>8, <2>1, <2>2, PersistTraced, GotoKeeps
          DEF RunValidation, Persist, NoArtifacts, Typed
<1>9. CASE WorkerResult
  BY <1>9, PersistTraced, GotoKeeps, PipelineAssumption
     DEF WorkerResult, Persist, NoArtifacts, Typed
<1> QED BY <1>1, <1>2, <1>3, <1>4, <1>5, <1>6, <1>7, <1>8, <1>9 DEF Worker

LEMMA ReviewerTraced ==
  ASSUME Typed, Reviewer
  PROVE  /\ agent.at \in ReviewerAt
         /\ agent'.at \in {"idle", "record-dispatch"} \cup (ReviewerAt \ {"reviewer"})
         /\ artifacts'.worker = artifacts.worker
         /\ artifacts'.validation = artifacts.validation
         /\ agent.at = "reviewer" /\ agent'.at # "idle" =>
              artifacts.worker # None /\ artifacts.validation # None
         /\ agent'.at \in {"may-approve", "approve"} =>
              agent.at \in {"may-approve", "approve"} \/ artifacts'.review # None
         /\ \/ state' = state
            \/ state' = "reviewing" /\ agent.at = "start-review"
            \/ state' = "approved" /\ agent.at = "approve"
<1> USE DEF At, Points, ReviewerAt
<1>1. CASE ReviewerEnter
  <2>1. CASE Raise
    BY <1>1, <2>1, IdleTyped DEF ReviewerEnter, Raise, store
  <2>2. CASE ~Raise
    <3>1. agent'.at = "review-checks"
      BY <1>1, <2>2 DEF ReviewerEnter, Typed, AgentTyped, Agent
    <3> QED BY <1>1, <2>2, <3>1 DEF ReviewerEnter, store
  <2> QED BY <2>1, <2>2
<1>2. CASE ReviewerChecks
  <2>1. agent'.at \in {"start-review", "review-report"}
    BY <1>2 DEF ReviewerChecks, Typed, AgentTyped, Agent
  <2> QED BY <1>2, <2>1 DEF ReviewerChecks, store
<1>3. CASE ReviewerStart \/ ReviewerApprove
  BY <1>3, TransitionTraced
     DEF ReviewerStart, ReviewerApprove, TransitionOps, PipelineOps, JobState,
         TERMINAL_STATES, ResultsKept, WorkerAt
<1>4. CASE ReviewerReport
  BY <1>4, PersistTraced, GotoKeeps DEF ReviewerReport, Persist, NoArtifacts, Typed
<1>5. CASE ReviewerSubmit
  BY <1>5, GotoKeeps DEF ReviewerSubmit, Intend, store, Typed
<1>6. CASE ReviewerResult
  <2>1. Conclusion # None
    BY <1>6, ConclusionTyped, PipelineAssumption DEF ReviewerResult, Verdict, HeadRead
  <2> QED BY <1>6, <2>1, PersistTraced, GotoKeeps
          DEF ReviewerResult, Persist, NoArtifacts, Typed
<1>7. CASE ReviewerMayApprove
  BY <1>7, GuardedTraced DEF ReviewerMayApprove, Guarded, ResultsKept
<1> QED BY <1>1, <1>2, <1>3, <1>4, <1>5, <1>6, <1>7 DEF Reviewer

LEMMA MergerTraced ==
  ASSUME Typed, Merger
  PROVE  /\ agent.at \in MergerAt
         /\ agent'.at \in {"idle", "record-dispatch"} \cup MergerAt
         /\ ResultsKept
         /\ \/ state' = state
            \/ state' = "merging" /\ state = "approved"
            \/ state' = "completed" /\ state = "merging"
<1> USE DEF At, Points, MergerAt
<1>1. CASE MergerEnter
  <2>1. CASE Raise
    BY <1>1, <2>1, IdleTyped DEF MergerEnter, Raise, store, ResultsKept
  <2>2. CASE ~Raise
    <3>1. agent'.at = "merge-checks"
      BY <1>1, <2>2 DEF MergerEnter, Typed, AgentTyped, Agent
    <3> QED BY <1>1, <3>1 DEF MergerEnter, store, ResultsKept
  <2> QED BY <2>1, <2>2
<1>2. CASE MergerChecks
  <2>1. agent'.at = "merge-report"
    BY <1>2 DEF MergerChecks, Typed, AgentTyped, Agent
  <2> QED BY <1>2, <2>1 DEF MergerChecks, store, ResultsKept
<1>3. CASE MergerStart
  <2>1. "merging" \in ALLOWED_TRANSITIONS[state] => state = "approved"
    BY DEF ALLOWED_TRANSITIONS, Exits, JobState, TERMINAL_STATES, Typed, StoreTyped
  <2> QED BY <1>3, <2>1, TransitionTraced
          DEF MergerStart, TransitionOps, PipelineOps, JobState, TERMINAL_STATES
<1>4. CASE MergerComplete
  <2>1. "completed" \in ALLOWED_TRANSITIONS[state] => state = "merging"
    BY DEF ALLOWED_TRANSITIONS, Exits, JobState, TERMINAL_STATES, Typed, StoreTyped
  <2> QED BY <1>4, <2>1, TransitionTraced
          DEF MergerComplete, TransitionOps, PipelineOps, JobState, TERMINAL_STATES
<1>5. CASE MergerReport \/ MergerDecision \/ MergerResult
  BY <1>5, PersistTraced, GotoKeeps
     DEF MergerReport, MergerDecision, MergerResult, Persist, NoArtifacts, ResultsKept, Typed
<1>6. CASE MergerMerge
  BY <1>6, GotoKeeps DEF MergerMerge, Intend, store, ResultsKept, Typed
<1>7. CASE MergerMayStart \/ MergerMayComplete
  BY <1>7, GuardedTraced DEF MergerMayStart, MergerMayComplete, Guarded
<1> QED BY <1>1, <1>2, <1>3, <1>4, <1>5, <1>6, <1>7 DEF Merger

LEMMA OthersTraced ==
  ASSUME Typed, Orchestrator \/ CallDispatchOnce \/ CallRunToTerminal \/ GitHubFails
  PROVE  /\ agent.at \notin Unrecorded
         /\ ResultsKept /\ state' = state /\ done' = done
         /\ \/ agent'.at \in {"idle", "dispatch", "record-dispatch", "reviewer", "merger"}
            \/ agent'.at = "worker" /\ state \notin Requiring
<1> USE DEF At, Unrecorded, ResultsKept, store
<1>1. CASE DispatchCached \/ RecordDispatch
  BY <1>1, ReturnTyped DEF DispatchCached, RecordDispatch
<1>2. CASE DispatchFresh
  <2>1. CASE Raise
    BY <1>2, <2>1, IdleTyped DEF DispatchFresh, Raise
  <2>2. CASE agent' = [agent EXCEPT !.at = Owner, !.from = state]
    <3>1. /\ Owner \in {"worker", "reviewer", "merger", "record-dispatch"}
          /\ Owner = "worker" => state \notin Requiring
      BY DEF Owner, Requiring
    <3>2. agent'.at = Owner
      BY <2>2 DEF Typed, AgentTyped, Agent
    <3> QED BY <1>2, <3>1, <3>2 DEF DispatchFresh
  <2> QED BY <1>2, <2>1, <2>2 DEF DispatchFresh
<1>3. CASE CallDispatchOnce \/ CallRunToTerminal
  BY <1>3 DEF CallDispatchOnce, CallRunToTerminal, Idle
<1>4. CASE GitHubFails
  BY <1>4, IdleTyped DEF GitHubFails, Raise
<1> QED BY <1>1, <1>2, <1>3, <1>4 DEF Orchestrator

\* StoreGrows, for what the points require.
LEMMA RequiredKept ==
  ASSUME Typed, StoreGrows
  PROVE  /\ artifacts.worker # None => artifacts'.worker # None
         /\ artifacts.validation # None => artifacts'.validation # None
         /\ artifacts.review # None => artifacts'.review # None
BY DEF StoreGrows, Typed, StoreTyped, Artifact

LEMMA DoneGrows == Typed /\ [Next]_vars => done \subseteq done'
<1> SUFFICES ASSUME Typed, [Next]_vars
             PROVE  done \subseteq done'
  OBVIOUS
<1> QED BY StoreSteps DEF StoreStep, Transitions, TransitionStore, Annotates, Dispatches,
                          store

LEMMA OperatorShows ==
  ASSUME OperatorTransition
  PROVE  done' \cap CliOps # {} /\ agent' = agent
BY DEF OperatorTransition, TransitionStore

LEMMA FollowedNext ==
  ASSUME Typed, Followed, [Next]_vars
  PROVE  Followed'
<1>1. StoreGrows /\ done \subseteq done'
  BY Growing, DoneGrows
<1>2. CASE Worker
  <2> USE DEF WorkerAt, ReviewerAt, Unrecorded
  <2>1. CASE agent.at \in Unrecorded
    BY <1>1, <1>2, <2>1, WorkerTraced, RequiredKept DEF Followed
  <2>2. CASE agent.at \notin Unrecorded
    <3>1. /\ agent.at \in WorkerAt
          /\ agent'.at \in {"idle"} \cup (WorkerAt \ {"worker-result"})
          /\ \/ state' = state \/ state' \notin Requiring
             \/ state' = "validating" /\ agent'.at = "run-validation"
      BY <1>2, <2>2, WorkerTraced
    <3>2. done' \cap CliOps = {} => state \notin Requiring
      BY <1>1, <2>2, <3>1 DEF Followed
    <3> QED BY <3>1, <3>2 DEF Followed, Requiring
  <2> QED BY <2>1, <2>2
<1>3. CASE Reviewer
  BY <1>1, <1>3, ReviewerTraced, RequiredKept
     DEF Followed, WorkerAt, ReviewerAt, Unrecorded, Requiring
<1>4. CASE Merger
  BY <1>1, <1>4, MergerTraced, RequiredKept
     DEF Followed, WorkerAt, ReviewerAt, MergerAt, Unrecorded, Requiring
<1>5. CASE Orchestrator \/ CallDispatchOnce \/ CallRunToTerminal \/ GitHubFails
  BY <1>1, <1>5, OthersTraced, RequiredKept
     DEF Followed, WorkerAt, ReviewerAt, Unrecorded, Requiring
<1>6. CASE Crash \/ ValidationRaises
  BY <1>1, <1>6, RequiredKept, IdleTyped
     DEF Crash, ValidationRaises, Raise, store, Followed, WorkerAt, ReviewerAt, Unrecorded, Requiring
<1>7. CASE OperatorTransition
  BY <1>1, <1>7, OperatorShows, RequiredKept DEF Followed
<1>8. CASE GitHubChanges \/ UNCHANGED vars
  BY <1>8 DEF GitHubChanges, store, vars, Followed
<1> QED BY <1>2, <1>3, <1>4, <1>5, <1>6, <1>7, <1>8 DEF Next, AgentStep

\* What a step of the agents may do to a job that is left alone.
NotStranding ==
  done' \cap CliOps = {} =>
    /\ Stranded => Stranded'
    /\ ~Stranded /\ Stranded' =>
         /\ Crash \/ ValidationRaises
         /\ agent.at \in Unrecorded

LEMMA StrandingNext ==
  ASSUME Typed, Followed, Followed', [Next]_vars
  PROVE  NotStranding
<1>1. StoreGrows /\ done \subseteq done'
  BY Growing, DoneGrows
<1>2. CASE Worker
  BY <1>1, <1>2, WorkerTraced, RequiredKept
     DEF NotStranding, Stranded, ResultsKept, Followed, WorkerAt, Unrecorded, Requiring
<1>3. CASE Reviewer
  BY <1>1, <1>3, ReviewerTraced, RequiredKept
     DEF NotStranding, Stranded, Followed, ReviewerAt, Unrecorded
<1>4. CASE Merger
  BY <1>1, <1>4, MergerTraced
     DEF NotStranding, Stranded, ResultsKept, Followed, MergerAt, Unrecorded
<1>5. CASE Orchestrator \/ CallDispatchOnce \/ CallRunToTerminal \/ GitHubFails
  BY <1>5, OthersTraced DEF NotStranding, Stranded, ResultsKept, Unrecorded
<1>6. CASE Crash \/ ValidationRaises
  BY <1>6, IdleTyped
     DEF Crash, ValidationRaises, At, Raise, store, NotStranding, Stranded, Unrecorded
<1>7. CASE OperatorTransition
  BY <1>7, OperatorShows DEF NotStranding
<1>8. CASE GitHubChanges \/ UNCHANGED vars
  BY <1>8 DEF GitHubChanges, store, vars, NotStranding, Stranded
<1> QED BY <1>2, <1>3, <1>4, <1>5, <1>6, <1>7, <1>8 DEF Next, AgentStep

\* Only a Worker's run that dies or raises between the transition to validating and
\* its result strands a job that the operator leaves alone, and then for good.
THEOREM StrandedByLostWorker == Spec => OnlyLostWorkerStrands
<1>1. Init => Followed
  BY DEF Init, Idle, Followed, WorkerAt, ReviewerAt
<1>2. Typed /\ Followed /\ [Next]_vars => Followed'
  BY FollowedNext
<1>3. Typed /\ Followed /\ Followed' /\ [Next]_vars => [NotStranding]_vars
  BY StrandingNext
<1>4. Spec => [][NotStranding]_vars
  BY <1>1, <1>2, <1>3, TypedInit, TypedNext, PTL DEF Spec
<1> QED BY <1>4 DEF NotStranding, OnlyLostWorkerStrands, Unrecorded
-----------------------------------------------------------------------------
(* What follows from the lifecycle contract.                               *)

Contract ==
  INSTANCE JobLifecycleProofs WITH
    Operations <- LifecycleOps,
    results <- [x \in LifecycleOps |-> ResultOf(x[1], x[2])]

LEMMA SpecMeetsContract == Spec => Contract!LifecycleSpec
  <1>1. Lifecycle!LifecycleInit => Contract!LifecycleInit
    BY DEF Lifecycle!LifecycleInit, Contract!LifecycleInit
  <1>2. [Lifecycle!LifecycleNext]_(Lifecycle!lifecycleVars) =>
          [Contract!LifecycleNext]_(Contract!lifecycleVars)
    BY DEF Lifecycle!LifecycleNext, Contract!LifecycleNext,
           Lifecycle!lifecycleVars, Contract!lifecycleVars,
           Lifecycle!Create, Contract!Create, Lifecycle!Move, Contract!Move,
           Lifecycle!Annotate, Contract!Annotate, Lifecycle!Consume, Contract!Consume,
           Lifecycle!Fresh, Contract!Fresh,
           Lifecycle!ALLOWED_TRANSITIONS, Contract!ALLOWED_TRANSITIONS,
           Lifecycle!JobState, Contract!JobState, Lifecycle!Exits, Contract!Exits,
           Lifecycle!TERMINAL_STATES, Contract!TERMINAL_STATES
  <1>. QED
    BY <1>1, <1>2, PipelineImplements, PTL
    DEF ImplementsLifecycle, Lifecycle!LifecycleSpec, Contract!LifecycleSpec

\* Whatever crashes and whatever the operator does, the lifecycle of the job never runs
\* backwards: a terminal state is final, and so is what each operation recorded.
THEOREM JobNeverBack == Spec => [][Contract!OneWay]_(Contract!lifecycleVars)
  BY SpecMeetsContract, Contract!NeverBack

\* The job is not merged, not even validated, without having been executed.
THEOREM JobExecutedFirst == Spec => []Contract!Executed
  BY SpecMeetsContract, Contract!ExecutedFirst
=============================================================================
