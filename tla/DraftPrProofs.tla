--------------------------- MODULE DraftPrProofs ---------------------------
(***************************************************************************)
(* Proofs about DraftPr for any plans, branches, outcomes and answers, any *)
(* set of runners, and processes that die anywhere.                        *)
(***************************************************************************)
EXTENDS DraftPr, TLAPS

-----------------------------------------------------------------------------
(* How a run moves, seen from its fields.                                  *)

Keeps ==
  /\ run' \in Run
  /\ run'.runner = run.runner /\ run'.plan = run.plan /\ run'.answer = run.answer

Goes(point) == Keeps /\ run'.at = point /\ run'.step = run.step /\ run'.verdict = run.verdict

Ends(status) == Keeps /\ run'.at = "conclude" /\ run'.verdict = status

Left == run' \in Run /\ run'.at = "idle" /\ run'.runner = None

Passes ==
  /\ Keeps
  /\ run'.verdict = run.verdict
  /\ \/ run'.at = "worker" /\ run.step = Len(Checks[run.runner])
     \/ run'.at = "check" /\ run'.step = run.step + 1 /\ run.step # Len(Checks[run.runner])

LEMMA GotoGoes == ASSUME run \in Run, NEW p \in Points, Goto(p) PROVE Goes(p)
BY DEF Goto, Goes, Keeps, Run

LEMMA ConcludeEnds == ASSUME run \in Run, NEW s \in Status, Conclude(s) PROVE Ends(s)
BY DEF Conclude, Ends, Keeps, Run, Points

LEMMA FailEnds == ASSUME run \in Run, Fail PROVE Ends("failed")
BY ConcludeEnds DEF Fail, Status

LEMMA LeaveLeft == Leave => Left
BY DEF Leave, Left, Idle, Run, Points

LEMMA ChecksOf ==
  ASSUME NEW r \in Runner
  PROVE  /\ Len(Checks[r]) = 4
         /\ r = "rehearsal" => /\ Checks[r][1] = "eligible" /\ Checks[r][2] = "stop"
                               /\ Checks[r][3] = "report" /\ Checks[r][4] = "stop"
         /\ r = "activation" => /\ Checks[r][1] = "report" /\ Checks[r][2] = "stop"
                                /\ Checks[r][3] = "preflight" /\ Checks[r][4] = "stop"
         /\ r = "development" => /\ Checks[r][1] = "report" /\ Checks[r][2] = "read"
                                 /\ Checks[r][3] = "stop" /\ Checks[r][4] = "gates"
BY DEF Checks, Runner

LEMMA PassedPasses ==
  ASSUME run \in Run, run.runner \in Runner, run.at = "check", run.step \in 1 .. 4,
         run' = Passed
  PROVE  Passes /\ run'.eligible = run.eligible
<1>1. Len(Checks[run.runner]) = 4
  BY ChecksOf
<1>2. CASE run.step = 4
  <2>1. run' = [run EXCEPT !.at = "worker"] /\ "worker" \in Points
    BY <1>1, <1>2 DEF Passed, Points, WorkerPoints
  <2> QED BY <1>1, <1>2, <2>1 DEF Passes, Keeps, Run
<1>3. CASE run.step # 4
  <2>1. run.step + 1 \in 0 .. 4 /\ run' = [run EXCEPT !.step = @ + 1]
    BY <1>1, <1>3 DEF Passed
  <2>2. run' \in Run
    BY <2>1 DEF Run
  <2> QED BY <1>1, <1>3, <2>1, <2>2 DEF Passes, Keeps, Run
<1> QED BY <1>2, <1>3

LEMMA ReadPasses ==
  ASSUME run \in Run, run.runner \in Runner, run.step \in 1 .. 3, NEW e \in BOOLEAN,
         run.at = "check",
         run' = [run EXCEPT !.step = @ + 1, !.eligible = e]
  PROVE  Passes
<1>1. Len(Checks[run.runner]) = 4
  BY ChecksOf
<1>2. run.step + 1 \in 0 .. 4
  BY DEF Run
<1>3. run' \in Run
  BY <1>2 DEF Run
<1> QED BY <1>1, <1>3 DEF Passes, Keeps, Run

\* What _persist does to the artifacts, name by name.
Persisted(name, payload) ==
  \A n \in ArtifactNames :
    artifacts'[n] = IF n = name /\ artifacts[n] = None THEN payload ELSE artifacts[n]

LEMMA PersistPersists ==
  ASSUME artifacts \in Artifact, NEW name \in ArtifactNames, NEW payload,
         Persist(name, payload)
  PROVE  Persisted(name, payload)
BY DEF Persist, Persisted, Artifact, ArtifactNames

-----------------------------------------------------------------------------
(* Types.                                                                  *)

StoreTyped ==
  /\ state \in JobState /\ attempts \in Nat
  /\ done \subseteq TransitionOps
  /\ artifacts \in Artifact
  /\ reports \in [ReportOps -> Status \cup {None}]

PlaceTyped ==
  /\ tree \in Contents \cup {None}
  /\ local \in [Branches -> Seq(Contents) \cup {None}]
  /\ remote \in [branches : SUBSET Branches, pull_requests : SUBSET Branches]

WorldTyped == stop \in BOOLEAN /\ calm \in BOOLEAN /\ crashes \in 0 .. MaxCrashes

\* Besides its type: what is set while a run is under way.
RunTyped ==
  /\ run \in Run
  /\ run.at # "idle" => run.runner \in Runner /\ run.plan \in Plan
  /\ run.at = "check" => run.step \in 1 .. 4
  /\ run.at = "conclude" => run.verdict \in Status
  /\ run.at = "record-pull-request" => run.answer \in {"numbered", "unnumbered"}

\* A plan is written only on a branch that exists.
CheckedOut ==
  run.at = "commit" \/ (GitBacked /\ run.at = "edit") =>
    local[run.plan.branch] \in Seq(Contents)

Typed == StoreTyped /\ PlaceTyped /\ WorldTyped /\ RunTyped /\ CheckedOut

LEMMA TypedIsTypeOK == Typed => TypeOK
BY DEF Typed, StoreTyped, PlaceTyped, WorldTyped, RunTyped, TypeOK

LEMMA InitTyped == Init => Typed
<1> SUFFICES ASSUME Init PROVE Typed
  OBVIOUS
<1>1. StoreTyped
  BY DraftPrAssumption DEF Init, StoreTyped, Artifact, JobState, TERMINAL_STATES
<1>2. PlaceTyped
  BY DEF Init, PlaceTyped
<1>5. WorldTyped
  <2>1. 0 \in 0 .. MaxCrashes
    BY DraftPrAssumption
  <2>2. stop \in BOOLEAN
    BY DEF Init
  <2> QED BY <2>1, <2>2 DEF Init, WorldTyped
<1>3. RunTyped
  BY DEF Init, RunTyped, Run, Idle, Points
<1>4. CheckedOut
  BY DEF Init, CheckedOut, Idle
<1> QED BY <1>1, <1>2, <1>3, <1>4, <1>5 DEF Typed

LEMMA AllowedAreStates ==
  \A s \in JobState : ALLOWED_TRANSITIONS[s] \subseteq JobState
BY DEF ALLOWED_TRANSITIONS, JobState, TERMINAL_STATES, Exits

LEMMA GoesTyped ==
  ASSUME RunTyped, run.at # "idle", NEW p \in WorkerPoints, Goes(p),
         p # "record-pull-request"
  PROVE  RunTyped'
BY DEF RunTyped, Goes, Keeps, WorkerPoints

LEMMA EndsTyped ==
  ASSUME RunTyped, run.at # "idle", NEW s \in Status, Ends(s)
  PROVE  RunTyped'
BY DEF RunTyped, Ends, Keeps

LEMMA FailTyped ==
  ASSUME RunTyped, run.at # "idle", Fail
  PROVE  RunTyped'
BY FailEnds, EndsTyped DEF RunTyped, Status

LEMMA LeftTyped == Left => RunTyped'
BY DEF Left, RunTyped

LEMMA PassesTyped ==
  ASSUME RunTyped, run.at = "check", Passes
  PROVE  RunTyped'
<1>1. Len(Checks[run.runner]) = 4
  BY ChecksOf DEF RunTyped
<1> QED BY <1>1 DEF RunTyped, Passes, Keeps

\* What the checks of a runner may do: pass on, end the run, or leave.
LEMMA GateEffect ==
  ASSUME Typed, Gates
  PROVE  /\ UNCHANGED <<store, workspace, remote, world>>
         /\ run.at = "check"
         /\ Passes \/ Left \/ Ends("failed") \/ Ends("halted")
<1> USE DEF Typed, RunTyped
<1>1. CASE CheckReport
  BY <1>1, PassedPasses, LeaveLeft DEF CheckReport, Checking, At
<1>2. CASE CheckEligible
  BY <1>2, PassedPasses, LeaveLeft DEF CheckEligible, Checking, At
<1>3. CASE CheckStop
  BY <1>3, PassedPasses, ConcludeEnds DEF CheckStop, Checking, At, Status
<1>4. CASE CheckPreflight
  BY <1>4, PassedPasses, FailEnds DEF CheckPreflight, Checking, At
<1>5. CASE ReadJob
  <2>1. run.step \in 1 .. 3
    BY <1>5, ChecksOf DEF ReadJob, Checking, At, Runner
  <2> DEFINE e == state \in {"claimed", "executing", "validating"}
  <2>2. e \in BOOLEAN /\ run' = [run EXCEPT !.step = @ + 1, !.eligible = e]
    BY <1>5 DEF ReadJob
  <2> HIDE DEF e
  <2>3. run \in Run /\ run.runner \in Runner /\ run.at = "check"
    BY <1>5 DEF ReadJob, Checking, At
  <2> QED BY <1>5, <2>1, <2>2, <2>3, ReadPasses DEF ReadJob
<1>6. CASE CheckGates
  BY <1>6, PassedPasses, FailEnds DEF CheckGates, Checking, At
<1>7. CASE CheckRaises
  BY <1>7, LeaveLeft DEF CheckRaises, Checking, At
<1> QED BY <1>1, <1>2, <1>3, <1>4, <1>5, <1>6, <1>7 DEF Gates

LEMMA TransitionTyped ==
  ASSUME StoreTyped, NEW target \in JobState, NEW op \in TransitionOps,
         TransitionStore(target, op)
  PROVE  StoreTyped'
<1>1. attempts' \in Nat
  BY DEF TransitionStore, StoreTyped
<1> QED BY <1>1 DEF TransitionStore, StoreTyped

LEMMA StoreTransitionTyped ==
  ASSUME StoreTyped, RunTyped, run.at # "idle",
         NEW target \in JobState, NEW op \in TransitionOps, NEW next \in WorkerPoints,
         next # "record-pull-request", StoreTransition(target, op, next)
  PROVE  StoreTyped' /\ RunTyped'
<1>1. RunTyped'
  BY GotoGoes, GoesTyped, FailTyped DEF StoreTransition, RunTyped, Points
<1>2. CASE TransitionStore(target, op)
  BY <1>1, <1>2, TransitionTyped
<1>3. CASE UNCHANGED store
  BY <1>1, <1>3 DEF store, StoreTyped
<1> QED BY <1>2, <1>3 DEF StoreTransition

LEMMA PersistTyped ==
  ASSUME StoreTyped, NEW name \in ArtifactNames, NEW payload,
         [artifacts EXCEPT ![name] = payload] \in Artifact, Persist(name, payload)
  PROVE  StoreTyped'
BY DEF Persist, StoreTyped

\* The Worker leaves the emergency stop alone and is entered at its points.
LEMMA WorkerEffect ==
  ASSUME Worker
  PROVE  UNCHANGED <<stop, crashes, calm>> /\ run.at \in WorkerPoints
BY DEF Worker, WorkerEnter, FindWorkspace, Checkout, Edit, Commit, RecordWorkspace,
       CreateBranch, RecordBranch, MayValidate, Validate, OpenPullRequest,
       RecordPullRequest, RecordResult, world, At, WorkerPoints

LEMMA WorkerTyped == ASSUME Typed, Worker PROVE Typed'
<1> USE DEF Typed
<1>1. WorldTyped' /\ run \in Run /\ run.at \in WorkerPoints
  BY WorkerEffect DEF WorldTyped, RunTyped
<1>2. CASE WorkerEnter
  <2>1. "executing" \in JobState /\ "execute" \in TransitionOps
    BY DEF JobState, TransitionOps, WorkerOps
  <2>2. StoreTyped' /\ RunTyped'
    BY <1>1, <1>2, <2>1, FailTyped, GotoGoes, GoesTyped, StoreTransitionTyped
       DEF WorkerEnter, At, store, StoreTyped, Points, WorkerPoints
  <2>3. run'.at \in {"workspace", "conclude"}
    BY <1>1, <1>2, GotoGoes, FailEnds
       DEF WorkerEnter, StoreTransition, Goes, Ends, Points, WorkerPoints
  <2> QED BY <1>1, <1>2, <2>2, <2>3 DEF WorkerEnter, workspace, PlaceTyped, CheckedOut
<1>3. CASE FindWorkspace
  <2>1. \E p \in {"branch", "checkout"} : Goto(p) \/ (~GitBacked /\ Goto("edit"))
    BY <1>3 DEF FindWorkspace
  <2>2. RunTyped' /\ CheckedOut'
    BY <1>1, <1>3, <2>1, GotoGoes, GoesTyped
       DEF FindWorkspace, At, Points, WorkerPoints, CheckedOut, Goes
  <2> QED BY <1>1, <1>3, <2>2
          DEF FindWorkspace, store, workspace, StoreTyped, PlaceTyped
<1>4. CASE Checkout
  <2>1. RunTyped'
    BY <1>1, <1>4, GotoGoes, GoesTyped, FailTyped DEF Checkout, At, Points, WorkerPoints
  <2>2. local' \in [Branches -> Seq(Contents) \cup {None}]
    <3>1. UNCHANGED local \/ local' = [local EXCEPT ![run.plan.branch] = <<>>]
      BY <1>4 DEF Checkout
    <3>2. <<>> \in Seq(Contents)
      OBVIOUS
    <3> QED BY <3>1, <3>2 DEF PlaceTyped
  <2>3. run.plan.branch \in Branches
    BY <1>1, <1>4 DEF Checkout, At, RunTyped, Plan
  <2>4. CheckedOut'
    <3>1. CASE Fail
      BY <1>1, <3>1, FailEnds DEF CheckedOut, Ends
    <3>2. CASE Goto("edit") /\ local' = [local EXCEPT ![run.plan.branch] = <<>>]
      <4>1. local'[run.plan.branch] = <<>> /\ run'.plan = run.plan
        BY <1>1, <2>3, <3>2, GotoGoes DEF Goes, Keeps, PlaceTyped, Points, WorkerPoints
      <4>2. <<>> \in Seq(Contents)
        OBVIOUS
      <4> QED BY <4>1, <4>2 DEF CheckedOut
    <3> QED BY <1>4, <3>1, <3>2 DEF Checkout
  <2> QED BY <1>1, <1>4, <2>1, <2>2, <2>4 DEF Checkout, store, StoreTyped, PlaceTyped
<1>5. CASE Edit
  <2>1. RunTyped'
    BY <1>1, <1>5, GotoGoes, GoesTyped, FailTyped DEF Edit, At, Points, WorkerPoints
  <2>2. tree' \in Contents \cup {None}
    BY <1>5 DEF Edit, At, PlaceTyped, RunTyped, Plan
  <2>3. CheckedOut'
    BY <1>1, <1>5, GotoGoes, FailEnds
       DEF Edit, At, Points, WorkerPoints, CheckedOut, Goes, Ends, Keeps
  <2> QED BY <1>1, <1>5, <2>1, <2>2, <2>3 DEF Edit, store, StoreTyped, PlaceTyped
<1>6. CASE Commit
  <2>1. RunTyped' /\ run'.at \in {"record-workspace", "conclude"}
    BY <1>1, <1>6, GotoGoes, GoesTyped, FailTyped, FailEnds
       DEF Commit, At, Points, WorkerPoints, Goes, Ends
  <2>2. run.plan.branch \in Branches /\ run.plan.content \in Contents
    BY <1>6 DEF Commit, At, RunTyped, Plan
  <2>3. local' \in [Branches -> Seq(Contents) \cup {None}] /\ tree' \in Contents \cup {None}
    <3>1. CASE UNCHANGED workspace
      BY <3>1 DEF PlaceTyped, workspace
    <3>2. CASE /\ local' = [local EXCEPT ![run.plan.branch] = Append(@, run.plan.content)]
               /\ tree' = None
      <4>1. Append(local[run.plan.branch], run.plan.content) \in Seq(Contents)
        BY <1>6, <2>2 DEF Commit, At, CheckedOut
      <4> QED BY <3>2, <4>1 DEF PlaceTyped
    <3> QED BY <1>6, <3>1, <3>2 DEF Commit
  <2> QED BY <1>1, <1>6, <2>1, <2>3 DEF Commit, store, StoreTyped, PlaceTyped, CheckedOut
<1>7. CASE RecordWorkspace
  <2>1. StoreTyped'
    <3>1. [artifacts EXCEPT !["workspace"] = run.plan] \in Artifact
      BY <1>7 DEF RecordWorkspace, At, RunTyped, StoreTyped, Artifact
    <3> QED BY <1>7, <3>1, PersistTyped DEF RecordWorkspace, ArtifactNames
  <2>2. RunTyped' /\ run'.at = "branch"
    BY <1>1, <1>7, GotoGoes, GoesTyped DEF RecordWorkspace, At, Points, WorkerPoints, Goes
  <2> QED BY <1>1, <1>7, <2>1, <2>2 DEF RecordWorkspace, workspace, PlaceTyped, CheckedOut
<1>8. CASE CreateBranch
  <2>1. RunTyped' /\ run'.at \in {"may-validate", "record-branch", "conclude"}
    BY <1>1, <1>8, GotoGoes, GoesTyped, FailTyped, FailEnds
       DEF CreateBranch, At, Points, WorkerPoints, Goes, Ends
  <2>2. run.plan.branch \in Branches
    BY <1>8 DEF CreateBranch, At, RunTyped, Plan
  <2>3. remote' \in [branches : SUBSET Branches, pull_requests : SUBSET Branches]
    BY <1>8, <2>2 DEF CreateBranch, PlaceTyped
  <2> QED BY <1>1, <1>8, <2>1, <2>3
          DEF CreateBranch, store, workspace, StoreTyped, PlaceTyped, CheckedOut
<1>9. CASE RecordBranch
  <2>1. StoreTyped'
    <3>1. [artifacts EXCEPT !["branch"] = "created"] \in Artifact
      BY DEF StoreTyped, Artifact
    <3> QED BY <1>9, <3>1, PersistTyped DEF RecordBranch, ArtifactNames
  <2>2. RunTyped' /\ run'.at = "may-validate"
    BY <1>1, <1>9, GotoGoes, GoesTyped DEF RecordBranch, At, Points, WorkerPoints, Goes
  <2> QED BY <1>1, <1>9, <2>1, <2>2 DEF RecordBranch, workspace, PlaceTyped, CheckedOut
<1>10. CASE MayValidate
  <2>1. "validating" \in JobState /\ "validate" \in TransitionOps
    BY DEF JobState, TransitionOps, WorkerOps
  <2>2. StoreTyped' /\ RunTyped'
    BY <1>1, <1>10, <2>1, FailTyped, GotoGoes, GoesTyped, StoreTransitionTyped
       DEF MayValidate, At, store, StoreTyped, Points, WorkerPoints
  <2>3. run'.at \in {"validation", "conclude"}
    BY <1>1, <1>10, GotoGoes, FailEnds
       DEF MayValidate, StoreTransition, Goes, Ends, Points, WorkerPoints
  <2> QED BY <1>1, <1>10, <2>2, <2>3 DEF MayValidate, workspace, PlaceTyped, CheckedOut
<1>11. CASE Validate
  <2>1. StoreTyped'
    <3>1. CASE UNCHANGED store
      BY <3>1 DEF store, StoreTyped
    <3>2. ASSUME NEW outcome \in Outcomes, Persist("validation", outcome) PROVE StoreTyped'
      <4>1. [artifacts EXCEPT !["validation"] = outcome] \in Artifact
        BY DraftPrAssumption DEF StoreTyped, Artifact
      <4> QED BY <3>2, <4>1, PersistTyped DEF ArtifactNames
    <3> QED BY <1>11, <3>1, <3>2 DEF Validate
  <2>2. RunTyped' /\ run'.at \in {"pull-request", "conclude"}
    BY <1>1, <1>11, GotoGoes, GoesTyped, FailTyped, FailEnds
       DEF Validate, At, Points, WorkerPoints, Goes, Ends
  <2> QED BY <1>1, <1>11, <2>1, <2>2 DEF Validate, workspace, PlaceTyped, CheckedOut
<1>12. CASE OpenPullRequest
  <2>1. RunTyped' /\ run'.at \in {"result", "record-pull-request", "conclude"}
    <3>1. CASE Fail
      BY <1>1, <1>12, <3>1, FailTyped, FailEnds DEF OpenPullRequest, At, Ends
    <3>2. CASE \E answer \in {"numbered", "unnumbered"} :
                 run' = [run EXCEPT !.at = "record-pull-request", !.answer = answer]
      BY <1>1, <1>12, <3>2 DEF OpenPullRequest, At, RunTyped, Run, Points, WorkerPoints
    <3>3. CASE /\ artifacts.pull_request # None
               /\ run' = [run EXCEPT !.at = "result", !.answer = artifacts.pull_request]
      BY <1>1, <1>12, <3>3
         DEF OpenPullRequest, At, RunTyped, Run, StoreTyped, Artifact, Points, WorkerPoints
    <3> QED BY <1>12, <3>1, <3>2, <3>3, DraftPrAssumption DEF OpenPullRequest, Answer
  <2>2. run.plan.branch \in Branches
    BY <1>12 DEF OpenPullRequest, At, RunTyped, Plan
  <2>3. remote' \in [branches : SUBSET Branches, pull_requests : SUBSET Branches]
    BY <1>12, <2>2 DEF OpenPullRequest, PlaceTyped
  <2> QED BY <1>1, <1>12, <2>1, <2>3
          DEF OpenPullRequest, store, workspace, StoreTyped, PlaceTyped, CheckedOut
<1>13. CASE RecordPullRequest
  <2>1. StoreTyped'
    <3>1. [artifacts EXCEPT !["pull_request"] = run.answer] \in Artifact
      BY <1>13 DEF RecordPullRequest, At, RunTyped, StoreTyped, Artifact
    <3> QED BY <1>13, <3>1, PersistTyped DEF RecordPullRequest, ArtifactNames
  <2>2. RunTyped' /\ run'.at = "result"
    BY <1>1, <1>13, GotoGoes, GoesTyped DEF RecordPullRequest, At, Points, WorkerPoints, Goes
  <2> QED BY <1>1, <1>13, <2>1, <2>2 DEF RecordPullRequest, workspace, PlaceTyped, CheckedOut
<1>14. CASE RecordResult
  <2>1. StoreTyped'
    <3>1. [artifacts EXCEPT !["result"] = "result"] \in Artifact
      BY DEF StoreTyped, Artifact
    <3> QED BY <1>14, <3>1, PersistTyped DEF RecordResult, ArtifactNames
  <2>2. RunTyped' /\ run'.at = "conclude"
    BY <1>1, <1>14, ConcludeEnds, EndsTyped DEF RecordResult, At, Status, Ends
  <2> QED BY <1>1, <1>14, <2>1, <2>2 DEF RecordResult, workspace, PlaceTyped, CheckedOut
<1> QED BY <1>2, <1>3, <1>4, <1>5, <1>6, <1>7, <1>8, <1>9, <1>10, <1>11, <1>12, <1>13, <1>14
        DEF Worker

LEMMA TypedStep == ASSUME Typed, [Next]_vars PROVE Typed'
<1> USE DEF Typed
<1>1. ASSUME NEW r \in Runners, Call(r) PROVE Typed'
  <2>1. PICK plan \in Plans :
          run' = [Idle EXCEPT !.at = "check", !.runner = r, !.plan = plan, !.step = 1]
    BY <1>1 DEF Call
  <2>2. r \in Runner /\ plan \in Plan
    BY DraftPrAssumption
  <2>3. run' = [at |-> "check", runner |-> r, plan |-> plan, step |-> 1,
                eligible |-> FALSE, answer |-> None, verdict |-> None]
    BY <2>1 DEF Idle
  <2>4. RunTyped' /\ CheckedOut'
    BY <2>2, <2>3 DEF RunTyped, CheckedOut, Run, Points
  <2> QED BY <1>1, <2>4 DEF Call, store, workspace, world, StoreTyped, PlaceTyped, WorldTyped
<1>2. CASE Gates
  <2>1. RunTyped' /\ CheckedOut'
    BY <1>2, GateEffect, PassesTyped, LeftTyped, EndsTyped
       DEF Status, CheckedOut, Passes, Left, Ends
  <2>2. calm' \in BOOLEAN
    BY <1>2 DEF Gates, CheckReport, CheckEligible, CheckStop, CheckPreflight, ReadJob,
                CheckGates, CheckRaises, WorldTyped
  <2> QED BY <1>2, <2>1, <2>2, GateEffect
            DEF store, workspace, world, StoreTyped, PlaceTyped, WorldTyped
<1>3. CASE RecordReport
  <2>1. reports' \in [ReportOps -> Status \cup {None}]
    <3>1. run.verdict \in Status
      BY <1>3 DEF RecordReport, At, RunTyped
    <3> QED BY <1>3, <3>1 DEF RecordReport, StoreTyped
  <2>2. RunTyped' /\ CheckedOut'
    BY <1>3, LeaveLeft, LeftTyped DEF RecordReport, Left, CheckedOut
  <2> QED BY <1>3, <2>1, <2>2
            DEF RecordReport, workspace, world, StoreTyped, PlaceTyped, WorldTyped
<1>4. CASE Worker
  BY <1>4, WorkerTyped
<1>5. CASE Crash
  <2>1. RunTyped' /\ CheckedOut'
    BY <1>5, LeaveLeft, LeftTyped DEF Crash, Left, CheckedOut
  <2>2. crashes' \in 0 .. MaxCrashes
    BY <1>5, DraftPrAssumption DEF Crash, WorldTyped
  <2> QED BY <1>5, <2>1, <2>2
            DEF Crash, store, workspace, StoreTyped, PlaceTyped, WorldTyped
<1>6. CASE OperatorTransition
  <2>1. StoreTyped'
    BY <1>6, TransitionTyped, DraftPrAssumption DEF OperatorTransition, TransitionOps
  <2> QED BY <1>6, <2>1
            DEF OperatorTransition, workspace, world, PlaceTyped, WorldTyped, RunTyped, CheckedOut
<1>7. CASE OperatorStop
  BY <1>7 DEF OperatorStop, store, workspace, StoreTyped, PlaceTyped, WorldTyped, RunTyped,
              CheckedOut
<1>8. CASE UNCHANGED vars
  BY <1>8 DEF vars, StoreTyped, PlaceTyped, WorldTyped, RunTyped, CheckedOut
<1> QED BY <1>1, <1>2, <1>3, <1>4, <1>5, <1>6, <1>7, <1>8 DEF Next, RunStep

\* Every variable keeps its type (the records of code_editing.py, the reports
\* of the runners, the states of contracts.py).
THEOREM TypeCorrect == Spec => []TypeOK
<1>1. Spec => []Typed
  BY InitTyped, TypedStep, PTL DEF Spec
<1> QED BY <1>1, TypedIsTypeOK, PTL

-----------------------------------------------------------------------------
(* Where a step of the Worker takes its run.                               *)

\* The run goes on at one of these points, or ends in a failed report.
Moves(points) ==
  /\ run'.runner = run.runner /\ run'.plan = run.plan
  /\ \/ run'.at \in points
     \/ run'.at = "conclude" /\ run'.verdict = "failed"

LEMMA GotoMoves ==
  ASSUME run \in Run, NEW p \in WorkerPoints, Goto(p)
  PROVE  Moves({p}) /\ run'.answer = run.answer
BY GotoGoes DEF Goes, Keeps, Moves, Points

LEMMA FailMoves == ASSUME run \in Run, Fail PROVE Moves({})
BY FailEnds DEF Ends, Keeps, Moves

LEMMA WorkerMoves ==
  ASSUME Typed, Worker
  PROVE  /\ UNCHANGED reports
         /\ run'.runner = run.runner /\ run'.plan = run.plan
         /\ run'.at \in WorkerPoints \cup {"conclude"}
<1>1. run \in Run
  BY DEF Typed, RunTyped
<1>2. CASE OpenPullRequest
  <2>1. CASE Fail
    BY <1>1, <1>2, <2>1, FailMoves DEF OpenPullRequest, store, Moves
  <2>2. CASE \E answer \in {"numbered", "unnumbered"} :
               run' = [run EXCEPT !.at = "record-pull-request", !.answer = answer]
    BY <1>1, <1>2, <2>2 DEF OpenPullRequest, store, Run, WorkerPoints
  <2>3. CASE run' = [run EXCEPT !.at = "result", !.answer = artifacts.pull_request]
    BY <1>1, <1>2, <2>3 DEF OpenPullRequest, store, Run, WorkerPoints
  <2> QED BY <1>2, <2>1, <2>2, <2>3, DraftPrAssumption DEF OpenPullRequest, Answer
<1>3. CASE RecordResult
  BY <1>1, <1>3, ConcludeEnds DEF RecordResult, Persist, Ends, Keeps, Status
<1>4. CASE WorkerEnter \/ MayValidate
  BY <1>1, <1>4, GotoMoves, FailMoves
     DEF WorkerEnter, MayValidate, StoreTransition, TransitionStore, store, Moves, WorkerPoints
<1>5. CASE FindWorkspace \/ Checkout \/ Edit \/ Commit \/ CreateBranch
  <2>1. (\E p \in WorkerPoints : Goto(p)) \/ Fail
    BY <1>5, DraftPrAssumption
       DEF FindWorkspace, Checkout, Edit, Commit, CreateBranch, WorkerPoints, Answer
  <2>2. UNCHANGED reports
    BY <1>5 DEF FindWorkspace, Checkout, Edit, Commit, CreateBranch, store
  <2> QED BY <1>1, <2>1, <2>2, GotoMoves, FailMoves DEF Moves
<1>6. CASE RecordWorkspace \/ RecordBranch \/ RecordPullRequest \/ Validate
  <2>1. (\E p \in WorkerPoints : Goto(p)) \/ Fail
    BY <1>6 DEF RecordWorkspace, RecordBranch, RecordPullRequest, Validate, WorkerPoints
  <2>2. UNCHANGED reports
    BY <1>6 DEF RecordWorkspace, RecordBranch, RecordPullRequest, Validate, Persist, store
  <2> QED BY <1>1, <2>1, <2>2, GotoMoves, FailMoves DEF Moves
<1> QED BY <1>2, <1>3, <1>4, <1>5, <1>6 DEF Worker

-----------------------------------------------------------------------------
(* The emergency stop.                                                     *)

LastStop(r) == IF r = "development" THEN 3 ELSE 4

\* calm is due from the last stop check on; before it, it follows from the stop
\* being off.
Calm ==
  /\ run.at # "idle" /\ ~stop => calm
  /\ run.at = "check" /\ run.step > LastStop(run.runner) => calm
  /\ run.at \in WorkerPoints => calm

LEMMA CalmGates == ASSUME Typed, Calm, Gates PROVE Calm'
<1>1. /\ run.at = "check" /\ run.runner \in Runner /\ run.step \in 1 .. 4
      /\ stop \in BOOLEAN /\ UNCHANGED stop
      /\ Passes \/ Left \/ Ends("failed") \/ Ends("halted")
  BY GateEffect DEF Typed, RunTyped, WorldTyped, world
<1>2. Len(Checks[run.runner]) = 4
  BY <1>1, ChecksOf
<1>6. CASE CheckRaises
  <2>1. run'.at = "idle"
    BY <1>6, LeaveLeft DEF CheckRaises, Left
  <2> QED BY <2>1 DEF Calm, WorkerPoints
<1>3. CASE CheckReport \/ CheckEligible \/ CheckPreflight \/ ReadJob
  <2>1. ~stop' => calm'
    <3>1. calm' = ~stop
      BY <1>3 DEF CheckReport, CheckEligible, CheckPreflight, ReadJob
    <3> QED BY <1>1, <3>1
  <2>2. run.step + 1 <= LastStop(run.runner)
    BY <1>1, <1>3, ChecksOf
       DEF CheckReport, CheckEligible, CheckPreflight, ReadJob, Checking, LastStop, Runner
  <2>3. run'.at = "check" => run'.runner = run.runner /\ run'.step = run.step + 1
    BY <1>1 DEF Passes, Keeps, Left, Ends
  <2>4. run'.at \in {"check", "idle", "conclude"}
    BY <1>1, <1>2, <2>2 DEF Passes, Left, Ends, LastStop
  <2> QED BY <1>1, <2>1, <2>2, <2>3, <2>4 DEF Calm, LastStop, WorkerPoints
<1>4. CASE CheckStop
  <2>1. UNCHANGED calm /\ (run' = Passed /\ ~stop => calm)
    BY <1>1, <1>4 DEF CheckStop, Calm
  <2>2. run.at = "check" /\ (stop => run'.at = "conclude")
    BY <1>1, <1>4, ConcludeEnds DEF CheckStop, Typed, RunTyped, Status, Ends
  <2> QED BY <1>1, <2>1, <2>2 DEF Calm, WorkerPoints
<1>5. CASE CheckGates
  <2>1. calm' = calm /\ run.runner = "development" /\ run.step = 4
    BY <1>1, <1>5, ChecksOf DEF CheckGates, Checking, Runner
  <2>2. calm
    BY <1>1, <2>1 DEF Calm, LastStop
  <2> QED BY <1>1, <2>1, <2>2 DEF Calm
<1> QED BY <1>3, <1>4, <1>5, <1>6 DEF Gates

LEMMA CalmStep == ASSUME Typed, Calm, [Next]_vars PROVE Calm'
<1>1. ASSUME NEW r \in Runners, Call(r) PROVE Calm'
  <2>1. run'.at = "check" /\ run'.step = 1
    BY <1>1 DEF Call, Idle
  <2>2. ~stop' => calm'
    BY <1>1 DEF Call, world
  <2> QED BY <2>1, <2>2 DEF Calm, LastStop, WorkerPoints
<1>2. CASE Gates
  BY <1>2, CalmGates
<1>3. CASE Worker
  BY <1>3, WorkerMoves, WorkerEffect DEF Calm, WorkerPoints
<1>4. CASE RecordReport \/ Crash
  <2>1. run'.at = "idle"
    BY <1>4, LeaveLeft DEF RecordReport, Crash, Left
  <2> QED BY <2>1 DEF Calm, WorkerPoints
<1>5. CASE OperatorTransition
  BY <1>5 DEF OperatorTransition, world, Calm
<1>6. CASE OperatorStop
  BY <1>6 DEF OperatorStop, Calm
<1>7. CASE UNCHANGED vars
  BY <1>7 DEF vars, Calm
<1> QED BY <1>1, <1>2, <1>3, <1>4, <1>5, <1>6, <1>7 DEF Next, RunStep

\* A stop raised before a run, or while its runner consults anything, keeps
\* the Worker out (run_one, run_to_draft_pr of the two other runners).
THEOREM StopKeepsOut == Spec => []StopIsObeyed
<1>1. Init => Calm
  BY DEF Init, Calm, Idle, WorkerPoints
<1>2. Spec => [](Typed /\ Calm)
  BY <1>1, InitTyped, TypedStep, CalmStep, PTL DEF Spec
<1>3. Calm => StopIsObeyed
  BY DEF Calm, StopIsObeyed
<1> QED BY <1>2, <1>3, PTL

-----------------------------------------------------------------------------
(* What backs a pull request and the report of one.                        *)

AfterBranch == {"may-validate", "validation", "pull-request", "record-pull-request", "result"}
AfterWorkspace == {"branch", "record-branch"} \cup AfterBranch
AfterValidation == {"pull-request", "record-pull-request", "result"}

Opened == remote.pull_requests # {}

CreatedIsBacked ==
  artifacts.result # None /\ artifacts.pull_request = "numbered" /\ Opened

\* The points of the run and the records before and after them agree.
Evidence ==
  /\ run.at \in AfterWorkspace => artifacts.workspace # None
  /\ run.at \in AfterBranch => artifacts.branch = "created"
  /\ run.at \in AfterValidation => artifacts.validation = "passed"
  /\ run.at = "record-pull-request" => Opened /\ artifacts.pull_request = None
  /\ run.at = "result" => artifacts.pull_request = run.answer /\ run.answer # None
  /\ artifacts.pull_request # None => Opened
  /\ Opened => /\ artifacts.workspace # None
               /\ artifacts.branch = "created"
               /\ artifacts.validation = "passed"
  /\ run.at = "conclude" /\ run.verdict = "draft_pr_created" => CreatedIsBacked
  /\ \A r \in Runner : reports[r] = "draft_pr_created" => CreatedIsBacked

\* A step that only moves the run, to a point that needs no more than it had.
LEMMA EvidenceMoves ==
  ASSUME Evidence, NEW S \in SUBSET WorkerPoints, Moves(S),
         UNCHANGED <<artifacts, reports, remote>>,
         \A q \in S : /\ q \notin {"record-pull-request", "result"}
                      /\ q \in AfterWorkspace => run.at \in AfterWorkspace \/ artifacts.workspace # None
                      /\ q \in AfterBranch => run.at \in AfterBranch \/ artifacts.branch = "created"
                      /\ q \in AfterValidation => run.at \in AfterValidation
                                                  \/ artifacts.validation = "passed"
  PROVE  Evidence'
BY DEF Evidence, Moves, CreatedIsBacked, Opened, AfterWorkspace, AfterBranch, AfterValidation,
       WorkerPoints

\* The points of the Worker before anything is recorded.
Early == {"workspace", "checkout", "edit", "commit", "record-workspace"}

LEMMA EvidenceWorker == ASSUME Typed, Evidence, Worker PROVE Evidence'
<1>1. run \in Run /\ artifacts \in Artifact
  BY DEF Typed, RunTyped, StoreTyped
<1>2. CASE WorkerEnter \/ Checkout \/ Edit \/ Commit \/ FindWorkspace
  <2>1. UNCHANGED <<artifacts, reports, remote>>
    BY <1>2 DEF WorkerEnter, Checkout, Edit, Commit, FindWorkspace, StoreTransition,
                TransitionStore, store
  <2>2. \/ \E q \in Early : Moves({q})
        \/ Moves({})
        \/ artifacts.workspace # None /\ Moves({"branch"})
    BY <1>1, <1>2, GotoMoves, FailMoves
       DEF WorkerEnter, Checkout, Edit, Commit, FindWorkspace, StoreTransition, Early, WorkerPoints
  <2> QED BY <2>1, <2>2, EvidenceMoves
          DEF Early, WorkerPoints, AfterWorkspace, AfterBranch, AfterValidation
<1>3. CASE RecordWorkspace
  <2>1. Persisted("workspace", run.plan) /\ Moves({"branch"}) /\ UNCHANGED <<reports, remote>>
    BY <1>1, <1>3, PersistPersists, GotoMoves
       DEF RecordWorkspace, Persist, ArtifactNames, WorkerPoints
  <2>2. run.plan # None
    BY <1>3, DraftPrAssumption DEF RecordWorkspace, At, Typed, RunTyped
  <2> QED BY <2>1, <2>2
          DEF Evidence, Moves, Persisted, ArtifactNames, CreatedIsBacked, Opened,
              AfterWorkspace, AfterBranch, AfterValidation
<1>4. CASE CreateBranch
  <2>1. UNCHANGED <<artifacts, reports>> /\ UNCHANGED remote.pull_requests
    BY <1>4 DEF CreateBranch, store, Typed, PlaceTyped
  <2>2. \/ Moves({"record-branch"}) \/ Moves({})
        \/ artifacts.branch # None /\ Moves({"may-validate"})
    BY <1>1, <1>4, GotoMoves, FailMoves DEF CreateBranch, WorkerPoints
  <2>3. artifacts.branch \in {"created", None} /\ run.at = "branch"
    BY <1>1, <1>4 DEF CreateBranch, At, Artifact
  <2> QED BY <2>1, <2>2, <2>3
          DEF Evidence, Moves, CreatedIsBacked, Opened, AfterWorkspace, AfterBranch,
              AfterValidation
<1>5. CASE RecordBranch
  <2>1. /\ Persisted("branch", "created") /\ Moves({"may-validate"})
        /\ UNCHANGED <<reports, remote>> /\ run.at = "record-branch"
    BY <1>1, <1>5, PersistPersists, GotoMoves
       DEF RecordBranch, At, Persist, ArtifactNames, WorkerPoints
  <2>2. artifacts.branch \in {"created", None}
    BY <1>1 DEF Artifact
  <2> QED BY <2>1, <2>2
          DEF Evidence, Moves, Persisted, ArtifactNames, CreatedIsBacked, Opened,
              AfterWorkspace, AfterBranch, AfterValidation
<1>6. CASE MayValidate
  <2>1. UNCHANGED <<artifacts, reports, remote>> /\ run.at = "may-validate"
    BY <1>6 DEF MayValidate, At, StoreTransition, TransitionStore, store
  <2>2. Moves({"validation"}) \/ Moves({})
    BY <1>1, <1>6, GotoMoves, FailMoves DEF MayValidate, StoreTransition, WorkerPoints
  <2> QED BY <2>1, <2>2, EvidenceMoves
          DEF WorkerPoints, AfterWorkspace, AfterBranch, AfterValidation
<1>7. CASE Validate
  <2>1. UNCHANGED <<reports, remote>> /\ run.at = "validation"
    BY <1>7 DEF Validate, At, Persist, store
  <2>2. \A n \in ArtifactNames : artifacts[n] # None => artifacts'[n] = artifacts[n]
    BY <1>1, <1>7, PersistPersists DEF Validate, store, Persisted, ArtifactNames
  <2>3. \A n \in ArtifactNames \ {"validation"} : artifacts'[n] = artifacts[n]
    BY <1>1, <1>7, PersistPersists DEF Validate, store, Persisted, ArtifactNames
  <2>4. Moves({}) \/ (artifacts'.validation = "passed" /\ Moves({"pull-request"}))
    BY <1>1, <1>7, GotoMoves, FailMoves DEF Validate, WorkerPoints
  <2>5. "passed" # None
    BY DraftPrAssumption DEF ValidationStatus
  <2> QED BY <2>1, <2>2, <2>3, <2>4, <2>5
          DEF Evidence, Moves, ArtifactNames, CreatedIsBacked, Opened, AfterWorkspace,
              AfterBranch, AfterValidation
<1>8. CASE OpenPullRequest
  <2>1. UNCHANGED <<artifacts, reports>> /\ run.at = "pull-request"
    BY <1>8 DEF OpenPullRequest, At, store
  <2>2. Opened => Opened'
    BY <1>8 DEF OpenPullRequest, Opened, Typed, PlaceTyped
  <2>3. \/ Moves({})
        \/ Opened' /\ run'.at = "record-pull-request" /\ artifacts.pull_request = None
        \/ run'.at = "result" /\ run'.answer = artifacts.pull_request
           /\ artifacts.pull_request # None
    <3>1. CASE Fail
      BY <1>1, <3>1, FailMoves
    <3>2. CASE /\ artifacts.pull_request = None
               /\ remote' = [remote EXCEPT !.pull_requests = @ \cup {run.plan.branch}]
               /\ \E answer \in {"numbered", "unnumbered"} :
                    run' = [run EXCEPT !.at = "record-pull-request", !.answer = answer]
      BY <1>1, <3>2 DEF Opened, Typed, PlaceTyped, Run
    <3>3. CASE /\ artifacts.pull_request # None
               /\ run' = [run EXCEPT !.at = "result", !.answer = artifacts.pull_request]
      BY <1>1, <3>3 DEF Run
    <3> QED BY <1>8, <3>1, <3>2, <3>3, DraftPrAssumption DEF OpenPullRequest, Answer
  <2> QED BY <2>1, <2>2, <2>3
          DEF Evidence, Moves, CreatedIsBacked, Opened, AfterWorkspace, AfterBranch,
              AfterValidation
<1>9. CASE RecordPullRequest
  <2>1. /\ Persisted("pull_request", run.answer) /\ Moves({"result"})
        /\ UNCHANGED <<reports, remote>> /\ run.at = "record-pull-request"
        /\ run'.answer = run.answer
    BY <1>1, <1>9, PersistPersists, GotoMoves
       DEF RecordPullRequest, At, Persist, ArtifactNames, WorkerPoints
  <2>2. run.answer # None /\ artifacts.pull_request = None
    BY <1>9, DraftPrAssumption DEF RecordPullRequest, At, Typed, RunTyped, Evidence
  <2>3. artifacts'.pull_request = run.answer /\ run'.at \in {"result", "conclude"}
    BY <2>1, <2>2 DEF Persisted, ArtifactNames, Moves
  <2>4. run'.at = "conclude" => run'.verdict = "failed"
    BY <2>1 DEF Moves
  <2> QED BY <2>1, <2>2, <2>3, <2>4, DraftPrAssumption
          DEF Evidence, Persisted, ArtifactNames, CreatedIsBacked, Opened, AfterWorkspace,
              AfterBranch, AfterValidation
<1>10. CASE RecordResult
  <2>1. /\ Persisted("result", "result") /\ UNCHANGED <<reports, remote>>
        /\ run.at = "result" /\ run'.at = "conclude"
        /\ run'.verdict = IF run.answer = "numbered" THEN "draft_pr_created" ELSE "failed"
    BY <1>1, <1>10, PersistPersists, ConcludeEnds
       DEF RecordResult, At, Persist, ArtifactNames, Status, Ends
  <2>2. "result" # None
    BY DraftPrAssumption
  <2> QED BY <2>1, <2>2
          DEF Evidence, Persisted, ArtifactNames, CreatedIsBacked, Opened, AfterWorkspace,
              AfterBranch, AfterValidation
<1> QED BY <1>2, <1>3, <1>4, <1>5, <1>6, <1>7, <1>8, <1>9, <1>10 DEF Worker

LEMMA EvidenceStep == ASSUME Typed, Evidence, [Next]_vars PROVE Evidence'
<1> USE DEF Evidence, CreatedIsBacked, Opened
<1>1. ASSUME NEW r \in Runners, Call(r) PROVE Evidence'
  <2>1. run'.at = "check" /\ UNCHANGED <<artifacts, reports, remote>>
    BY <1>1 DEF Call, Idle, store
  <2> QED BY <2>1 DEF AfterWorkspace, AfterBranch, AfterValidation
<1>2. CASE Gates
  <2>1. UNCHANGED <<artifacts, reports, remote>>
    BY <1>2, GateEffect DEF store
  <2>2. \/ run'.at \in {"idle", "check", "worker"}
        \/ run'.at = "conclude" /\ run'.verdict \in {"failed", "halted"}
    BY <1>2, GateEffect DEF Passes, Left, Ends
  <2> QED BY <2>1, <2>2 DEF AfterWorkspace, AfterBranch, AfterValidation
<1>3. CASE Worker
  BY <1>3, EvidenceWorker
<1>4. CASE RecordReport
  <2>1. run'.at = "idle" /\ UNCHANGED <<artifacts, remote>> /\ run.at = "conclude"
    BY <1>4, LeaveLeft DEF RecordReport, Left, At
  <2>2. \A r \in Runner : reports'[r] \in {reports[r], run.verdict}
    BY <1>4 DEF RecordReport, Typed, StoreTyped, ReportOps
  <2> QED BY <2>1, <2>2 DEF AfterWorkspace, AfterBranch, AfterValidation
<1>5. CASE Crash
  <2>1. run'.at = "idle" /\ UNCHANGED <<artifacts, reports, remote>>
    BY <1>5, LeaveLeft DEF Crash, Left, store
  <2> QED BY <2>1 DEF AfterWorkspace, AfterBranch, AfterValidation
<1>6. CASE OperatorTransition
  BY <1>6 DEF OperatorTransition, TransitionStore
<1>7. CASE OperatorStop
  BY <1>7 DEF OperatorStop, store
<1>8. CASE UNCHANGED vars
  BY <1>8 DEF vars
<1> QED BY <1>1, <1>2, <1>3, <1>4, <1>5, <1>6, <1>7, <1>8 DEF Next, RunStep

LEMMA InitEvidence == Init => Evidence
<1> SUFFICES ASSUME Init PROVE Evidence
  OBVIOUS
<1>1. run.at = "idle" /\ artifacts.pull_request = None /\ ~Opened
  BY DEF Init, Idle, Opened
<1>2. \A r \in Runner : reports[r] # "draft_pr_created"
  BY DraftPrAssumption DEF Init, ReportOps
<1> QED BY <1>1, <1>2 DEF Evidence, AfterWorkspace, AfterBranch, AfterValidation

\* A pull request has a workspace, a branch and a passing validation on record,
\* a report of one its recorded number (GuardedCodeEditingWorker.run,
\* GuardedGitHubMutationTransport.execute and the reports of the runners).
THEOREM PullRequestBacked == Spec => []PullRequestIsBacked
<1>2. Spec => [](Typed /\ Evidence)
  BY InitEvidence, InitTyped, TypedStep, EvidenceStep, PTL DEF Spec
<1>3. Typed /\ Evidence => PullRequestIsBacked
  <2>1. ASSUME Typed, Evidence PROVE PullRequestIsBacked
    BY <2>1 DEF Evidence, CreatedIsBacked, Opened, PullRequestIsBacked
  <2> QED BY <2>1
<1> QED BY <1>2, <1>3, PTL

-----------------------------------------------------------------------------
(* One commit on an issue branch.                                          *)

BeforeRecord == {"checkout", "edit", "commit", "record-workspace"}

\* The Git backend: what the points before the record know of the tree and of
\* the branch of the plan.
Once ==
  GitBacked =>
    /\ \A b \in Branches : local[b] \in {None, <<>>} \cup {<<c>> : c \in Contents}
    /\ run.at \in BeforeRecord => artifacts.workspace = None
    /\ run.at \in {"edit", "commit"} => local[run.plan.branch] = <<>>
    /\ run.at = "edit" => tree = None
    /\ run.at = "record-workspace" =>
         local[run.plan.branch] = <<run.plan.content>> /\ tree = None
    /\ artifacts.workspace # None =>
         /\ local[artifacts.workspace.branch] = <<artifacts.workspace.content>>
         /\ tree = None

\* A step that leaves the workspace and its record alone and brings the run to
\* no point before the record.
LEMMA OnceAside ==
  ASSUME Once, UNCHANGED workspace, artifacts'.workspace = artifacts.workspace,
         run'.at \notin BeforeRecord
  PROVE  Once'
BY DEF Once, workspace, BeforeRecord

LEMMA OnceWorker == ASSUME Typed, Once, Worker PROVE Once'
<1> SUFFICES ASSUME GitBacked PROVE Once'
  BY DEF Once
<1> USE DEF BeforeRecord
<1>1. run \in Run /\ artifacts \in Artifact /\ local \in [Branches -> Seq(Contents) \cup {None}]
  BY DEF Typed, RunTyped, StoreTyped, PlaceTyped
<1>2. run.plan \in Plan
  BY <1>1, WorkerEffect DEF Typed, RunTyped, WorkerPoints
<1>3. run.plan.branch \in Branches /\ run.plan.content \in Contents
  BY <1>2 DEF Plan
<1>4. CASE WorkerEnter \/ CreateBranch \/ OpenPullRequest \/ MayValidate
  <2>1. UNCHANGED workspace /\ UNCHANGED artifacts
    BY <1>4 DEF WorkerEnter, CreateBranch, OpenPullRequest, MayValidate, StoreTransition,
                TransitionStore, store
  <2>2. run'.at \notin BeforeRecord
    <3>1. CASE \E q \in WorkerPoints \ BeforeRecord : Goto(q)
      BY <1>1, <3>1, GotoGoes DEF Goes, Points
    <3>2. CASE Fail
      BY <1>1, <3>2, FailEnds DEF Ends
    <3>3. CASE OpenPullRequest
      BY <1>1, <3>2, <3>3, DraftPrAssumption DEF OpenPullRequest, Answer, Run, Points
    <3>4. CASE WorkerEnter \/ CreateBranch \/ MayValidate
      BY <3>1, <3>2, <3>4, DraftPrAssumption
         DEF WorkerEnter, CreateBranch, MayValidate, StoreTransition, Answer, WorkerPoints
    <3> QED BY <1>4, <3>3, <3>4
  <2> QED BY <2>1, <2>2, OnceAside
<1>5. CASE RecordBranch \/ RecordPullRequest \/ Validate \/ RecordResult
  <2>1. UNCHANGED workspace
    BY <1>5 DEF RecordBranch, RecordPullRequest, Validate, RecordResult
  <2>2. artifacts'.workspace = artifacts.workspace
    BY <1>1, <1>5, PersistPersists
       DEF RecordBranch, RecordPullRequest, Validate, RecordResult, Persisted, ArtifactNames,
           store
  <2>3. run'.at \notin BeforeRecord
    <3>1. CASE \E q \in WorkerPoints \ BeforeRecord : Goto(q)
      BY <1>1, <3>1, GotoGoes DEF Goes, Points
    <3>2. CASE \E status \in Status : Conclude(status)
      BY <1>1, <3>2, ConcludeEnds DEF Ends
    <3> QED BY <1>5, <3>1, <3>2
            DEF RecordBranch, RecordPullRequest, Validate, RecordResult, Fail, Status,
                WorkerPoints
  <2> QED BY <2>1, <2>2, <2>3, OnceAside
<1>6. CASE FindWorkspace
  <2>1. UNCHANGED workspace /\ UNCHANGED artifacts
    BY <1>6 DEF FindWorkspace, store
  <2>2. run'.at \in {"branch", "checkout"}
        /\ (run'.at = "checkout" => artifacts.workspace = None)
    BY <1>1, <1>6, GotoGoes DEF FindWorkspace, Goes, Points, WorkerPoints
  <2> QED BY <2>1, <2>2 DEF Once, workspace
<1>7. CASE Checkout
  <2>1. CASE Fail /\ UNCHANGED local
    BY <1>1, <1>7, <2>1, FailEnds, OnceAside DEF Checkout, Ends, store, workspace
  <2>2. CASE tree = None /\ Goto("edit") /\ local' = [local EXCEPT ![run.plan.branch] = <<>>]
    <3>1. Goes("edit")
      BY <1>1, <2>2, GotoGoes DEF Points, WorkerPoints
    <3>2. artifacts' = artifacts /\ tree' = None /\ run.at = "checkout"
      BY <1>7, <2>2 DEF Checkout, At, store
    <3>3. artifacts.workspace = None
      BY <3>2 DEF Once
    <3>4. \A b \in Branches : local'[b] = IF b = run.plan.branch THEN <<>> ELSE local[b]
      BY <1>1, <2>2
    <3> QED BY <1>3, <3>1, <3>2, <3>3, <3>4 DEF Once, Goes, Keeps
  <2> QED BY <1>7, <2>1, <2>2 DEF Checkout
<1>8. CASE Edit
  <2>1. CASE Fail /\ UNCHANGED tree
    BY <1>1, <1>8, <2>1, FailEnds, OnceAside DEF Edit, Ends, store, workspace
  <2>2. CASE Goto("commit")
    <3>1. Goes("commit")
      BY <1>1, <2>2, GotoGoes DEF Points, WorkerPoints
    <3>2. artifacts' = artifacts /\ local' = local /\ run.at = "edit"
      BY <1>8 DEF Edit, At, store
    <3>3. artifacts.workspace = None /\ local[run.plan.branch] = <<>>
      BY <3>2 DEF Once
    <3> QED BY <3>1, <3>2, <3>3 DEF Once, Goes, Keeps
  <2> QED BY <1>8, <2>1, <2>2 DEF Edit
<1>9. CASE Commit
  <2>1. artifacts' = artifacts /\ run.at = "commit"
    BY <1>9 DEF Commit, At, store
  <2>2. artifacts.workspace = None /\ local[run.plan.branch] = <<>>
    BY <2>1 DEF Once
  <2>3. CASE Fail /\ UNCHANGED workspace
    BY <1>1, <2>1, <2>3, FailEnds, OnceAside DEF Ends
  <2>4. CASE /\ local' = [local EXCEPT ![run.plan.branch] = Append(@, run.plan.content)]
             /\ tree' = None /\ Goto("record-workspace")
    <3>1. Goes("record-workspace")
      BY <1>1, <2>4, GotoGoes DEF Points, WorkerPoints
    <3>2. Append(<<>>, run.plan.content) = <<run.plan.content>>
      OBVIOUS
    <3>3. \A b \in Branches :
            local'[b] = IF b = run.plan.branch THEN <<run.plan.content>> ELSE local[b]
      BY <1>1, <2>2, <2>4, <3>2
    <3> QED BY <1>3, <2>1, <2>2, <2>4, <3>1, <3>3 DEF Once, Goes, Keeps
  <2> QED BY <1>9, <2>2, <2>3, <2>4 DEF Commit, Base
<1>10. CASE RecordWorkspace
  <2>1. UNCHANGED workspace /\ run.at = "record-workspace"
    BY <1>10 DEF RecordWorkspace, At
  <2>2. Goes("branch")
    BY <1>1, <1>10, GotoGoes DEF RecordWorkspace, Points, WorkerPoints
  <2>3. artifacts.workspace = None
    BY <2>1 DEF Once
  <2>4. artifacts'.workspace = run.plan
    BY <1>1, <1>10, <2>3, PersistPersists DEF RecordWorkspace, Persisted, ArtifactNames
  <2> QED BY <2>1, <2>2, <2>4 DEF Once, Goes, workspace
<1> QED BY <1>4, <1>5, <1>6, <1>7, <1>8, <1>9, <1>10 DEF Worker

LEMMA OnceStep == ASSUME Typed, Once, [Next]_vars PROVE Once'
<1>1. ASSUME NEW r \in Runners, Call(r) PROVE Once'
  <2>1. run'.at = "check" /\ UNCHANGED <<artifacts, workspace>>
    BY <1>1 DEF Call, Idle, store
  <2> QED BY <2>1, OnceAside DEF BeforeRecord
<1>2. CASE Gates
  <2>1. UNCHANGED <<artifacts, workspace>>
    BY <1>2, GateEffect DEF store
  <2>2. run'.at \in {"idle", "check", "worker", "conclude"}
    BY <1>2, GateEffect DEF Passes, Left, Ends
  <2> QED BY <2>1, <2>2, OnceAside DEF BeforeRecord
<1>3. CASE Worker
  BY <1>3, OnceWorker
<1>4. CASE RecordReport \/ Crash
  <2>1. run'.at = "idle" /\ UNCHANGED <<artifacts, workspace>>
    BY <1>4, LeaveLeft DEF RecordReport, Crash, Left, store
  <2> QED BY <2>1, OnceAside DEF BeforeRecord
<1>5. CASE OperatorTransition
  BY <1>5 DEF OperatorTransition, TransitionStore, workspace, Once
<1>6. CASE OperatorStop
  BY <1>6 DEF OperatorStop, store, workspace, Once
<1>7. CASE UNCHANGED vars
  BY <1>7 DEF vars, workspace, Once
<1> QED BY <1>1, <1>2, <1>3, <1>4, <1>5, <1>6, <1>7 DEF Next, RunStep

\* The Git backend never puts a second commit on an issue branch, and a recorded
\* workspace is the one commit of its branch, in a clean tree
\* (GitWorkspaceBackend.apply, GuardedCodeEditingWorker.run).
THEOREM WorkspaceCommittedOnce == Spec => []CommittedOnce
<1>1. Init => Once
  <2> SUFFICES ASSUME Init PROVE Once
    OBVIOUS
  <2>1. run.at = "idle" /\ artifacts.workspace = None /\ \A b \in Branches : local[b] = None
    BY DEF Init, Idle
  <2> QED BY <2>1 DEF Once, BeforeRecord
<1>2. Spec => [](Typed /\ Once)
  BY <1>1, InitTyped, TypedStep, OnceStep, PTL DEF Spec
<1>3. Typed /\ Once => CommittedOnce
  <2> SUFFICES ASSUME Typed, Once, GitBacked PROVE CommittedOnce
    BY DEF CommittedOnce
  <2>1. ASSUME NEW b \in Branches, local[b] # None PROVE Len(local[b]) <= 1
    <3>1. local[b] = <<>> \/ \E c \in Contents : local[b] = <<c>>
      BY <2>1 DEF Once
    <3>2. CASE local[b] = <<>>
      <4>1. Len(local[b]) = 0
        BY <3>2
      <4> QED BY <4>1
    <3>3. CASE \E c \in Contents : local[b] = <<c>>
      <4>1. PICK c \in Contents : local[b] = <<c>>
        BY <3>3
      <4>2. Len(local[b]) = 1
        BY <4>1
      <4> QED BY <4>2
    <3> QED BY <3>1, <3>2, <3>3
  <2> QED BY <2>1 DEF Once, CommittedOnce
<1> QED BY <1>2, <1>3, PTL
-----------------------------------------------------------------------------
(* After the report of a draft pull request.                               *)

\* A plan is applied only while no workspace is on record.
Unapplied == run.at \in BeforeRecord => artifacts.workspace = None

\* The steps that bring a run to no point before the record of its workspace.
LEMMA Beyond ==
  ASSUME Typed,
         \/ WorkerEnter \/ RecordWorkspace \/ CreateBranch \/ RecordBranch \/ MayValidate
         \/ Validate \/ OpenPullRequest \/ RecordPullRequest \/ RecordResult
  PROVE  run'.at \notin BeforeRecord
<1> USE DEF BeforeRecord
<1>1. run \in Run
  BY DEF Typed, RunTyped
<1>2. CASE \E q \in WorkerPoints \ BeforeRecord : Goto(q)
  BY <1>1, <1>2, GotoGoes DEF Goes, Points
<1>3. CASE \E status \in Status : Conclude(status)
  BY <1>1, <1>3, ConcludeEnds DEF Ends
<1>4. CASE OpenPullRequest
  BY <1>1, <1>3, <1>4, DraftPrAssumption DEF OpenPullRequest, Answer, Run, Points, Fail, Status
<1>5. CASE WorkerEnter \/ CreateBranch \/ MayValidate
  BY <1>2, <1>3, <1>5, DraftPrAssumption
     DEF WorkerEnter, CreateBranch, MayValidate, StoreTransition, Answer, WorkerPoints, Fail,
         Status
<1> QED BY <1>2, <1>3, <1>4, <1>5
        DEF RecordWorkspace, RecordBranch, RecordPullRequest, Validate, RecordResult, Fail,
            Status, WorkerPoints

LEMMA UnappliedStep == ASSUME Typed, Unapplied, [Next]_vars PROVE Unapplied'
<1> USE DEF BeforeRecord
<1>1. run \in Run
  BY DEF Typed, RunTyped
<1>2. CASE \/ WorkerEnter \/ RecordWorkspace \/ CreateBranch \/ RecordBranch \/ MayValidate
           \/ Validate \/ OpenPullRequest \/ RecordPullRequest \/ RecordResult
  BY <1>2, Beyond DEF Unapplied
<1>3. CASE FindWorkspace
  <2>1. UNCHANGED artifacts /\ (artifacts.workspace # None => Goto("branch"))
    BY <1>3 DEF FindWorkspace, store
  <2> QED BY <1>1, <2>1, GotoGoes DEF Unapplied, Goes, Points, WorkerPoints
<1>4. CASE Checkout \/ Edit \/ Commit
  <2>1. UNCHANGED artifacts /\ run.at \in BeforeRecord
    BY <1>4 DEF Checkout, Edit, Commit, store, At
  <2> QED BY <2>1 DEF Unapplied
<1>5. CASE Gates \/ RecordReport \/ Crash \/ (\E r \in Runners : Call(r))
  <2>1. CASE Gates
    BY <2>1, GateEffect DEF Passes, Left, Ends, Unapplied
  <2>2. CASE RecordReport \/ Crash
    BY <2>2, LeaveLeft DEF RecordReport, Crash, Left, Unapplied
  <2>3. CASE \E r \in Runners : Call(r)
    BY <2>3 DEF Call, Idle, Unapplied
  <2> QED BY <1>5, <2>1, <2>2, <2>3
<1>6. CASE OperatorTransition \/ OperatorStop \/ UNCHANGED vars
  BY <1>6 DEF OperatorTransition, TransitionStore, OperatorStop, store, vars, Unapplied
<1> QED BY <1>2, <1>3, <1>4, <1>5, <1>6 DEF Next, RunStep, Worker

FinalStep ==
  \A r \in Runners :
    reports[r] = "draft_pr_created" =>
      /\ reports'[r] = "draft_pr_created"
      /\ UNCHANGED <<artifacts, workspace, remote>>

\* Everything a run of the Worker may record is on record, so nothing is written.
LEMMA NothingLeft ==
  ASSUME Typed, Unapplied, Worker, artifacts.workspace # None, artifacts.branch # None,
         artifacts.validation # None, artifacts.pull_request # None, artifacts.result # None
  PROVE  UNCHANGED <<artifacts, workspace, remote, reports>>
<1>1. artifacts \in Artifact /\ ~At("checkout") /\ ~At("edit") /\ ~At("commit")
  BY DEF Typed, StoreTyped, Unapplied, BeforeRecord, At
<1>2. CASE WorkerEnter \/ MayValidate
  BY <1>2 DEF WorkerEnter, MayValidate, StoreTransition, TransitionStore, store
<1>3. CASE FindWorkspace \/ Checkout \/ Edit \/ Commit
  BY <1>1, <1>3 DEF FindWorkspace, Checkout, Edit, Commit, store
<1>4. CASE CreateBranch \/ OpenPullRequest
  BY <1>4 DEF CreateBranch, OpenPullRequest, store
<1>5. CASE RecordWorkspace \/ RecordBranch \/ Validate \/ RecordPullRequest \/ RecordResult
  BY <1>1, <1>5
     DEF RecordWorkspace, RecordBranch, Validate, RecordPullRequest, RecordResult, Persist, store
<1> QED BY <1>2, <1>3, <1>4, <1>5 DEF Worker

LEMMA FinalSteps == ASSUME Typed, Evidence, Unapplied, [Next]_vars PROVE FinalStep
<1> SUFFICES ASSUME NEW r \in Runners, reports[r] = "draft_pr_created"
             PROVE  /\ reports'[r] = "draft_pr_created"
                    /\ UNCHANGED <<artifacts, workspace, remote>>
  BY DEF FinalStep
<1>1. r \in Runner /\ r \in ReportOps
  BY DraftPrAssumption DEF ReportOps
<1>2. CASE Worker
  <2>1. /\ artifacts.workspace # None /\ artifacts.branch # None
        /\ artifacts.validation # None /\ artifacts.pull_request # None
        /\ artifacts.result # None
    BY <1>1, DraftPrAssumption DEF Evidence, CreatedIsBacked, Opened, ValidationStatus
  <2> QED BY <1>2, <2>1, NothingLeft
<1>3. CASE RecordReport
  BY <1>1, <1>3, DraftPrAssumption DEF RecordReport, Typed, StoreTyped
<1>4. CASE Gates
  BY <1>4, GateEffect DEF store
<1>5. CASE Crash \/ OperatorStop \/ UNCHANGED vars \/ (\E q \in Runners : Call(q))
  BY <1>5 DEF Crash, OperatorStop, Call, store, vars, workspace
<1>6. CASE OperatorTransition
  BY <1>6 DEF OperatorTransition, TransitionStore
<1> QED BY <1>2, <1>3, <1>4, <1>5, <1>6 DEF Next, RunStep

\* Once a draft pull request is reported nobody's run changes the work or that
\* report, whatever plan it brings and however often the operator reopens the job.
THEOREM DeliveredFinal == Spec => DeliveredIsFinal
<1>1. Init => Evidence
  BY InitEvidence
<1>2. Init => Unapplied
  BY DEF Init, Unapplied, Idle, BeforeRecord
<1>3. Spec => [](Typed /\ Evidence /\ Unapplied)
  BY <1>1, <1>2, InitTyped, TypedStep, EvidenceStep, UnappliedStep, PTL DEF Spec
<1>4. Typed /\ Evidence /\ Unapplied /\ [Next]_vars => [FinalStep]_vars
  BY FinalSteps
<1>5. Spec => [][FinalStep]_vars
  BY <1>3, <1>4, PTL DEF Spec
<1> QED BY <1>5 DEF FinalStep, DeliveredIsFinal

-----------------------------------------------------------------------------
(* The job keeps to the lifecycle contract.                                *)

\* What a step does to the store: nothing, or one record of it appears.
Transitions ==
  \E op \in TransitionOps, target \in JobState : TransitionStore(target, op)
Annotates ==
  \E name \in ArtifactNames :
    /\ UNCHANGED <<state, attempts, done, reports>>
    /\ artifacts[name] = None
    /\ artifacts'[name] # None
    /\ \A other \in ArtifactNames \ {name} : artifacts'[other] = artifacts[other]
Reports ==
  \E op \in ReportOps :
    /\ UNCHANGED <<state, attempts, done, artifacts>>
    /\ reports[op] = None
    /\ reports'[op] # None
    /\ \A other \in ReportOps \ {op} : reports'[other] = reports[other]

StoreStep == Transitions \/ Annotates \/ Reports \/ UNCHANGED store

LEMMA PersistStep ==
  ASSUME Typed, NEW name \in ArtifactNames, NEW payload, payload # None,
         Persist(name, payload)
  PROVE  StoreStep
<1>1. artifacts \in Artifact /\ UNCHANGED <<state, attempts, done, reports>>
  BY DEF Typed, StoreTyped, Persist
<1>2. CASE artifacts[name] = None
  BY <1>1, <1>2, PersistPersists DEF Persisted, StoreStep, Annotates
<1>3. CASE artifacts[name] # None
  BY <1>3 DEF Persist, StoreStep, store
<1> QED BY <1>2, <1>3

LEMMA StoreTransitionStep ==
  ASSUME NEW target \in JobState, NEW op \in TransitionOps, NEW next,
         StoreTransition(target, op, next)
  PROVE  StoreStep
BY DEF StoreTransition, StoreStep, Transitions

LEMMA WorkerStoreStep == ASSUME Typed, Worker PROVE StoreStep
<1>1. CASE WorkerEnter \/ MayValidate
  BY <1>1, StoreTransitionStep
     DEF WorkerEnter, MayValidate, StoreStep, TransitionOps, WorkerOps, JobState,
         TERMINAL_STATES
<1>2. CASE RecordWorkspace
  <2>1. run.plan # None
    BY <1>2, DraftPrAssumption DEF RecordWorkspace, At, Typed, RunTyped
  <2> QED BY <1>2, <2>1, PersistStep DEF RecordWorkspace, ArtifactNames
<1>3. CASE RecordBranch
  BY <1>3, PersistStep, DraftPrAssumption DEF RecordBranch, ArtifactNames
<1>4. CASE Validate
  <2>1. \A outcome \in Outcomes : outcome # None
    BY DraftPrAssumption
  <2> QED BY <1>4, <2>1, PersistStep DEF Validate, ArtifactNames, StoreStep
<1>5. CASE RecordPullRequest
  <2>1. run.answer # None
    BY <1>5, DraftPrAssumption DEF RecordPullRequest, At, Typed, RunTyped
  <2> QED BY <1>5, <2>1, PersistStep DEF RecordPullRequest, ArtifactNames
<1>6. CASE RecordResult
  BY <1>6, PersistStep, DraftPrAssumption DEF RecordResult, ArtifactNames
<1>7. CASE FindWorkspace \/ Checkout \/ Edit \/ Commit \/ CreateBranch \/ OpenPullRequest
  BY <1>7 DEF FindWorkspace, Checkout, Edit, Commit, CreateBranch, OpenPullRequest, StoreStep
<1> QED BY <1>1, <1>2, <1>3, <1>4, <1>5, <1>6, <1>7 DEF Worker

LEMMA StoreSteps == ASSUME Typed, [Next]_vars PROVE StoreStep
<1>1. CASE Gates
  BY <1>1, GateEffect DEF StoreStep
<1>2. CASE Worker
  BY <1>2, WorkerStoreStep
<1>3. CASE RecordReport
  <2> DEFINE op == ReportOp(run.runner, run.verdict)
  <2>1. op \in ReportOps /\ run.verdict # None
    BY <1>3, DraftPrAssumption DEF RecordReport, At, Typed, RunTyped, Status, ReportOp, ReportOps
  <2>2. /\ UNCHANGED <<state, attempts, done, artifacts>>
        /\ reports' = IF reports[op] # None THEN reports ELSE [reports EXCEPT ![op] = run.verdict]
        /\ reports \in [ReportOps -> Status \cup {None}]
    BY <1>3 DEF RecordReport, Typed, StoreTyped
  <2> HIDE DEF op
  <2>3. CASE reports[op] # None
    BY <2>2, <2>3 DEF StoreStep, store
  <2>4. CASE reports[op] = None
    BY <2>1, <2>2, <2>4 DEF StoreStep, Reports
  <2> QED BY <2>3, <2>4
<1>4. CASE OperatorTransition
  BY <1>4, DraftPrAssumption DEF OperatorTransition, StoreStep, Transitions, TransitionOps
<1>5. CASE \/ \E r \in Runners : Call(r)
           \/ Crash \/ OperatorStop \/ UNCHANGED vars
  BY <1>5 DEF Call, Crash, OperatorStop, vars, store, StoreStep
<1> QED BY <1>1, <1>2, <1>3, <1>4, <1>5 DEF Next, RunStep

\* Both modules extend the same contract.
LEMMA SameContract ==
  /\ Lifecycle!JobState = JobState
  /\ Lifecycle!ALLOWED_TRANSITIONS = ALLOWED_TRANSITIONS
BY DEF Lifecycle!JobState, JobState, Lifecycle!TERMINAL_STATES, TERMINAL_STATES,
       Lifecycle!ALLOWED_TRANSITIONS, ALLOWED_TRANSITIONS, Lifecycle!Exits, Exits

\* An operation is a kind and an identifier of that kind, and what it recorded
\* is in the field of the store that its kind names.
LEMMA ResultsAre ==
  ASSUME NEW x \in LifecycleOps
  PROVE  \/ \E op \in TransitionOps :
              /\ x = <<"transition", op>>
              /\ ResultOf(x[1], x[2]) = done \cap {op}
              /\ ResultOf(x[1], x[2])' = done' \cap {op}
         \/ \E op \in ArtifactNames :
              /\ x = <<"artifact", op>>
              /\ ResultOf(x[1], x[2]) = {artifacts[op]} \ {None}
              /\ ResultOf(x[1], x[2])' = {artifacts'[op]} \ {None}
         \/ \E op \in ReportOps :
              /\ x = <<"report", op>>
              /\ ResultOf(x[1], x[2]) = {reports[op]} \ {None}
              /\ ResultOf(x[1], x[2])' = {reports'[op]} \ {None}
<1>1. CASE \E op \in TransitionOps : x = <<"transition", op>>
  BY <1>1 DEF ResultOf
<1>2. CASE \E op \in ArtifactNames : x = <<"artifact", op>>
  BY <1>2 DEF ResultOf
<1>3. CASE \E op \in ReportOps : x = <<"report", op>>
  BY <1>3 DEF ResultOf
<1> QED BY <1>1, <1>2, <1>3 DEF LifecycleOps

LEMMA StepRefines ==
  ASSUME Typed, StoreStep
  PROVE  [Lifecycle!LifecycleNext]_(Lifecycle!lifecycleVars)
<1> DEFINE Now == [x \in LifecycleOps |-> ResultOf(x[1], x[2])]
           Then == [x \in LifecycleOps |-> ResultOf(x[1], x[2])']
           Only(one) == /\ one \in LifecycleOps /\ Now[one] = {} /\ Then[one] # {}
                        /\ \A x \in LifecycleOps \ {one} : Then[x] = Now[x]
<1>1. state # "absent" /\ state \in JobState
  BY DEF Typed, StoreTyped, JobState, TERMINAL_STATES
<1>2. ASSUME NEW one, Only(one), UNCHANGED <<state, attempts>>
      PROVE  Lifecycle!LifecycleNext
  <2>1. Lifecycle!Annotate(one)
    BY <1>1, <1>2 DEF Lifecycle!Annotate, Lifecycle!Fresh, Lifecycle!Consume
  <2> QED BY <1>2, <2>1 DEF Lifecycle!LifecycleNext
<1>3. CASE Transitions
  <2>1. PICK op \in TransitionOps, target \in JobState : TransitionStore(target, op)
    BY <1>3 DEF Transitions
  <2> DEFINE one == <<"transition", op>>
  <2>2. one \in LifecycleOps
    BY <2>1 DEF LifecycleOps
  <2>3. Only(one)
    <3>1. Now[one] = {} /\ Then[one] # {}
      BY <2>1, <2>2, ResultsAre DEF TransitionStore, Recorded
    <3>2. ASSUME NEW x \in LifecycleOps, x # one
          PROVE  Then[x] = Now[x]
      BY <2>1, <3>2, ResultsAre DEF TransitionStore, Recorded
    <3> QED BY <2>2, <3>1, <3>2
  <2>4. Lifecycle!Move(one)
    BY <1>1, <2>1, <2>3, SameContract
       DEF Lifecycle!Move, Lifecycle!Fresh, Lifecycle!Consume, TransitionStore
  <2> QED BY <2>2, <2>4 DEF Lifecycle!LifecycleNext
<1>4. CASE Annotates
  <2>1. PICK name \in ArtifactNames :
          /\ UNCHANGED <<state, attempts, done, reports>>
          /\ artifacts[name] = None /\ artifacts'[name] # None
          /\ \A other \in ArtifactNames \ {name} : artifacts'[other] = artifacts[other]
    BY <1>4 DEF Annotates
  <2> DEFINE one == <<"artifact", name>>
  <2>2. one \in LifecycleOps
    BY <2>1 DEF LifecycleOps
  <2>3. Only(one)
    <3>1. Now[one] = {} /\ Then[one] # {}
      BY <2>1, <2>2, ResultsAre
    <3>2. ASSUME NEW x \in LifecycleOps, x # one
          PROVE  Then[x] = Now[x]
      BY <2>1, <3>2, ResultsAre
    <3> QED BY <2>2, <3>1, <3>2
  <2> QED BY <1>2, <2>1, <2>3
<1>5. CASE Reports
  <2>1. PICK op \in ReportOps :
          /\ UNCHANGED <<state, attempts, done, artifacts>>
          /\ reports[op] = None /\ reports'[op] # None
          /\ \A other \in ReportOps \ {op} : reports'[other] = reports[other]
    BY <1>5 DEF Reports
  <2> DEFINE one == <<"report", op>>
  <2>2. one \in LifecycleOps
    BY <2>1 DEF LifecycleOps
  <2>3. Only(one)
    <3>1. Now[one] = {} /\ Then[one] # {}
      BY <2>1, <2>2, ResultsAre
    <3>2. ASSUME NEW x \in LifecycleOps, x # one
          PROVE  Then[x] = Now[x]
      BY <2>1, <3>2, ResultsAre
    <3> QED BY <2>2, <3>1, <3>2
  <2> QED BY <1>2, <2>1, <2>3
<1>6. CASE UNCHANGED store
  <2>1. \A x \in LifecycleOps : Then[x] = Now[x]
    BY <1>6, ResultsAre DEF store
  <2>2. Then = Now
    BY <2>1
  <2> QED BY <1>6, <2>2 DEF store, Lifecycle!lifecycleVars
<1> QED BY <1>3, <1>4, <1>5, <1>6 DEF StoreStep

\* Whichever runners follow each other, with whatever plans, crashes, lost
\* answers and operators, the job moves along the lifecycle contract and keeps
\* what was recorded first.
THEOREM DraftImplements == Spec => ImplementsLifecycle
<1>1. Init => Lifecycle!LifecycleInit
  <2> SUFFICES ASSUME Init PROVE Lifecycle!LifecycleInit
    OBVIOUS
  <2>1. \A x \in LifecycleOps : ResultOf(x[1], x[2]) = {}
    BY ResultsAre DEF Init, ArtifactNames
  <2> QED BY <2>1 DEF Init, Lifecycle!LifecycleInit
<1>2. Typed /\ [Next]_vars => [Lifecycle!LifecycleNext]_(Lifecycle!lifecycleVars)
  BY StoreSteps, StepRefines
<1> QED BY <1>1, <1>2, InitTyped, TypedStep, PTL
        DEF Spec, ImplementsLifecycle, Lifecycle!LifecycleSpec

-----------------------------------------------------------------------------
(* One run validates.                                                      *)

\* The points of the Worker before and after the transition to validating.
Finishing == {"validation", "pull-request", "record-pull-request", "result"}
Preparing == WorkerPoints \ ({"worker"} \cup Finishing)

\* The inductive strengthening: the state of a job left alone, the transitions on
\* record and the point of the run agree.
Ahead ==
  done \cap CliOps = {} =>
    /\ "validate" \in done => state = "validating" /\ run.at \notin Preparing
    /\ "validate" \notin done => state \in {"claimed", "executing"} /\ run.at \notin Finishing
    /\ "execute" \in done => state # "claimed"
    /\ run.at \in Preparing => state = "executing"

\* A step that changes no transition keeps a run on its side of the validation.
LEMMA AheadMoves ==
  ASSUME Ahead, UNCHANGED <<state, done>>,
         run'.at \in Preparing => run.at \in Preparing,
         run'.at \in Finishing => run.at \in Finishing
  PROVE  Ahead'
BY DEF Ahead

LEMMA AheadWorker == ASSUME Typed, Ahead, Worker PROVE Ahead'
<1>1. run \in Run
  BY DEF Typed, RunTyped
<1> USE DEF Preparing, Finishing, WorkerPoints
<1>2. CASE WorkerEnter
  <2>1. CASE Fail /\ UNCHANGED store
    <3>1. run'.at = "conclude" /\ UNCHANGED <<state, done>>
      BY <1>1, <2>1, FailEnds DEF Ends, store
    <3> QED BY <3>1, AheadMoves
  <2>2. CASE state = "claimed" /\ TransitionStore("executing", "execute") /\ Goto("workspace")
    <3>1. /\ run'.at = "workspace" /\ state' = "executing" /\ done' = done \cup {"execute"}
          /\ state = "claimed"
      BY <1>1, <2>2, GotoGoes DEF Goes, Points, TransitionStore
    <3> QED BY <3>1 DEF Ahead
  <2>3. CASE state = "claimed" /\ Recorded("execute") /\ Goto("workspace") /\ UNCHANGED store
    <3>1. state = "claimed" /\ "execute" \in done /\ UNCHANGED <<state, done>>
      BY <2>3 DEF Recorded, store
    <3> QED BY <3>1 DEF Ahead
  <2>4. CASE state = "executing" /\ Goto("workspace") /\ UNCHANGED store
    <3>1. run'.at = "workspace" /\ state = "executing" /\ UNCHANGED <<state, done>>
      BY <1>1, <2>4, GotoGoes DEF Goes, Points, store
    <3> QED BY <3>1 DEF Ahead
  <2> QED BY <1>2, <2>1, <2>2, <2>3, <2>4 DEF WorkerEnter, StoreTransition, Owned
<1>3. CASE MayValidate
  <2>1. CASE TransitionStore("validating", "validate") /\ Goto("validation")
    <3>1. /\ run'.at = "validation" /\ state' = "validating" /\ done' = done \cup {"validate"}
      BY <1>1, <2>1, GotoGoes DEF Goes, Points, TransitionStore
    <3> QED BY <3>1 DEF Ahead
  <2>2. CASE UNCHANGED store /\ (Goto("validation") \/ Fail)
    <3>1. UNCHANGED <<state, done>> /\ run.at = "may-validate"
      BY <1>3, <2>2 DEF MayValidate, At, store
    <3>2. run'.at \in {"validation", "conclude"}
      BY <1>1, <2>2, GotoGoes, FailEnds DEF Goes, Ends, Points
    <3>3. done \cap CliOps = {} => run'.at = "conclude"
      <4>1. ASSUME done \cap CliOps = {}
            PROVE  state = "executing" /\ "validate" \notin done
        BY <3>1, <4>1 DEF Ahead
      <4>2. "validating" \in ALLOWED_TRANSITIONS["executing"]
        BY DEF ALLOWED_TRANSITIONS, JobState
      <4>3. ASSUME done \cap CliOps = {}
            PROVE  Fail
        BY <1>3, <2>2, <4>1, <4>2, <4>3
           DEF MayValidate, StoreTransition, TransitionStore, Recorded, store
      <4> QED BY <1>1, <4>3, FailEnds DEF Ends
    <3> QED BY <3>1, <3>2, <3>3 DEF Ahead
  <2> QED BY <1>3, <2>1, <2>2 DEF MayValidate, StoreTransition
<1>4. CASE OpenPullRequest
  <2>1. UNCHANGED <<state, done>> /\ run.at = "pull-request"
    BY <1>4 DEF OpenPullRequest, At, store
  <2>2. run'.at \in Finishing \cup {"conclude"}
    <3>1. CASE Fail
      BY <1>1, <3>1, FailEnds DEF Ends
    <3>2. CASE \E answer \in {"numbered", "unnumbered"} :
                 run' = [run EXCEPT !.at = "record-pull-request", !.answer = answer]
      BY <1>1, <3>2 DEF Run
    <3>3. CASE run' = [run EXCEPT !.at = "result", !.answer = artifacts.pull_request]
      BY <1>1, <3>3 DEF Run
    <3> QED BY <1>4, <3>1, <3>2, <3>3, DraftPrAssumption DEF OpenPullRequest, Answer
  <2> QED BY <2>1, <2>2, AheadMoves
<1>5. CASE Validate \/ RecordPullRequest \/ RecordResult
  <2>1. UNCHANGED <<state, done>>
    BY <1>5 DEF Validate, RecordPullRequest, RecordResult, Persist, store
  <2>2. run.at \in Finishing
    BY <1>5 DEF Validate, RecordPullRequest, RecordResult, At
  <2>3. run'.at \in Finishing \cup {"conclude"}
    BY <1>1, <1>5, GotoGoes, FailEnds, ConcludeEnds
       DEF Validate, RecordPullRequest, RecordResult, Goes, Ends, Points, Status
  <2> QED BY <2>1, <2>2, <2>3, AheadMoves
<1>6. CASE \/ FindWorkspace \/ Checkout \/ Edit \/ Commit \/ RecordWorkspace
           \/ CreateBranch \/ RecordBranch
  <2>1. UNCHANGED <<state, done>>
    BY <1>6 DEF FindWorkspace, Checkout, Edit, Commit, RecordWorkspace, CreateBranch,
                RecordBranch, Persist, store
  <2>2. run.at \in Preparing
    BY <1>6 DEF FindWorkspace, Checkout, Edit, Commit, RecordWorkspace, CreateBranch,
                RecordBranch, At
  <2>3. Fail \/ \E p \in Preparing : Goto(p)
    BY <1>6, DraftPrAssumption
       DEF FindWorkspace, Checkout, Edit, Commit, RecordWorkspace, CreateBranch,
           RecordBranch, Answer
  <2>4. run'.at \in Preparing \cup {"conclude"}
    BY <1>1, <2>3, GotoGoes, FailEnds DEF Goes, Ends, Points
  <2> QED BY <2>1, <2>2, <2>4, AheadMoves
<1> QED BY <1>2, <1>3, <1>4, <1>5, <1>6 DEF Worker

\* The steps outside the Worker, all but the operator's transitions.
Aside ==
  Gates \/ RecordReport \/ Crash \/ OperatorStop \/ (\E r \in Runners : Call(r))

LEMMA AsideEffect ==
  ASSUME Typed, Aside
  PROVE  /\ UNCHANGED <<state, done, artifacts, workspace, remote>>
         /\ \/ run' = run
            \/ run'.at \in {"idle", "check", "conclude", "worker"}
<1>1. CASE Gates
  BY <1>1, GateEffect DEF store, Passes, Left, Ends
<1>2. CASE RecordReport \/ Crash
  BY <1>2, LeaveLeft DEF RecordReport, Crash, Left, store
<1>3. CASE OperatorStop
  BY <1>3 DEF OperatorStop, store
<1>4. ASSUME NEW r \in Runners, Call(r)
      PROVE  /\ UNCHANGED <<state, done, artifacts, workspace, remote>>
             /\ run'.at = "check"
  BY <1>4 DEF Call, Idle, store
<1> QED BY <1>1, <1>2, <1>3, <1>4 DEF Aside

LEMMA OperatorShows == ASSUME OperatorTransition PROVE done' \cap CliOps # {}
BY DEF OperatorTransition, TransitionStore

LEMMA AheadStep == ASSUME Typed, Ahead, [Next]_vars PROVE Ahead'
<1>1. CASE Worker
  BY <1>1, AheadWorker
<1>2. CASE Aside
  BY <1>2, AsideEffect, AheadMoves DEF Preparing, Finishing, WorkerPoints
<1>3. CASE OperatorTransition
  BY <1>3, OperatorShows DEF Ahead
<1>4. CASE UNCHANGED vars
  BY <1>4 DEF vars, Ahead
<1> QED BY <1>1, <1>2, <1>3, <1>4 DEF Next, RunStep, Aside

SpentStep ==
  done' \cap CliOps = {} /\ Spent =>
    Spent' /\ UNCHANGED <<artifacts, workspace, remote>>

LEMMA SpentSteps == ASSUME Typed, Ahead, [Next]_vars PROVE SpentStep
<1> SUFFICES ASSUME done' \cap CliOps = {}, Spent
             PROVE  Spent' /\ UNCHANGED <<artifacts, workspace, remote>>
  BY DEF SpentStep
<1>1. CASE Worker
  <2>1. done \cap CliOps = {}
    <3>1. done \subseteq done'
      BY <1>1, WorkerStoreStep
         DEF StoreStep, Transitions, TransitionStore, Annotates, Reports, store
    <3> QED BY <3>1
  <2>2. state = "validating" /\ run.at = "worker"
    BY <1>1, <2>1, WorkerEffect DEF Spent, Ahead, Preparing, Finishing
  <2>3. WorkerEnter
    BY <1>1, <2>2
       DEF Worker, FindWorkspace, Checkout, Edit, Commit, RecordWorkspace, CreateBranch,
           RecordBranch, MayValidate, Validate, OpenPullRequest, RecordPullRequest,
           RecordResult, At
  <2>4. Fail /\ UNCHANGED <<store, workspace, remote>>
    BY <2>2, <2>3 DEF WorkerEnter, Owned
  <2> QED BY <2>4, FailEnds DEF Typed, RunTyped, Ends, Spent, store
<1>2. CASE Aside
  BY <1>2, AsideEffect DEF Spent
<1>3. CASE OperatorTransition
  BY <1>3, OperatorShows
<1>4. CASE UNCHANGED vars
  BY <1>4 DEF vars, workspace, Spent
<1> QED BY <1>1, <1>2, <1>3, <1>4 DEF Next, RunStep, Aside

\* A job that was taken to validating by a run that is over is finished with, as
\* far as it got.
THEOREM SpentStaysSpent == Spec => SpentForGood
<1>1. Init => Ahead
  BY DEF Init, Ahead, Idle, Preparing, Finishing, WorkerPoints
<1>2. Spec => [](Typed /\ Ahead)
  BY <1>1, InitTyped, TypedStep, AheadStep, PTL DEF Spec
<1>3. Typed /\ Ahead /\ [Next]_vars => [SpentStep]_vars
  BY SpentSteps
<1>4. Spec => [][SpentStep]_vars
  BY <1>2, <1>3, PTL DEF Spec
<1> QED BY <1>4 DEF SpentStep, SpentForGood
-----------------------------------------------------------------------------
(* What follows from the lifecycle contract.                               *)

Contract ==
  INSTANCE JobLifecycleProofs WITH
    Operations <- LifecycleOps,
    results <- [x \in LifecycleOps |-> ResultOf(x[1], x[2])]

LEMMA SpecMeetsContract == Spec => Contract!LifecycleSpec
  <1>1. Lifecycle!LifecycleInit => Contract!LifecycleInit
    BY DEF Lifecycle!LifecycleInit, Contract!LifecycleInit
  <1>2. [Lifecycle!LifecycleNext]_(Lifecycle!lifecycleVars) =>
          [Contract!LifecycleNext]_(Contract!lifecycleVars)
    BY DEF Lifecycle!LifecycleNext, Contract!LifecycleNext,
           Lifecycle!lifecycleVars, Contract!lifecycleVars,
           Lifecycle!Create, Contract!Create, Lifecycle!Move, Contract!Move,
           Lifecycle!Annotate, Contract!Annotate, Lifecycle!Consume, Contract!Consume,
           Lifecycle!Fresh, Contract!Fresh,
           Lifecycle!ALLOWED_TRANSITIONS, Contract!ALLOWED_TRANSITIONS,
           Lifecycle!JobState, Contract!JobState, Lifecycle!Exits, Contract!Exits,
           Lifecycle!TERMINAL_STATES, Contract!TERMINAL_STATES
  <1>. QED
    BY <1>1, <1>2, DraftImplements, PTL
    DEF ImplementsLifecycle, Lifecycle!LifecycleSpec, Contract!LifecycleSpec

\* Whatever crashes and whatever the operator does, the lifecycle of the job never runs
\* backwards: a terminal state is final, and so is what each operation recorded.
THEOREM JobNeverBack == Spec => [][Contract!OneWay]_(Contract!lifecycleVars)
  BY SpecMeetsContract, Contract!NeverBack

\* The job is not merged, not even validated, without having been executed.
THEOREM JobExecutedFirst == Spec => []Contract!Executed
  BY SpecMeetsContract, Contract!ExecutedFirst
=============================================================================
