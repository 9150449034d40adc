---------------------------- MODULE SupervisedProofs ----------------------------
(***************************************************************************)
(* Theorems about SupervisedActivation and the production loop it starts,  *)
(* for any number of processes, issues, pushes and fixes.                  *)
(***************************************************************************)
EXTENDS SupervisedActivation, TLAPS

\* A run has an issue in hand.
InHand(r) == r.at \in {"check-start", "start", "check-review", "review", "check-merge",
                       "merge", "fix", "quarantine"}

\* What is known of a run at its points.
Sound(r) ==
  /\ InHand(r) => r.issue \in Issues
  /\ r.at = "take" => r.begun < MaxIssues
  /\ r.at = "fix" => r.fixes < MaxFix /\ r.late <= 1
  /\ r.at \in {"start", "review", "merge"} => r.late = 0

Typed ==
  /\ TypeOK
  /\ \A p \in Procs : Sound(loop[p]) /\ (~stop => loop[p].late = 0)

LEMMA IdleTyped == Idle \in Run /\ Sound(Idle) /\ Idle.late = 0
  BY ProductionLoopAssumption DEF Idle, Run, Points, Pushes, Sound, InHand

LEMMA BecomesSets ==
  ASSUME Typed, NEW p \in Procs, NEW r, Becomes(p, r)
  PROVE  loop'[p] = r /\ \A q \in Procs \ {p} : loop'[q] = loop[q]
  BY DEF Becomes, Typed, TypeOK, LoopTypeOK

\* A step that sets the run of one process keeps the runs well-formed.
LEMMA BecomesTyped ==
  ASSUME Typed, NEW p \in Procs, NEW r \in Run, Becomes(p, r), Sound(r),
         ~stop => r.late = 0, stop' = stop
  PROVE  /\ loop' \in [Procs -> Run]
         /\ \A q \in Procs : Sound(loop'[q]) /\ (~stop' => loop'[q].late = 0)
  <1>1. loop' \in [Procs -> Run]
    BY DEF Becomes, Typed, TypeOK, LoopTypeOK
  <1>. QED
    BY <1>1, BecomesSets DEF Typed

RunsTyped ==
  /\ loop' \in [Procs -> Run]
  /\ \A q \in Procs : Sound(loop'[q]) /\ (~stop' => loop'[q].late = 0)

LEMMA GotoTyped ==
  ASSUME Typed, NEW p \in Procs, NEW point \in Points, Goto(p, point), stop' = stop,
         Sound([loop[p] EXCEPT !.at = point])
  PROVE  RunsTyped
  <1> DEFINE r == [loop[p] EXCEPT !.at = point]
  <1>1. loop[p] \in Run /\ (~stop => loop[p].late = 0)
    BY DEF Typed, TypeOK, LoopTypeOK
  <1>2. r \in Run /\ r.late = loop[p].late
    BY <1>1 DEF Run
  <1>3. Becomes(p, r) /\ Sound(r)
    BY DEF Goto
  <1> HIDE DEF r
  <1>. QED
    BY <1>1, <1>2, <1>3, BecomesTyped DEF RunsTyped

LEMMA SettleTyped ==
  ASSUME Typed, NEW p \in Procs, Settle(p), stop' = stop
  PROVE  RunsTyped
  <1> DEFINE r == [loop[p] EXCEPT !.at = "top", !.issue = None, !.head = 0, !.fixes = 0]
  <1>1. loop[p] \in Run /\ (~stop => loop[p].late = 0)
    BY DEF Typed, TypeOK, LoopTypeOK
  <1>2. 0 \in Pushes /\ 0 \in 0 .. MaxFix /\ "top" \in Points
    BY ProductionLoopAssumption DEF Pushes, Points
  <1>3. r \in Run /\ r.late = loop[p].late /\ r.at = "top"
    BY <1>1, <1>2 DEF Run
  <1>4. Becomes(p, r)
    BY DEF Settle
  <1> HIDE DEF r
  <1>5. Sound(r)
    BY <1>3 DEF Sound, InHand
  <1>. QED
    BY <1>1, <1>3, <1>4, <1>5, BecomesTyped DEF RunsTyped

LEMMA ReturnTyped ==
  ASSUME Typed, NEW p \in Procs, Return(p), stop' = stop
  PROVE  RunsTyped
  <1> DEFINE r == [Idle EXCEPT !.at = "done"]
  <1>1. r \in Run /\ r.late = 0 /\ r.at = "done"
    BY IdleTyped DEF Run, Points
  <1>2. Becomes(p, r)
    BY DEF Return
  <1> HIDE DEF r
  <1>3. Sound(r)
    BY <1>1 DEF Sound, InHand
  <1>. QED
    BY <1>1, <1>2, <1>3, BecomesTyped DEF RunsTyped

LEMMA BeginTyped ==
  ASSUME Typed, NEW p \in Procs, NEW issues \in SUBSET Issues, Begin(p, issues), stop' = stop
  PROVE  RunsTyped
  <1> DEFINE r == [Idle EXCEPT !.at = "top", !.scope = issues]
  <1>1. r \in Run /\ r.late = 0 /\ r.at = "top"
    BY IdleTyped DEF Run, Points
  <1>2. Becomes(p, r)
    BY DEF Begin
  <1> HIDE DEF r
  <1>3. Sound(r)
    BY <1>1 DEF Sound, InHand
  <1>. QED
    BY <1>1, <1>2, <1>3, BecomesTyped DEF RunsTyped

LEMMA LateTyped ==
  ASSUME Typed, NEW p \in Procs
  PROVE  /\ loop[p].late = 0 => Late(p) \in 0 .. 1
         /\ loop[p].late <= 1 => Late(p) \in 0 .. 2
         /\ ~stop => Late(p) = 0
  BY DEF Typed, TypeOK, LoopTypeOK, Late, Run

\* The head of an open pull request, and the heads of a fix, are heads.
LEMMA HeadsTyped ==
  ASSUME Typed, NEW i \in Issues
  PROVE  head[i] \in Pushes /\ Opened(i) \in Pushes /\ Fixed(i) \subseteq Pushes
  BY ProductionLoopAssumption DEF Typed, TypeOK, LoopTypeOK, Opened, Fixed, Pushes

\* Where a run is after it settled, returned or went to a point.
LEMMA MovesTo ==
  ASSUME Typed, NEW p \in Procs
  PROVE  /\ Settle(p) => \E r : Becomes(p, r) /\ r.at = "top"
         /\ Return(p) => \E r : Becomes(p, r) /\ r.at = "done"
         /\ \A point : Goto(p, point) =>
              \E r : /\ Becomes(p, r)
                     /\ r.at = point /\ r.issue = loop[p].issue /\ r.head = loop[p].head
  <1>1. loop[p] \in Run
    BY DEF Typed, TypeOK, LoopTypeOK
  <1>2. ASSUME Settle(p)
        PROVE  \E r : Becomes(p, r) /\ r.at = "top"
    <2> DEFINE r == [loop[p] EXCEPT !.at = "top", !.issue = None, !.head = 0, !.fixes = 0]
    <2>1. Becomes(p, r)
      BY <1>2 DEF Settle
    <2>2. r.at = "top"
      BY <1>1 DEF Run
    <2> HIDE DEF r
    <2>. QED
      BY <2>1, <2>2
  <1>3. Return(p) => \E r : Becomes(p, r) /\ r.at = "done"
    BY DEF Return, Idle
  <1>4. ASSUME NEW point, Goto(p, point)
        PROVE  \E r : /\ Becomes(p, r)
                      /\ r.at = point /\ r.issue = loop[p].issue /\ r.head = loop[p].head
    <2> DEFINE r == [loop[p] EXCEPT !.at = point]
    <2>1. Becomes(p, r)
      BY <1>4 DEF Goto
    <2>2. r.at = point /\ r.issue = loop[p].issue /\ r.head = loop[p].head
      BY <1>1 DEF Run
    <2> HIDE DEF r
    <2>. QED
      BY <2>1, <2>2
  <1>. QED
    BY <1>2, <1>3, <1>4

LEMMA StepTypedRuns ==
  ASSUME Typed, NEW p \in Procs, Step(p)
  PROVE  RunsTyped
  <1>1. loop[p] \in Run /\ Sound(loop[p]) /\ (~stop => loop[p].late = 0)
    BY DEF Typed, TypeOK, LoopTypeOK
  <1>2. stop' = stop
    BY DEF Step, Proceed, Top, Take, TakeNone, CheckStart, Start, CheckReview, Review, CheckMerge,
           Merge, Fix, Quarantine, StartRaises, FixRaises, MergeRaises, Raises
  <1>3. CASE Top(p)
    <2>1. loop[p].begun < MaxIssues => Sound([loop[p] EXCEPT !.at = "take"])
      BY <1>1 DEF Sound, InHand, Run
    <2>. QED
      BY <1>2, <1>3, <2>1, GotoTyped, ReturnTyped DEF Top, Points
  <1>4. CASE Take(p)
    <2>1. PICK i \in ready \cap loop[p].scope :
            Becomes(p, [loop[p] EXCEPT !.at = "check-start", !.issue = i, !.begun = @ + 1])
      BY <1>4 DEF Take
    <2> DEFINE r == [loop[p] EXCEPT !.at = "check-start", !.issue = i, !.begun = @ + 1]
    <2>2. /\ i \in Issues /\ loop[p].begun + 1 \in 0 .. MaxIssues
          /\ "check-start" \in Points
      BY <1>1, <1>4, ProductionLoopAssumption DEF Typed, TypeOK, LoopTypeOK, Take, At, Sound, Run, Points
    <2>3. r \in Run /\ r.late = loop[p].late /\ r.issue = i /\ r.at = "check-start"
      BY <1>1, <2>2 DEF Run
    <2>4. Becomes(p, r)
      BY <2>1
    <2> HIDE DEF r
    <2>5. Sound(r)
      BY <2>2, <2>3 DEF Sound
    <2>. QED
      BY <1>1, <1>2, <2>3, <2>4, <2>5, BecomesTyped DEF RunsTyped
  <1>5. CASE TakeNone(p)
    BY <1>2, <1>5, ReturnTyped DEF TakeNone
  <1>6. CASE CheckStart(p) \/ CheckReview(p) \/ CheckMerge(p)
    <2>1. /\ InHand(loop[p])
          /\ stop => Settle(p)
          /\ ~stop => \E point \in {"start", "review", "merge"} : Goto(p, point)
      BY <1>6 DEF CheckStart, CheckReview, CheckMerge, At, InHand
    <2>2. \A point \in {"start", "review", "merge"} :
            ~stop => Sound([loop[p] EXCEPT !.at = point])
      BY <1>1, <2>1 DEF Sound, InHand, Run
    <2>. QED
      BY <1>2, <2>1, <2>2, SettleTyped, GotoTyped DEF Points
  <1>7. CASE Start(p)
    <2> DEFINE i == loop[p].issue
               r == [loop[p] EXCEPT !.at = "check-review", !.head = Opened(i), !.late = Late(p)]
    <2>1. i \in Issues /\ loop[p].late = 0
      BY <1>1, <1>7 DEF Start, At, Sound, InHand
    <2>2. Opened(i) \in Pushes /\ Late(p) \in 0 .. 1 /\ (~stop => Late(p) = 0)
      BY <2>1, HeadsTyped, LateTyped
    <2>3. Becomes(p, r)
      BY <1>7 DEF Start
    <2> HIDE DEF i
    <2>4. Late(p) \in 0 .. 2 /\ "check-review" \in Points
      BY <2>2 DEF Points
    <2>5. r \in Run /\ r.late = Late(p) /\ r.at = "check-review" /\ r.issue = loop[p].issue
      BY <1>1, <2>2, <2>4 DEF Run
    <2>6. Sound(r)
      BY <2>1, <2>5 DEF Sound, i
    <2> HIDE DEF r
    <2>. QED
      BY <1>2, <2>2, <2>3, <2>5, <2>6, BecomesTyped DEF RunsTyped
  <1>8. CASE StartRaises(p)
    <2> DEFINE r == [loop[p] EXCEPT !.at = "quarantine", !.late = Late(p)]
    <2>1. loop[p].issue \in Issues /\ loop[p].late = 0
      BY <1>1, <1>8 DEF StartRaises, At, Sound, InHand
    <2>2. Late(p) \in 0 .. 2 /\ (~stop => Late(p) = 0) /\ "quarantine" \in Points
      BY <2>1, LateTyped DEF Points
    <2>3. Becomes(p, r)
      BY <1>8 DEF StartRaises
    <2>4. r \in Run /\ r.late = Late(p) /\ r.at = "quarantine" /\ r.issue = loop[p].issue
      BY <1>1, <2>2 DEF Run
    <2> HIDE DEF r
    <2>5. Sound(r)
      BY <2>1, <2>4 DEF Sound
    <2>. QED
      BY <1>2, <2>2, <2>3, <2>4, <2>5, BecomesTyped DEF RunsTyped
  <1>9. CASE Review(p)
    <2>1. loop[p].issue \in Issues /\ loop[p].late = 0
      BY <1>1, <1>9 DEF Review, At, Sound, InHand
    <2>2. PICK reviewed, approves, findings \in {loop[p].head, head[loop[p].issue]} \cup BOOLEAN :
            Becomes(p, [loop[p] EXCEPT !.at = AfterReview(p, reviewed, approves, findings),
                                       !.late = Late(p)])
      BY <1>9 DEF Review
    <2> DEFINE point == AfterReview(p, reviewed, approves, findings)
               r == [loop[p] EXCEPT !.at = point, !.late = Late(p)]
    <2>3. /\ point \in {"quarantine", "check-merge", "fix"}
          /\ point = "fix" => ~(loop[p].fixes >= MaxFix)
      BY DEF AfterReview
    <2>4. Late(p) \in 0 .. 1 /\ Late(p) \in 0 .. 2 /\ (~stop => Late(p) = 0)
      BY <2>1, LateTyped
    <2>5. Becomes(p, r)
      BY <2>2
    <2>6. point = "fix" => loop[p].fixes < MaxFix
      BY <1>1, <2>3, ProductionLoopAssumption DEF Run
    <2> HIDE DEF point
    <2>7. /\ r \in Run /\ r.late = Late(p) /\ r.at = point
          /\ r.issue = loop[p].issue /\ r.fixes = loop[p].fixes
      BY <1>1, <2>3, <2>4 DEF Run, Points
    <2> HIDE DEF r
    <2>8. Sound(r)
      BY <2>1, <2>3, <2>4, <2>6, <2>7 DEF Sound
    <2>. QED
      BY <1>2, <2>4, <2>5, <2>7, <2>8, BecomesTyped DEF RunsTyped
  <1>10. CASE Merge(p) \/ Quarantine(p)
    BY <1>2, <1>10, SettleTyped DEF Merge, Quarantine
  <1>11. CASE Fix(p)
    <2>1. loop[p].issue \in Issues /\ loop[p].late <= 1 /\ loop[p].fixes < MaxFix
      BY <1>1, <1>11 DEF Fix, At, Sound, InHand
    <2>2. PICK h \in Fixed(loop[p].issue) :
            Becomes(p, [loop[p] EXCEPT !.at = "check-review", !.head = h,
                                       !.fixes = @ + 1, !.late = Late(p)])
      BY <1>11 DEF Fix
    <2> DEFINE r == [loop[p] EXCEPT !.at = "check-review", !.head = h,
                                    !.fixes = @ + 1, !.late = Late(p)]
    <2>3. h \in Pushes
      BY <2>1, HeadsTyped
    <2>4. Late(p) \in 0 .. 2 /\ (~stop => Late(p) = 0)
      BY <2>1, LateTyped
    <2>5. loop[p].fixes + 1 \in 0 .. MaxFix /\ "check-review" \in Points
      BY <1>1, <2>1, ProductionLoopAssumption DEF Run, Points
    <2>6. Becomes(p, r)
      BY <2>2
    <2>7. r \in Run /\ r.late = Late(p) /\ r.at = "check-review" /\ r.issue = loop[p].issue
      BY <1>1, <2>3, <2>4, <2>5 DEF Run
    <2> HIDE DEF r
    <2>8. Sound(r)
      BY <2>1, <2>7 DEF Sound
    <2>. QED
      BY <1>2, <2>4, <2>6, <2>7, <2>8, BecomesTyped DEF RunsTyped
  <1>12. CASE FixRaises(p) \/ MergeRaises(p) \/ Raises(p)
    BY <1>2, <1>12, ReturnTyped DEF FixRaises, MergeRaises, Raises
  <1>. QED
    BY <1>3, <1>4, <1>5, <1>6, <1>7, <1>8, <1>9, <1>10, <1>11, <1>12 DEF Step, Proceed

\* What a step of a run does to the queue and to the pull requests.
LEMMA StepTypedWorld ==
  ASSUME Typed, NEW p \in Procs, Step(p)
  PROVE  /\ ready' \subseteq Issues /\ quarantined' \subseteq Issues
         /\ head' \in [Issues -> Pushes] /\ merged' \in [Issues -> Pushes]
         /\ approved' \subseteq Issues \X Pushes
         /\ stop' \in BOOLEAN
  <1> DEFINE i == loop[p].issue
  <1>1. /\ ready \subseteq Issues /\ quarantined \subseteq Issues
        /\ head \in [Issues -> Pushes] /\ merged \in [Issues -> Pushes]
        /\ approved \subseteq Issues \X Pushes
        /\ stop \in BOOLEAN
        /\ loop[p].head \in Pushes
        /\ InHand(loop[p]) => i \in Issues
    BY DEF Typed, TypeOK, LoopTypeOK, Sound, Run
  <1>2. CASE Top(p) \/ TakeNone(p) \/ CheckStart(p) \/ CheckReview(p) \/ CheckMerge(p) \/ Raises(p)
    BY <1>1, <1>2 DEF Top, TakeNone, CheckStart, CheckReview, CheckMerge, Raises, queue, github
  <1>3. CASE Take(p)
    BY <1>1, <1>3 DEF Take, github
  <1>4. CASE Start(p) \/ StartRaises(p)
    <2>1. i \in Issues
      BY <1>1, <1>4 DEF Start, StartRaises, At, InHand
    <2>2. \E h \in {head[i], Opened(i)} : head' = [head EXCEPT ![i] = h]
      BY <1>4 DEF Start, StartRaises
    <2>3. head' \in [Issues -> Pushes]
      BY <1>1, <2>1, <2>2, HeadsTyped
    <2>. QED
      BY <1>1, <1>4, <2>3 DEF Start, StartRaises, queue
  <1>5. CASE Fix(p) \/ FixRaises(p)
    <2>1. i \in Issues
      BY <1>1, <1>5 DEF Fix, FixRaises, At, InHand
    <2>2. \E h \in Fixed(i) : head' = [head EXCEPT ![i] = h]
      BY <1>5 DEF Fix, FixRaises
    <2>3. head' \in [Issues -> Pushes]
      BY <1>1, <2>1, <2>2, HeadsTyped
    <2>. QED
      BY <1>1, <1>5, <2>3 DEF Fix, FixRaises, queue
  <1>6. CASE Review(p)
    <2>1. i \in Issues
      BY <1>1, <1>6 DEF Review, At, InHand
    <2>2. head[i] \in Pushes
      BY <2>1, HeadsTyped
    <2>3. \E reviewed \in Pushes : approved' \in {approved, approved \cup {<<i, reviewed>>}}
      BY <1>1, <1>6, <2>2 DEF Review
    <2>. QED
      BY <1>1, <1>6, <2>1, <2>3 DEF Review, queue
  <1>7. CASE Merge(p) \/ MergeRaises(p)
    <2>1. merged' = merged \/ merged' = [merged EXCEPT ![i] = loop[p].head]
      BY <1>7 DEF Merge, MergeRaises, MergeHead
    <2>. QED
      BY <1>1, <1>7, <2>1 DEF Merge, MergeRaises, queue
  <1>8. CASE Quarantine(p)
    BY <1>1, <1>8 DEF Quarantine, At, InHand, github
  <1>. QED
    BY <1>2, <1>3, <1>4, <1>5, <1>6, <1>7, <1>8 DEF Step, Proceed

\* A step of the preflight, of the operator or of an activation.
Calls(p) == Activate(p) \/ PreflightStep(p) \/ RunQueue(p) \/ Finish(p)

LEMMA CallsTyped ==
  ASSUME Typed, NEW p \in Procs, Calls(p)
  PROVE  /\ RunsTyped
         /\ UNCHANGED <<queue, github, stop, requeues>>
         /\ act' \in [Procs -> Preflight \cup {"idle", "runtime"}]
  <1>1. UNCHANGED <<queue, github, stop, requeues>>
    BY DEF Calls, Activate, PreflightStep, CheckStop, Verify, Probe, Select, CheckStopAgain,
           PreflightRaises, RunQueue, Finish, loopVars, queue, github
  <1>2. stop' = stop
    BY <1>1
  <1>3. \E point \in Preflight \cup {"idle", "runtime"} : ActBecomes(p, point)
    BY DEF Calls, Activate, PreflightStep, CheckStop, Verify, Probe, Select, CheckStopAgain,
           PreflightRaises, RunQueue, Finish, GiveUp, Preflight
  <1>4. act' \in [Procs -> Preflight \cup {"idle", "runtime"}]
    BY <1>3 DEF ActBecomes, Typed, TypeOK
  <1>5. CASE \E issues \in SUBSET Issues : Begin(p, issues)
    BY <1>1, <1>2, <1>4, <1>5, BeginTyped
  <1>6. CASE Becomes(p, Idle)
    BY <1>1, <1>2, <1>4, <1>6, IdleTyped, BecomesTyped DEF RunsTyped
  <1>7. CASE loop' = loop
    BY <1>1, <1>2, <1>4, <1>7 DEF RunsTyped, Typed, TypeOK, LoopTypeOK
  <1>8. \/ \E issues \in SUBSET Issues : Begin(p, issues)
        \/ Becomes(p, Idle)
        \/ loop' = loop
    BY DEF Calls, Activate, PreflightStep, CheckStop, Verify, Probe, Select, CheckStopAgain,
           PreflightRaises, RunQueue, Finish, loopVars
  <1>. QED
    BY <1>1, <1>4, <1>5, <1>6, <1>7, <1>8

\* Next, with the calls of a process together.
LEMMA NextCases ==
  ASSUME Next
  PROVE  \/ \E p \in Procs : Calls(p) \/ LoopStep(p)
         \/ World
         \/ Requeue
  BY DEF Next, Calls

LEMMA StepTyped == Typed /\ [Next]_vars => Typed'
  <1> SUFFICES ASSUME Typed, [Next]_vars
               PROVE  Typed'
    OBVIOUS
  <1>1. CASE UNCHANGED vars
    BY <1>1 DEF vars, loopVars, Typed, TypeOK, LoopTypeOK
  <1>2. ASSUME NEW p \in Procs, Calls(p)
        PROVE  Typed'
    BY <1>2, CallsTyped DEF RunsTyped, Typed, TypeOK, LoopTypeOK, queue, github
  <1>3. ASSUME NEW p \in Procs, LoopStep(p)
        PROVE  Typed'
    BY <1>3, StepTypedRuns, StepTypedWorld DEF LoopStep, RunsTyped, Typed, TypeOK, LoopTypeOK
  <1>4. CASE Push /\ UNCHANGED <<act, requeues>>
    <2>1. head' \in [Issues -> Pushes]
      BY <1>4, ProductionLoopAssumption DEF Push, Typed, TypeOK, LoopTypeOK, Pushes
    <2>. QED
      BY <1>4, <2>1 DEF Push, queue, Typed, TypeOK, LoopTypeOK
  <1>5. CASE RaiseStop /\ UNCHANGED <<act, requeues>>
    BY <1>5 DEF RaiseStop, queue, github, Typed, TypeOK, LoopTypeOK
  <1>6. CASE ClearStop /\ UNCHANGED <<act, requeues>>
    <2>1. ASSUME NEW p \in Procs
          PROVE  loop'[p] \in Run /\ Sound(loop'[p]) /\ loop'[p].late = 0
      <3>1. loop'[p] = [loop[p] EXCEPT !.late = 0] /\ loop[p] \in Run /\ Sound(loop[p])
        BY <1>6 DEF ClearStop, Typed, TypeOK, LoopTypeOK
      <3>. QED
        BY <3>1 DEF Run, Sound, InHand
    <2>2. loop' \in [Procs -> Run]
      BY <1>6, <2>1 DEF ClearStop
    <2>. QED
      BY <1>6, <2>1, <2>2 DEF ClearStop, queue, github, Typed, TypeOK, LoopTypeOK
  <1>7. CASE Requeue
    BY <1>7, SupervisedAssumption DEF Requeue, github, Typed, TypeOK, LoopTypeOK
  <1>. QED
    BY <1>1, <1>2, <1>3, <1>4, <1>5, <1>6, <1>7, NextCases DEF World

LEMMA InitTyped == Init => Typed
  <1> SUFFICES ASSUME Init
               PROVE  Typed
    OBVIOUS
  <1>1. /\ loop \in [Procs -> Run]
        /\ \A p \in Procs : Sound(loop[p]) /\ loop[p].late = 0
    BY IdleTyped DEF Init, LoopInit
  <1>2. 0 \in Pushes /\ requeues \in 0 .. MaxRequeues
    BY ProductionLoopAssumption, SupervisedAssumption DEF Pushes, Init
  <1>3. LoopTypeOK
    BY <1>1, <1>2 DEF Init, LoopInit, LoopTypeOK
  <1>. QED
    BY <1>1, <1>2, <1>3 DEF Init, Typed, TypeOK

LEMMA TypedAlways == Spec => []Typed
  BY InitTyped, StepTyped, PTL DEF Spec

\* Every run, queue and pull request is well-formed.
THEOREM TypeCorrect == Spec => []TypeOK
  BY TypedAlways, PTL DEF Typed

\* A run that finds the stop raised begins no call but the one it is about to
\* make, and the fixes that follow a review: for any number of runs, and however
\* operators start them.
THEOREM StopIsObeyed == Spec => []StopObeyed
  <1>1. Typed => StopObeyed
    BY DEF Typed, StopObeyed, Sound, At
  <1>. QED
    BY <1>1, TypedAlways, PTL

-----------------------------------------------------------------------------

\* What is merged, or about to be, was reviewed and approved at exactly its head.
Reviewed ==
  /\ Typed
  /\ MergedHeadWasApproved
  /\ \A p \in Procs :
       loop[p].at \in {"check-merge", "merge"} => <<loop[p].issue, loop[p].head>> \in approved

LEMMA ReviewedStep == Reviewed /\ [Next]_vars => Reviewed'
  <1> SUFFICES ASSUME Reviewed, [Next]_vars
               PROVE  Reviewed'
    OBVIOUS
  <1> DEFINE Chosen(q) == loop[q].at \in {"check-merge", "merge"}
                            => <<loop[q].issue, loop[q].head>> \in approved
  <1>1. Typed' /\ \A q \in Procs : Chosen(q)
    BY StepTyped DEF Reviewed
  <1>2. CASE UNCHANGED vars
    BY <1>1, <1>2 DEF vars, loopVars, github, Reviewed, MergedHeadWasApproved
  <1>3. ASSUME NEW p \in Procs, Calls(p)
        PROVE  Reviewed'
    <2>1. merged' = merged /\ approved' = approved
      BY <1>3, CallsTyped DEF Reviewed, github
    <2>2. \A q \in Procs : loop'[q] = loop[q] \/ loop'[q].at \notin {"check-merge", "merge"}
      <3>1. CASE \E issues : Begin(p, issues)
        <4>1. PICK issues : Begin(p, issues)
          BY <3>1
        <4> DEFINE r == [Idle EXCEPT !.at = "top", !.scope = issues]
        <4>2. Becomes(p, r) /\ r.at = "top"
          BY <4>1 DEF Begin, Idle
        <4> HIDE DEF r
        <4>. QED
          BY <4>2, BecomesSets DEF Reviewed
      <3>2. CASE Becomes(p, Idle)
        BY <3>2, BecomesSets DEF Idle, Reviewed
      <3>3. CASE loop' = loop
        BY <3>3
      <3>. QED
        BY <1>3, <3>1, <3>2, <3>3
        DEF Calls, Activate, PreflightStep, CheckStop, Verify, Probe, Select, CheckStopAgain,
            PreflightRaises, RunQueue, Finish, loopVars
    <2>. QED
      BY <1>1, <2>1, <2>2 DEF Reviewed, MergedHeadWasApproved
  <1>4. ASSUME NEW p \in Procs, Step(p)
        PROVE  Reviewed'
    <2> DEFINE i == loop[p].issue
    <2>1. Typed /\ loop[p] \in Run /\ Sound(loop[p])
      BY DEF Reviewed, Typed, TypeOK, LoopTypeOK
    <2>2. ASSUME merged' = merged, approved' = approved,
                 loop'[p].at \notin {"check-merge", "merge"} \/ (loop'[p].at = "merge" /\ At(p, "check-merge")
                   /\ loop'[p].issue = i /\ loop'[p].head = loop[p].head),
                 \A q \in Procs \ {p} : loop'[q] = loop[q]
          PROVE  Reviewed'
      BY <1>1, <2>2 DEF Reviewed, MergedHeadWasApproved, At
    <2>3. ASSUME NEW r, Becomes(p, r)
          PROVE  loop'[p] = r /\ \A q \in Procs \ {p} : loop'[q] = loop[q]
      BY <2>1, <2>3, BecomesSets
    <2>4. CASE Top(p) \/ Take(p) \/ TakeNone(p) \/ CheckStart(p) \/ Start(p) \/ CheckReview(p)
               \/ CheckMerge(p) \/ Fix(p) \/ Quarantine(p) \/ StartRaises(p) \/ FixRaises(p) \/ Raises(p)
      <3>1. merged' = merged /\ approved' = approved
        BY <2>4 DEF Top, Take, TakeNone, CheckStart, Start, CheckReview, CheckMerge, Fix, Quarantine,
                    StartRaises, FixRaises, Raises, github
      <3>2. \E r : /\ Becomes(p, r)
                   /\ \/ r.at \notin {"check-merge", "merge"}
                      \/ /\ At(p, "check-merge") /\ r.at = "merge"
                         /\ r.issue = i /\ r.head = loop[p].head
        <4>1. CASE CheckMerge(p) \/ CheckStart(p) \/ CheckReview(p)
          BY <2>1, <4>1, MovesTo DEF CheckMerge, CheckStart, CheckReview
        <4>2. CASE Top(p) \/ TakeNone(p) \/ FixRaises(p) \/ Raises(p) \/ Quarantine(p)
          <5>1. Settle(p) \/ Return(p) \/ Goto(p, "take")
            BY <4>2 DEF Top, TakeNone, FixRaises, Raises, Quarantine
          <5>. QED
            BY <2>1, <5>1, MovesTo
        <4>3. CASE Take(p)
          <5>1. PICK j : Becomes(p, [loop[p] EXCEPT !.at = "check-start", !.issue = j,
                                                    !.begun = @ + 1])
            BY <4>3 DEF Take
          <5> DEFINE r == [loop[p] EXCEPT !.at = "check-start", !.issue = j, !.begun = @ + 1]
          <5>2. Becomes(p, r) /\ r.at = "check-start"
            BY <2>1, <5>1 DEF Run
          <5> HIDE DEF r
          <5>. QED
            BY <5>2
        <4>4. CASE Start(p)
          <5> DEFINE r == [loop[p] EXCEPT !.at = "check-review", !.head = Opened(i), !.late = Late(p)]
          <5>1. Becomes(p, r) /\ r.at = "check-review"
            BY <2>1, <4>4 DEF Start, Run
          <5> HIDE DEF r
          <5>. QED
            BY <5>1
        <4>5. CASE StartRaises(p)
          <5> DEFINE r == [loop[p] EXCEPT !.at = "quarantine", !.late = Late(p)]
          <5>1. Becomes(p, r) /\ r.at = "quarantine"
            BY <2>1, <4>5 DEF StartRaises, Run
          <5> HIDE DEF r
          <5>. QED
            BY <5>1
        <4>6. CASE Fix(p)
          <5>1. PICK h : Becomes(p, [loop[p] EXCEPT !.at = "check-review", !.head = h,
                                                    !.fixes = @ + 1, !.late = Late(p)])
            BY <4>6 DEF Fix
          <5> DEFINE r == [loop[p] EXCEPT !.at = "check-review", !.head = h,
                                          !.fixes = @ + 1, !.late = Late(p)]
          <5>2. Becomes(p, r) /\ r.at = "check-review"
            BY <2>1, <5>1 DEF Run
          <5> HIDE DEF r
          <5>. QED
            BY <5>2
        <4>. QED
          BY <2>4, <4>1, <4>2, <4>3, <4>4, <4>5, <4>6
      <3>. QED
        BY <2>1, <2>2, <2>3, <3>1, <3>2
    <2>5. CASE Review(p)
      <3>1. PICK reviewed, approves, findings \in {loop[p].head, head[i]} \cup BOOLEAN :
              /\ approved' = IF approves THEN approved \cup {<<i, reviewed>>} ELSE approved
              /\ Becomes(p, [loop[p] EXCEPT !.at = AfterReview(p, reviewed, approves, findings),
                                            !.late = Late(p)])
        BY <2>5 DEF Review
      <3> DEFINE r == [loop[p] EXCEPT !.at = AfterReview(p, reviewed, approves, findings),
                                      !.late = Late(p)]
      <3>2. /\ r.issue = i /\ r.head = loop[p].head
            /\ r.at = AfterReview(p, reviewed, approves, findings)
        BY <2>1 DEF Run
      <3>3. /\ AfterReview(p, reviewed, approves, findings) # "merge"
            /\ AfterReview(p, reviewed, approves, findings) = "check-merge"
                 => reviewed = loop[p].head /\ approves
        BY DEF AfterReview
      <3>4. loop'[p] = r /\ \A q \in Procs \ {p} : loop'[q] = loop[q]
        BY <2>3, <3>1
      <3> HIDE DEF r
      <3>5. approved \subseteq approved' /\ (approves => <<i, reviewed>> \in approved')
        BY <3>1
      <3>6. merged' = merged
        BY <2>5 DEF Review
      <3>. QED
        BY <1>1, <3>2, <3>3, <3>4, <3>5, <3>6 DEF Reviewed, MergedHeadWasApproved
    <2>6. CASE Merge(p) \/ MergeRaises(p)
      <3>1. /\ approved' = approved
            /\ merged' = merged \/ merged' = [merged EXCEPT ![i] = loop[p].head]
        BY <2>6 DEF Merge, MergeRaises, MergeHead
      <3>2. <<i, loop[p].head>> \in approved
        BY <1>1, <2>6 DEF Merge, MergeRaises, At
      <3>3. \E r : Becomes(p, r) /\ r.at \notin {"check-merge", "merge"}
        BY <2>1, <2>6, MovesTo DEF Merge, MergeRaises
      <3>4. MergedHeadWasApproved'
        BY <2>1, <3>1, <3>2 DEF Reviewed, MergedHeadWasApproved, Typed, TypeOK, LoopTypeOK
      <3>. QED
        BY <1>1, <2>3, <3>1, <3>3, <3>4 DEF Reviewed
    <2>. QED
      BY <1>4, <2>4, <2>5, <2>6 DEF Step, Proceed
  <1>5. CASE World \/ Requeue
    <2>1. /\ merged' = merged /\ approved' = approved
          /\ \A q \in Procs : /\ loop'[q].at = loop[q].at /\ loop'[q].issue = loop[q].issue
                              /\ loop'[q].head = loop[q].head
      BY <1>5 DEF World, Push, RaiseStop, ClearStop, Requeue, github, queue,
                  Reviewed, Typed, TypeOK, LoopTypeOK, Run
    <2>. QED
      BY <1>1, <2>1 DEF Reviewed, MergedHeadWasApproved
  <1>. QED
    BY <1>2, <1>3, <1>4, <1>5, NextCases DEF LoopStep

\* However runs, fixes and the pushes of others alternate, what is merged is a
\* head that a review of exactly this head approved.
THEOREM MergesReviewed == Spec => []MergedHeadWasApproved
  <1>1. Init => Reviewed
    BY InitTyped DEF Init, LoopInit, Reviewed, MergedHeadWasApproved, Idle
  <1>. QED
    BY <1>1, ReviewedStep, PTL DEF Spec, Reviewed

-----------------------------------------------------------------------------

\* A step of a run is one of a process that runs, and it still does.
LEMMA StepRuns ==
  ASSUME Typed, NEW p \in Procs, Step(p)
  PROVE  Running(p) /\ \A q \in Procs \ {p} : loop'[q] = loop[q]
  <1>1. Running(p)
    BY DEF Step, Proceed, Top, Take, TakeNone, CheckStart, Start, CheckReview, Review, CheckMerge,
           Merge, Fix, Quarantine, StartRaises, FixRaises, MergeRaises, Raises, At, Running
  <1>2. \E r : Becomes(p, r)
    BY DEF Step, Proceed, Top, Take, TakeNone, CheckStart, Start, CheckReview, Review, CheckMerge,
           Merge, Fix, Quarantine, StartRaises, FixRaises, MergeRaises, Raises, Settle, Goto, Return
  <1>. QED
    BY <1>1, <1>2, BecomesSets

-----------------------------------------------------------------------------

\* An issue in quarantine is not ready.
Apart == Typed /\ ready \cap quarantined = {}

\* A step of a run keeps its issue or drops it,
Keeps(p) == UNCHANGED queue /\ loop'[p].issue \in {loop[p].issue, None}

\* or takes one off the queue,
Takes(p) == ready' \subseteq ready /\ quarantined' = quarantined /\ loop'[p].issue \in ready

\* or is done with one that it puts into quarantine.
GivesUp(p) ==
  /\ At(p, "quarantine") /\ loop'[p].issue = None
  /\ ready' = ready \ {loop[p].issue} /\ quarantined' = quarantined \cup {loop[p].issue}

LEMMA StepOnIssue ==
  ASSUME Typed, NEW p \in Procs, Step(p)
  PROVE  Keeps(p) \/ Takes(p) \/ GivesUp(p)
  <1>1. loop[p] \in Run
    BY DEF Typed, TypeOK, LoopTypeOK
  <1>2. ASSUME Settle(p)
        PROVE  loop'[p].issue = None
    <2> DEFINE r == [loop[p] EXCEPT !.at = "top", !.issue = None, !.head = 0, !.fixes = 0]
    <2>1. Becomes(p, r) /\ r.issue = None
      BY <1>1, <1>2 DEF Settle, Run
    <2> HIDE DEF r
    <2>. QED
      BY <2>1, BecomesSets
  <1>3. ASSUME Return(p)
        PROVE  loop'[p].issue = None
    <2> DEFINE r == [Idle EXCEPT !.at = "done"]
    <2>1. Becomes(p, r) /\ r.issue = None
      BY <1>3 DEF Return, Idle
    <2> HIDE DEF r
    <2>. QED
      BY <2>1, BecomesSets
  <1>4. ASSUME NEW point, Goto(p, point)
        PROVE  loop'[p].issue = loop[p].issue
    BY <1>4, MovesTo, BecomesSets
  <1>5. CASE \/ Top(p) \/ TakeNone(p) \/ Merge(p) \/ MergeRaises(p) \/ FixRaises(p) \/ Raises(p)
             \/ CheckMerge(p) \/ CheckStart(p) \/ CheckReview(p)
    <2>1. Settle(p) \/ Return(p) \/ \E point : Goto(p, point)
      BY <1>5 DEF Top, TakeNone, Merge, MergeRaises, FixRaises, Raises, CheckMerge, CheckStart,
                  CheckReview
    <2>2. UNCHANGED queue
      BY <1>5 DEF Top, TakeNone, Merge, MergeRaises, FixRaises, Raises, CheckMerge, CheckStart,
                  CheckReview
    <2>. QED
      BY <1>2, <1>3, <1>4, <2>1, <2>2 DEF Keeps
  <1>6. CASE Take(p)
    <2>1. PICK i \in ready :
            /\ ready' = ready \ {i}
            /\ Becomes(p, [loop[p] EXCEPT !.at = "check-start", !.issue = i, !.begun = @ + 1])
      BY <1>6 DEF Take
    <2> DEFINE r == [loop[p] EXCEPT !.at = "check-start", !.issue = i, !.begun = @ + 1]
    <2>2. Becomes(p, r) /\ r.issue = i
      BY <1>1, <2>1 DEF Run
    <2> HIDE DEF r
    <2>. QED
      BY <1>6, <2>1, <2>2, BecomesSets DEF Take, Takes
  <1>7. CASE Start(p)
    <2> DEFINE r == [loop[p] EXCEPT !.at = "check-review", !.head = Opened(loop[p].issue),
                                    !.late = Late(p)]
    <2>1. Becomes(p, r) /\ r.issue = loop[p].issue
      BY <1>1, <1>7 DEF Start, Run
    <2> HIDE DEF r
    <2>. QED
      BY <1>7, <2>1, BecomesSets DEF Start, Keeps
  <1>8. CASE StartRaises(p)
    <2> DEFINE r == [loop[p] EXCEPT !.at = "quarantine", !.late = Late(p)]
    <2>1. Becomes(p, r) /\ r.issue = loop[p].issue
      BY <1>1, <1>8 DEF StartRaises, Run
    <2> HIDE DEF r
    <2>. QED
      BY <1>8, <2>1, BecomesSets DEF StartRaises, Keeps
  <1>9. CASE Review(p)
    <2>1. PICK point : Becomes(p, [loop[p] EXCEPT !.at = point, !.late = Late(p)])
      BY <1>9 DEF Review
    <2> DEFINE r == [loop[p] EXCEPT !.at = point, !.late = Late(p)]
    <2>2. Becomes(p, r) /\ r.issue = loop[p].issue
      BY <1>1, <2>1 DEF Run
    <2> HIDE DEF r
    <2>. QED
      BY <1>9, <2>2, BecomesSets DEF Review, Keeps
  <1>10. CASE Fix(p)
    <2>1. PICK h : Becomes(p, [loop[p] EXCEPT !.at = "check-review", !.head = h,
                                              !.fixes = @ + 1, !.late = Late(p)])
      BY <1>10 DEF Fix
    <2> DEFINE r == [loop[p] EXCEPT !.at = "check-review", !.head = h,
                                    !.fixes = @ + 1, !.late = Late(p)]
    <2>2. Becomes(p, r) /\ r.issue = loop[p].issue
      BY <1>1, <2>1 DEF Run
    <2> HIDE DEF r
    <2>. QED
      BY <1>10, <2>2, BecomesSets DEF Fix, Keeps
  <1>11. CASE Quarantine(p)
    BY <1>2, <1>11 DEF Quarantine, GivesUp
  <1>. QED
    BY <1>5, <1>6, <1>7, <1>8, <1>9, <1>10, <1>11 DEF Step, Proceed

\* What everybody else does: the queue stays, and a run that begins or is over has
\* no issue.
LEMMA CallsOnIssue ==
  ASSUME Typed, NEW p \in Procs, Calls(p)
  PROVE  UNCHANGED queue /\ \A q \in Procs : loop'[q].issue \in {loop[q].issue, None}
  <1>1. UNCHANGED queue
    BY CallsTyped
  <1>2. ASSUME NEW issues, Begin(p, issues)
        PROVE  \A q \in Procs : loop'[q].issue \in {loop[q].issue, None}
    <2> DEFINE r == [Idle EXCEPT !.at = "top", !.scope = issues]
    <2>1. Becomes(p, r) /\ r.issue = None
      BY <1>2 DEF Begin, Idle
    <2> HIDE DEF r
    <2>. QED
      BY <2>1, BecomesSets
  <1>3. CASE Becomes(p, Idle)
    BY <1>1, <1>3, BecomesSets DEF Idle
  <1>4. CASE loop' = loop
    BY <1>1, <1>4
  <1>. QED
    BY <1>1, <1>2, <1>3, <1>4
    DEF Calls, Activate, PreflightStep, CheckStop, Verify, Probe, Select, CheckStopAgain,
        PreflightRaises, RunQueue, Finish, loopVars

LEMMA WorldOnIssue ==
  ASSUME Apart, World \/ Requeue
  PROVE  /\ quarantined' \subseteq quarantined /\ ready' \cap quarantined' = {}
         /\ \A q \in Procs : loop'[q].issue = loop[q].issue
  <1>1. \A q \in Procs : loop'[q].issue = loop[q].issue
    BY DEF World, Push, RaiseStop, ClearStop, Requeue, Apart, Typed, TypeOK, LoopTypeOK, Run
  <1>2. quarantined' \subseteq quarantined /\ ready' \cap quarantined' = {}
    BY DEF World, Push, RaiseStop, ClearStop, Requeue, queue, Apart
  <1>. QED
    BY <1>1, <1>2

LEMMA ApartStep == Apart /\ [Next]_vars => Apart'
  <1> SUFFICES ASSUME Apart, [Next]_vars
               PROVE  Apart'
    OBVIOUS
  <1>1. Typed /\ Typed'
    BY StepTyped DEF Apart
  <1>2. CASE UNCHANGED vars
    BY <1>1, <1>2 DEF vars, loopVars, Apart
  <1>3. ASSUME NEW p \in Procs, Calls(p)
        PROVE  Apart'
    BY <1>1, <1>3, CallsOnIssue DEF Apart, queue
  <1>4. ASSUME NEW p \in Procs, LoopStep(p)
        PROVE  Apart'
    <2>1. Keeps(p) \/ Takes(p) \/ GivesUp(p)
      BY <1>1, <1>4, StepOnIssue DEF LoopStep
    <2>. QED
      BY <1>1, <2>1 DEF Keeps, Takes, GivesUp, Apart, queue
  <1>5. CASE World \/ Requeue
    BY <1>1, <1>5, WorldOnIssue DEF Apart
  <1>. QED
    BY <1>2, <1>3, <1>4, <1>5, NextCases

\* Whatever the other runs, the activations and the operators do, a run that has an
\* issue of the quarantine in hand had it before somebody else put it there.
THEOREM QuarantineLeftAlone == Spec => QuarantineHolds
  <1> DEFINE LeftAlone ==
        \A p \in Procs :
          loop'[p].issue \in quarantined' =>
            /\ loop[p].issue = loop'[p].issue
            /\ \/ loop[p].issue \in quarantined
               \/ \E q \in Procs \ {p} :
                    At(q, "quarantine") /\ loop[q].issue = loop[p].issue
  <1>1. Init => Apart
    BY InitTyped DEF Init, LoopInit, Apart
  <1>2. Apart /\ [Next]_vars => [LeftAlone]_vars
    <2> SUFFICES ASSUME Apart, Next, NEW p \in Procs, loop'[p].issue \in quarantined'
                 PROVE  /\ loop[p].issue = loop'[p].issue
                        /\ \/ loop[p].issue \in quarantined
                           \/ \E q \in Procs \ {p} :
                                At(q, "quarantine") /\ loop[q].issue = loop[p].issue
      OBVIOUS
    <2>1. loop'[p].issue # None
      BY StepTyped, ProductionLoopAssumption DEF Apart, Typed, TypeOK, LoopTypeOK
    <2>2. ASSUME NEW q \in Procs, Calls(q)
          PROVE  loop[p].issue = loop'[p].issue /\ loop[p].issue \in quarantined
      BY <2>1, <2>2, CallsOnIssue DEF Apart, queue
    <2>3. ASSUME NEW q \in Procs, LoopStep(q)
          PROVE  /\ loop[p].issue = loop'[p].issue
                 /\ \/ loop[p].issue \in quarantined
                    \/ q # p /\ At(q, "quarantine") /\ loop[q].issue = loop[p].issue
      <3>1. /\ Keeps(q) \/ Takes(q) \/ GivesUp(q)
            /\ p # q => loop'[p] = loop[p]
        BY <2>3, StepOnIssue, StepRuns DEF LoopStep, Apart
      <3>. QED
        BY <2>1, <3>1 DEF Keeps, Takes, GivesUp, Apart, queue
    <2>4. CASE World \/ Requeue
      BY <2>4, WorldOnIssue
    <2>. QED
      BY <2>2, <2>3, <2>4, NextCases
  <1>. QED
    BY <1>1, <1>2, ApartStep, PTL DEF Spec, QuarantineHolds

-----------------------------------------------------------------------------
(* Runs get nearer their end.                                               *)

\* What a step may do to the count of issues and of fixes of a run.
LEMMA FieldsThen ==
  ASSUME Typed, NEW p \in Procs
  PROVE  /\ Settle(p) => loop'[p].at = "top" /\ loop'[p].begun = loop[p].begun
         /\ Return(p) => loop'[p].at = "done"
         /\ \A point : Goto(p, point) =>
              /\ loop'[p].at = point
              /\ loop'[p].begun = loop[p].begun /\ loop'[p].fixes = loop[p].fixes
  <1>1. loop[p] \in Run
    BY DEF Typed, TypeOK, LoopTypeOK
  <1>2. ASSUME Settle(p)
        PROVE  loop'[p].at = "top" /\ loop'[p].begun = loop[p].begun
    <2> DEFINE r == [loop[p] EXCEPT !.at = "top", !.issue = None, !.head = 0, !.fixes = 0]
    <2>1. r.at = "top" /\ r.begun = loop[p].begun
      BY <1>1 DEF Run
    <2>2. Becomes(p, r)
      BY <1>2 DEF Settle
    <2> HIDE DEF r
    <2>. QED
      BY <2>1, <2>2, BecomesSets
  <1>3. ASSUME Return(p)
        PROVE  loop'[p].at = "done"
    BY <1>3, MovesTo, BecomesSets
  <1>4. ASSUME NEW point, Goto(p, point)
        PROVE  /\ loop'[p].at = point
               /\ loop'[p].begun = loop[p].begun /\ loop'[p].fixes = loop[p].fixes
    <2> DEFINE r == [loop[p] EXCEPT !.at = point]
    <2>1. r.at = point /\ r.begun = loop[p].begun /\ r.fixes = loop[p].fixes
      BY <1>1 DEF Run
    <2>2. Becomes(p, r)
      BY <1>4 DEF Goto
    <2> HIDE DEF r
    <2>. QED
      BY <2>1, <2>2, BecomesSets
  <1>. QED
    BY <1>2, <1>3, <1>4

\* The counts of a run do not exceed their limits.
LEMMA CountsTyped ==
  ASSUME Typed, NEW p \in Procs
  PROVE  /\ loop[p].begun \in Nat /\ loop[p].begun <= MaxIssues
         /\ loop[p].fixes \in Nat /\ loop[p].fixes <= MaxFix
         /\ MaxIssues \in Nat /\ MaxFix \in Nat
         /\ FixesLeft(loop[p]) \in Nat
  BY ProductionLoopAssumption DEF Typed, TypeOK, LoopTypeOK, Run, FixesLeft

\* The step brings the run nearer its end and leaves the end to its caller.
Onward(p) == Nearer(loop'[p], loop[p]) /\ loop'[p].at # "idle"

\* Within an issue a run is nearer its end where it has fewer stages left.
LEMMA SameIssueNearer ==
  ASSUME Typed, NEW p \in Procs, InHand(loop[p]) \/ loop[p].at \in {"top", "take"},
         InHand(loop'[p]) \/ loop'[p].at \in {"top", "take"},
         loop'[p].begun = loop[p].begun,
         StagesLeft(loop'[p]) < StagesLeft(loop[p])
  PROVE  Onward(p)
  BY DEF InHand, Onward, Nearer, IssuesLeft

\* A run that settles its issue, or returns, is nearer its end.
LEMMA SettlesNearer ==
  ASSUME Typed, NEW p \in Procs, InHand(loop[p]), Settle(p)
  PROVE  Onward(p)
  <1>1. StagesLeft(loop'[p]) = 2
    BY FieldsThen DEF StagesLeft
  <1>2. StagesLeft(loop[p]) > 2
    BY CountsTyped DEF StagesLeft, InHand
  <1>. QED
    BY <1>1, <1>2, FieldsThen, SameIssueNearer

LEMMA ReturnsNearer ==
  ASSUME Typed, NEW p \in Procs, InHand(loop[p]) \/ loop[p].at \in {"top", "take"}, Return(p)
  PROVE  Onward(p)
  <1>1. StagesLeft(loop'[p]) = 0 /\ IssuesLeft(loop'[p]) = 0
    BY FieldsThen DEF StagesLeft, IssuesLeft
  <1>2. StagesLeft(loop[p]) > 0
    BY CountsTyped DEF StagesLeft, InHand
  <1>3. IssuesLeft(loop[p]) \in Nat
    BY CountsTyped DEF IssuesLeft
  <1>. QED
    BY <1>1, <1>2, <1>3, FieldsThen DEF Onward, Nearer

\* Every step of a run brings it nearer its end.
LEMMA StepShrinks ==
  ASSUME Typed, NEW p \in Procs, Step(p)
  PROVE  Onward(p)
  <1>1. loop[p] \in Run /\ Sound(loop[p])
    BY DEF Typed, TypeOK, LoopTypeOK
  <1>2. CASE Top(p)
    <2>1. CASE Goto(p, "take")
      <3>1. StagesLeft(loop'[p]) = 1 /\ StagesLeft(loop[p]) = 2
        BY <1>2, <2>1, FieldsThen DEF Top, At, StagesLeft
      <3>. QED
        BY <1>2, <2>1, <3>1, FieldsThen, SameIssueNearer DEF Top, At
    <2>2. CASE Return(p)
      BY <1>2, <2>2, ReturnsNearer DEF Top, At
    <2>. QED
      BY <1>2, <2>1, <2>2 DEF Top
  <1>3. CASE Take(p)
    <2>1. PICK i \in ready \cap loop[p].scope :
            Becomes(p, [loop[p] EXCEPT !.at = "check-start", !.issue = i, !.begun = @ + 1])
      BY <1>3 DEF Take
    <2> DEFINE r == [loop[p] EXCEPT !.at = "check-start", !.issue = i, !.begun = @ + 1]
    <2>2. r.at = "check-start" /\ r.begun = loop[p].begun + 1
      BY <1>1 DEF Run
    <2>3. Becomes(p, r)
      BY <2>1
    <2> HIDE DEF r
    <2>4. loop'[p].at = "check-start" /\ loop'[p].begun = loop[p].begun + 1
      BY <2>2, <2>3, BecomesSets
    <2>5. IssuesLeft(loop'[p]) = MaxIssues - (loop[p].begun + 1)
      BY <2>4 DEF IssuesLeft
    <2>6. IssuesLeft(loop[p]) = MaxIssues - loop[p].begun
      BY <1>3 DEF IssuesLeft, Take, At
    <2>. QED
      BY <2>4, <2>5, <2>6, CountsTyped DEF Onward, Nearer
  <1>4. CASE TakeNone(p)
    BY <1>4, ReturnsNearer DEF TakeNone, At
  <1>5. CASE CheckStart(p) \/ CheckReview(p) \/ CheckMerge(p)
    <2>1. InHand(loop[p])
      BY <1>5 DEF CheckStart, CheckReview, CheckMerge, At, InHand
    <2>2. CASE Settle(p)
      BY <2>1, <2>2, SettlesNearer
    <2>3. CASE \/ At(p, "check-start") /\ Goto(p, "start")
               \/ At(p, "check-review") /\ Goto(p, "review")
               \/ At(p, "check-merge") /\ Goto(p, "merge")
      <3>1. InHand(loop'[p]) /\ loop'[p].begun = loop[p].begun
        BY <2>3, FieldsThen DEF InHand
      <3>2. FixesLeft(loop'[p]) = FixesLeft(loop[p])
        BY <2>3, FieldsThen DEF FixesLeft
      <3>3. StagesLeft(loop'[p]) < StagesLeft(loop[p])
        BY <2>3, <3>2, FieldsThen, CountsTyped DEF StagesLeft, At
      <3>. QED
        BY <2>1, <3>1, <3>3, SameIssueNearer
    <2>. QED
      BY <1>5, <2>2, <2>3 DEF CheckStart, CheckReview, CheckMerge
  <1>6. CASE Start(p)
    <2> DEFINE r == [loop[p] EXCEPT !.at = "check-review", !.head = Opened(loop[p].issue),
                                    !.late = Late(p)]
    <2>1. r.at = "check-review" /\ r.begun = loop[p].begun /\ r.fixes = loop[p].fixes
      BY <1>1 DEF Run
    <2>2. Becomes(p, r)
      BY <1>6 DEF Start
    <2> HIDE DEF r
    <2>3. /\ loop'[p].at = "check-review" /\ loop'[p].begun = loop[p].begun
          /\ FixesLeft(loop'[p]) = FixesLeft(loop[p])
      BY <2>1, <2>2, BecomesSets DEF FixesLeft
    <2>4. StagesLeft(loop'[p]) < StagesLeft(loop[p])
      BY <1>6, <2>3, CountsTyped DEF StagesLeft, Start, At
    <2>. QED
      BY <1>6, <2>3, <2>4, SameIssueNearer DEF Start, At, InHand
  <1>7. CASE StartRaises(p)
    <2> DEFINE r == [loop[p] EXCEPT !.at = "quarantine", !.late = Late(p)]
    <2>1. r.at = "quarantine" /\ r.begun = loop[p].begun
      BY <1>1 DEF Run
    <2>2. Becomes(p, r)
      BY <1>7 DEF StartRaises
    <2> HIDE DEF r
    <2>3. loop'[p].at = "quarantine" /\ loop'[p].begun = loop[p].begun
      BY <2>1, <2>2, BecomesSets
    <2>4. StagesLeft(loop'[p]) < StagesLeft(loop[p])
      BY <1>7, <2>3, CountsTyped DEF StagesLeft, StartRaises, At
    <2>. QED
      BY <1>7, <2>3, <2>4, SameIssueNearer DEF StartRaises, At, InHand
  <1>8. CASE Review(p)
    <2>1. PICK reviewed, approves, findings \in {loop[p].head, head[loop[p].issue]} \cup BOOLEAN :
            Becomes(p, [loop[p] EXCEPT !.at = AfterReview(p, reviewed, approves, findings),
                                       !.late = Late(p)])
      BY <1>8 DEF Review
    <2> DEFINE point == AfterReview(p, reviewed, approves, findings)
               r == [loop[p] EXCEPT !.at = point, !.late = Late(p)]
    <2>2. point \in {"quarantine", "check-merge", "fix"}
      BY DEF AfterReview
    <2> HIDE DEF point
    <2>3. r.at = point /\ r.begun = loop[p].begun /\ r.fixes = loop[p].fixes
      BY <1>1 DEF Run
    <2>4. Becomes(p, r)
      BY <2>1 DEF point
    <2> HIDE DEF r
    <2>5. /\ loop'[p].at = point /\ loop'[p].begun = loop[p].begun
          /\ FixesLeft(loop'[p]) = FixesLeft(loop[p])
      BY <2>3, <2>4, BecomesSets DEF FixesLeft
    <2>6. StagesLeft(loop'[p]) < StagesLeft(loop[p])
      BY <1>8, <2>2, <2>5, CountsTyped DEF StagesLeft, Review, At
    <2>. QED
      BY <1>8, <2>2, <2>5, <2>6, SameIssueNearer DEF Review, At, InHand
  <1>9. CASE Merge(p) \/ Quarantine(p)
    BY <1>9, SettlesNearer DEF Merge, Quarantine, At, InHand
  <1>10. CASE Fix(p)
    <2>1. PICK h \in Fixed(loop[p].issue) :
            Becomes(p, [loop[p] EXCEPT !.at = "check-review", !.head = h,
                                       !.fixes = @ + 1, !.late = Late(p)])
      BY <1>10 DEF Fix
    <2> DEFINE r == [loop[p] EXCEPT !.at = "check-review", !.head = h,
                                    !.fixes = @ + 1, !.late = Late(p)]
    <2>2. r.at = "check-review" /\ r.begun = loop[p].begun /\ r.fixes = loop[p].fixes + 1
      BY <1>1 DEF Run
    <2>3. Becomes(p, r)
      BY <2>1
    <2> HIDE DEF r
    <2>4. /\ loop'[p].at = "check-review" /\ loop'[p].begun = loop[p].begun
          /\ loop'[p].fixes = loop[p].fixes + 1
      BY <2>2, <2>3, BecomesSets
    <2>5. FixesLeft(loop'[p]) = FixesLeft(loop[p]) - 1
      BY <2>4, CountsTyped DEF FixesLeft
    <2>6. StagesLeft(loop'[p]) < StagesLeft(loop[p])
      BY <1>10, <2>4, <2>5, CountsTyped DEF StagesLeft, Fix, At
    <2>. QED
      BY <1>10, <2>4, <2>6, SameIssueNearer DEF Fix, At, InHand
  <1>11. CASE FixRaises(p) \/ MergeRaises(p) \/ Raises(p)
    BY <1>11, ReturnsNearer DEF FixRaises, MergeRaises, Raises, At, InHand
  <1>. QED
    BY <1>2, <1>3, <1>4, <1>5, <1>6, <1>7, <1>8, <1>9, <1>10, <1>11 DEF Step, Proceed

\* A process runs the loop exactly while its call of run is not over.
Attended == \A p \in Procs : Running(p) <=> act[p] = "runtime"

LEMMA AttendedStep == Typed /\ Attended /\ [Next]_vars => Attended'
  <1> SUFFICES ASSUME Typed, Attended, [Next]_vars
               PROVE  Attended'
    OBVIOUS
  <1>1. act \in [Procs -> Preflight \cup {"idle", "runtime"}]
    BY DEF Typed, TypeOK
  <1>2. CASE UNCHANGED vars
    BY <1>2 DEF vars, loopVars, Attended, Running, At
  <1>3. ASSUME NEW p \in Procs, Calls(p)
        PROVE  Attended'
    <2>1. CASE \E r \in {q \in Run : q.at = "top"} : Becomes(p, r) /\ ActBecomes(p, "runtime")
      BY <1>1, <2>1, BecomesSets DEF ActBecomes, Attended, Running, At
    <2>2. CASE Becomes(p, Idle) /\ ActBecomes(p, "idle")
      BY <1>1, <2>2, BecomesSets DEF ActBecomes, Attended, Running, At, Idle
    <2>3. CASE /\ loop' = loop /\ act[p] # "runtime"
               /\ \E point \in Preflight \cup {"idle"} : ActBecomes(p, point)
      BY <1>1, <2>3 DEF ActBecomes, Attended, Running, At, Preflight
    <2>4. ASSUME NEW issues \in SUBSET Issues, Begin(p, issues)
          PROVE  \E r \in {q \in Run : q.at = "top"} : Becomes(p, r)
      BY <2>4, IdleTyped DEF Begin, Run, Points
    <2>5. CASE RunQueue(p)
      BY <2>1, <2>4, <2>5 DEF RunQueue
    <2>6. CASE CheckStopAgain(p)
      BY <2>1, <2>3, <2>4, <2>6 DEF CheckStopAgain, GiveUp, Preflight
    <2>7. CASE Finish(p)
      BY <2>2, <2>7 DEF Finish, GiveUp
    <2>8. CASE Activate(p) \/ CheckStop(p) \/ Verify(p) \/ Probe(p) \/ Select(p)
             \/ PreflightRaises(p)
      BY <2>3, <2>8 DEF Activate, CheckStop, Verify, Probe, Select, PreflightRaises, GiveUp, Preflight, loopVars
    <2>. QED
      BY <1>3, <2>5, <2>6, <2>7, <2>8 DEF Calls, PreflightStep
  <1>4. ASSUME NEW p \in Procs, LoopStep(p)
        PROVE  Attended'
    <2>1. loop'[p].at # "idle"
      BY <1>4, StepShrinks DEF LoopStep, Onward
    <2>. QED
      BY <1>4, <2>1, StepRuns DEF LoopStep, Attended, Running, At
  <1>5. CASE World \/ Requeue
    <2>1. act' = act /\ \A q \in Procs : loop'[q].at = loop[q].at
      BY <1>5 DEF World, Push, RaiseStop, ClearStop, Requeue, Typed, TypeOK, LoopTypeOK, Run
    <2>. QED
      BY <2>1 DEF Attended, Running, At
  <1>. QED
    BY <1>2, <1>3, <1>4, <1>5, NextCases

\* Every step of a run brings it nearer its end, and no step of anybody else
\* takes it back: the limits on issues and fixes end every run.
THEOREM RunsGetNearer == Spec => RunsShrink
  <1> DEFINE Shrinks ==
        \A p \in Procs :
          Running(p) /\ loop'[p].at # "idle" =>
            \/ Nearer(loop'[p], loop[p])
            \/ /\ loop'[p].at = loop[p].at
               /\ loop'[p].begun = loop[p].begun /\ loop'[p].fixes = loop[p].fixes
  <1>1. Init => Attended
    <2> SUFFICES ASSUME Init, NEW p \in Procs
                 PROVE  ~Running(p) /\ act[p] # "runtime"
      BY DEF Attended
    <2>. QED
      BY DEF Init, LoopInit, Running, At, Idle
  <1>2. Typed /\ Attended /\ [Next]_vars => [Shrinks]_vars
    <2> SUFFICES ASSUME Typed, Attended, [Next]_vars, NEW p \in Procs, Running(p),
                        loop'[p].at # "idle"
                 PROVE  \/ Nearer(loop'[p], loop[p])
                        \/ /\ loop'[p].at = loop[p].at
                           /\ loop'[p].begun = loop[p].begun /\ loop'[p].fixes = loop[p].fixes
      OBVIOUS
    <2>1. CASE UNCHANGED vars
      BY <2>1 DEF vars, loopVars
    <2>2. ASSUME NEW q \in Procs, Calls(q)
          PROVE  loop'[p] = loop[p]
      <3>1. CASE loop' = loop
        BY <3>1
      <3>2. CASE act[q] # "runtime" /\ \E issues : Begin(q, issues)
        BY <3>2, BecomesSets DEF Attended, Begin
      <3>3. CASE Becomes(q, Idle)
        BY <3>3, BecomesSets DEF Idle
      <3>. QED
        BY <2>2, <3>1, <3>2, <3>3
           DEF Calls, PreflightStep, Activate, CheckStop, Verify, Probe, Select, CheckStopAgain,
               PreflightRaises, RunQueue, Finish, loopVars
    <2>3. ASSUME NEW q \in Procs, LoopStep(q)
          PROVE  Nearer(loop'[p], loop[p]) \/ loop'[p] = loop[p]
      BY <2>3, StepShrinks, StepRuns DEF LoopStep, Onward
    <2>4. CASE World \/ Requeue
      BY <2>4 DEF World, Push, RaiseStop, ClearStop, Requeue, Typed, TypeOK, LoopTypeOK, Run
    <2>. QED
      BY <2>1, <2>2, <2>3, <2>4, NextCases
  <1>. QED
    BY <1>1, <1>2, InitTyped, StepTyped, AttendedStep, PTL DEF Spec, RunsShrink
=============================================================================
