-------------------------- MODULE SupervisedActivation --------------------------
(***************************************************************************)
(* SupervisedProductionActivation (supervised_activation.py) with the      *)
(* signed reports of readiness.py, starting the production loop for one    *)
(* selected issue, next to operators who run the loop over the queue.      *)
(*                                                                         *)
(* The arguments of a run are chosen where it first reads them.  Main does *)
(* not occur: verify compares the report with the configuration it is      *)
(* given, and whether that names the present main is up to the operator.   *)
(***************************************************************************)
EXTENDS ProductionLoop

CONSTANTS
  Configs,      \* ReadinessConfigs, the repository SHA included
  MaxRequeues   \* bound on issues the operator puts back

ASSUME SupervisedAssumption ==
  Configs # {} /\ MaxRequeues \in Nat

VARIABLES
  act,        \* where the activation of each process is
  requeues

vars == <<loopVars, act, requeues>>

Preflight == {"stop", "verify", "probe", "select", "stop-again"}

TypeOK ==
  /\ LoopTypeOK
  /\ act \in [Procs -> Preflight \cup {"idle", "runtime"}]
  /\ requeues \in 0 .. MaxRequeues

Init ==
  /\ LoopInit
  /\ act = [p \in Procs |-> "idle"]
  /\ requeues = 0

-----------------------------------------------------------------------------

ActBecomes(p, point) == act' = [act EXCEPT ![p] = point]

\* The activation reports, or raises, without running anything.
GiveUp(p) == ActBecomes(p, "idle")

Activate(p) ==
  /\ act[p] = "idle"
  /\ ActBecomes(p, "stop")
  /\ UNCHANGED <<loopVars, requeues>>

CheckStop(p) ==
  /\ act[p] = "stop"
  /\ IF stop THEN GiveUp(p) ELSE ActBecomes(p, "verify")
  /\ UNCHANGED <<loopVars, requeues>>

\* ProductionReadinessGate.evaluate: READY if every gate, of the configuration
\* and of the probe, passed.
SignedReport(config, gates) ==
  [status |-> IF gates THEN "ready" ELSE "not_ready", config |-> config]

\* ProductionReadinessGate.verify: for this repository, SHA and digest, not
\* expired and signed with the key of the gate.
Accepts(report, config, fresh, signed) ==
  report.status = "ready" /\ report.config = config /\ fresh /\ signed

\* The operator brings any report with any configuration.
Verify(p) ==
  /\ act[p] = "verify"
  /\ \E made, given \in Configs, gates, fresh, signed \in BOOLEAN :
       IF Accepts(SignedReport(made, gates), given, fresh, signed)
       THEN ActBecomes(p, "probe")
       ELSE GiveUp(p)
  /\ UNCHANGED <<loopVars, requeues>>

\* has_active_job.
Probe(p) ==
  /\ act[p] = "probe"
  /\ IF \E q \in Procs : Running(q) THEN GiveUp(p) ELSE ActBecomes(p, "select")
  /\ UNCHANGED <<loopVars, requeues>>

\* A dry run ends here.
Select(p) ==
  /\ act[p] = "select"
  /\ \E dry_run \in BOOLEAN : IF dry_run THEN GiveUp(p) ELSE ActBecomes(p, "stop-again")
  /\ UNCHANGED <<loopVars, requeues>>

\* run_selected_issue: the loop over a queue of the selected issue.
CheckStopAgain(p) ==
  /\ act[p] = "stop-again"
  /\ IF stop
     THEN GiveUp(p) /\ UNCHANGED loop
     ELSE ActBecomes(p, "runtime") /\ \E i \in Issues : Begin(p, {i})
  /\ UNCHANGED <<queue, github, stop, requeues>>

\* The probe or the source of the emergency stop raises.
PreflightRaises(p) ==
  /\ act[p] \in {"stop", "probe", "stop-again"}
  /\ GiveUp(p)
  /\ UNCHANGED <<loopVars, requeues>>

\* The operator runs the loop itself over the queue; it does not ask who else runs.
RunQueue(p) ==
  /\ act[p] = "idle"
  /\ ActBecomes(p, "runtime")
  /\ Begin(p, Issues)
  /\ UNCHANGED <<queue, github, stop, requeues>>

\* The run returned, or raised: so does the call that started it.
Finish(p) ==
  /\ At(p, "done")
  /\ Becomes(p, Idle)
  /\ GiveUp(p)
  /\ UNCHANGED <<queue, github, stop, requeues>>

\* The operator makes an issue ready again that is not merged.
Requeue ==
  /\ requeues < MaxRequeues
  /\ requeues' = requeues + 1
  /\ \E i \in Issues \ ready :
       /\ merged[i] = 0
       /\ ready' = ready \cup {i}
       /\ quarantined' = quarantined \ {i}
  /\ UNCHANGED <<github, stop, loop, act>>

LoopStep(p) == Step(p) /\ UNCHANGED <<act, requeues>>

World == (Push \/ RaiseStop \/ ClearStop) /\ UNCHANGED <<act, requeues>>

PreflightStep(p) ==
  \/ CheckStop(p) \/ Verify(p) \/ Probe(p) \/ Select(p) \/ CheckStopAgain(p)
  \/ PreflightRaises(p)

Next ==
  \/ \E p \in Procs :
       Activate(p) \/ PreflightStep(p) \/ RunQueue(p) \/ LoopStep(p) \/ Finish(p)
  \/ World
  \/ Requeue

Spec == Init /\ [][Next]_vars

QueueRun == \E p \in Procs : RunQueue(p)

QueueGiven == \E p \in Procs : Take(p) /\ UNCHANGED <<act, requeues>>

StopAnswered ==
  \E p \in Procs : loop[p].scope = Issues /\ Top(p) /\ UNCHANGED <<act, requeues>>

\* Calls return, the queue and, at the top of a run over the queue, the source of
\* the emergency stop answer now and then, and somebody keeps running that loop.
FairSpec ==
  /\ Spec
  /\ \A p \in Procs :
       WF_vars(PreflightStep(p)) /\ WF_vars(LoopStep(p)) /\ WF_vars(Finish(p))
  /\ SF_vars(QueueGiven) /\ SF_vars(StopAnswered) /\ SF_vars(QueueRun)

-----------------------------------------------------------------------------

\* A run that has an issue of the quarantine in hand had it before another run put it
\* there: no run takes such an issue up, before an operator makes it ready, and the
\* run that gives an issue up is done with it (_run_issue, which tells the queue and
\* no other run).
QuarantineHolds ==
  [][\A p \in Procs :
       loop'[p].issue \in quarantined' =>
         /\ loop[p].issue = loop'[p].issue
         /\ \/ loop[p].issue \in quarantined
            \/ \E q \in Procs \ {p} :
                 At(q, "quarantine") /\ loop[q].issue = loop[p].issue]_vars

\* Whatever reviews, fixes, pushes and refusals come, no step takes a run back: it
\* gets nearer its end, in an order without infinite descents, or stays where it
\* is.  Why max_issues_per_run and max_fix_iterations end a run (_run_issue).
RunsShrink ==
  [][\A p \in Procs :
       Running(p) /\ loop'[p].at # "idle" =>
         \/ Nearer(loop'[p], loop[p])
         \/ /\ loop'[p].at = loop[p].at
            /\ loop'[p].begun = loop[p].begun /\ loop'[p].fixes = loop[p].fixes]_vars

\* Every run returns, however the Reviewer and the Worker disagree.
RunsEnd == \A p \in Procs : Running(p) ~> ~Running(p)

\* Once the stop stays off every ready issue is taken off the queue: one that raises,
\* halts or goes to quarantine does not hold up the others, and neither do the
\* activations and runs next to it.
QueueDrains == <>[]~stop => <>[](ready = {})

-----------------------------------------------------------------------------
(* What the repository says of the activation and the code does not do.    *)

\* A run of one selected issue, started by an activation that found no active job.
Activated(p) == \E i \in Issues : loop[p].scope = {i}

\* docs/autonomy-v2-supervised-activation.md: "One active production job."
OneActiveJob == \A p, q \in Procs : p # q => ~(Activated(p) /\ Activated(q))
=============================================================================
