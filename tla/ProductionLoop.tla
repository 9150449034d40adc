----------------------------- MODULE ProductionLoop -----------------------------
(***************************************************************************)
(* GuardedProductionLoop (production_loop.py): a run takes issues off the  *)
(* queue and takes each from the Worker through reviews and fixes to the   *)
(* Merger, looking at the emergency stop between the stages.               *)
(*                                                                         *)
(* Queue, Worker, Reviewer and Merger are adapters the repository declares *)
(* and does not implement.  They are what their calls need them to be: any *)
(* of them may raise, a head is the number of a push to the pull request   *)
(* of an issue, and GitHub merges a head only while it is the current one. *)
(* The specification is that of SupervisedActivation, which starts runs.   *)
(***************************************************************************)
EXTENDS Naturals

CONSTANTS
  Procs,       \* processes that run the loop
  Issues,
  MaxHead,     \* bound on the pushes to a pull request
  MaxFix,      \* max_fix_iterations
  MaxIssues,   \* max_issues_per_run
  None

ASSUME ProductionLoopAssumption ==
  /\ MaxHead \in Nat \ {0} /\ MaxFix \in Nat /\ MaxIssues \in Nat \ {0}
  /\ None \notin Issues

VARIABLES
  ready,        \* issues the queue may hand out
  quarantined,  \* issues in quarantine
  head,         \* the current head of the pull request of each issue, 0 for none
  merged,       \* the head that was merged, 0 for none
  approved,     \* history: reviewed heads that were approved
  stop,         \* the emergency stop
  loop          \* what each run is doing

github == <<head, merged, approved>>
queue == <<ready, quarantined>>
loopVars == <<ready, quarantined, head, merged, approved, stop, loop>>

\* The number of a push to a pull request, which is its head; 0 for none.
Pushes == 0 .. MaxHead

\* Points of a run: between adapter calls, before a call, and returned.
Points == {"top", "check-start", "check-review", "check-merge",
           "take", "start", "review", "fix", "merge", "quarantine", "done"}

\* scope: the issues the queue of the run offers; late: history, the calls of
\* Worker, Reviewer and Merger it began since the stop was raised.
Run == [at : Points \cup {"idle"}, scope : SUBSET Issues, begun : 0 .. MaxIssues,
        issue : Issues \cup {None}, head : Pushes, fixes : 0 .. MaxFix, late : 0 .. 2]

Idle == [at |-> "idle", scope |-> {}, begun |-> 0, issue |-> None, head |-> 0,
         fixes |-> 0, late |-> 0]

LoopTypeOK ==
  /\ ready \subseteq Issues /\ quarantined \subseteq Issues
  /\ head \in [Issues -> Pushes] /\ merged \in [Issues -> Pushes]
  /\ approved \subseteq Issues \X Pushes
  /\ stop \in BOOLEAN
  /\ loop \in [Procs -> Run]

LoopInit ==
  /\ ready = Issues /\ quarantined = {}
  /\ head = [i \in Issues |-> 0] /\ merged = [i \in Issues |-> 0]
  /\ approved = {}
  /\ stop = FALSE
  /\ loop = [p \in Procs |-> Idle]

-----------------------------------------------------------------------------

At(p, point) == loop[p].at = point

Running(p) == ~At(p, "idle")

Becomes(p, r) == loop' = [loop EXCEPT ![p] = r]

Goto(p, point) == Becomes(p, [loop[p] EXCEPT !.at = point])

\* The calls begun since the stop was raised, with the one that begins.
Late(p) == IF stop THEN loop[p].late + 1 ELSE 0

Begin(p, issues) == Becomes(p, [Idle EXCEPT !.at = "top", !.scope = issues])

\* _run_issue returned: whatever became of the issue, the run looks for another.
Settle(p) == Becomes(p, [loop[p] EXCEPT !.at = "top", !.issue = None, !.head = 0, !.fixes = 0])

\* run returned, or raised.
Return(p) == Becomes(p, [Idle EXCEPT !.at = "done"])

\* Mutant: a run takes one issue less than max_issues_per_run.
TopOneShort(p) ==
  /\ At(p, "top")
  /\ IF loop[p].begun < MaxIssues - 1 /\ ~stop THEN Goto(p, "take") ELSE Return(p)
  /\ UNCHANGED <<queue, github, stop>>

Top(p) ==
  /\ At(p, "top")
  /\ IF loop[p].begun < MaxIssues /\ ~stop THEN Goto(p, "take") ELSE Return(p)
  /\ UNCHANGED <<queue, github, stop>>

\* next_ready_issue takes the issue it returns off the queue, or returns none.
Take(p) ==
  /\ At(p, "take")
  /\ \E i \in ready \cap loop[p].scope :
       /\ ready' = ready \ {i}
       /\ Becomes(p, [loop[p] EXCEPT !.at = "check-start", !.issue = i, !.begun = @ + 1])
  /\ UNCHANGED <<quarantined, github, stop>>

TakeNone(p) ==
  /\ At(p, "take")
  /\ ready \cap loop[p].scope = {}
  /\ Return(p)
  /\ UNCHANGED <<queue, github, stop>>

\* A stop ends the issue, not the run: the run looks again at its top.
CheckStart(p) ==
  /\ At(p, "check-start")
  /\ IF stop THEN Settle(p) ELSE Goto(p, "start")
  /\ UNCHANGED <<queue, github, stop>>

\* The head of a pull request that is open.
Opened(i) == IF head[i] = 0 THEN 1 ELSE head[i]

\* worker.start opens the pull request or finds it open.
Start(p) ==
  /\ At(p, "start")
  /\ LET i == loop[p].issue
     IN  /\ head' = [head EXCEPT ![i] = Opened(i)]
         /\ Becomes(p, [loop[p] EXCEPT !.at = "check-review", !.head = Opened(i),
                                       !.late = Late(p)])
  /\ UNCHANGED <<queue, merged, approved, stop>>

\* worker.start raises, before or after it opened the pull request.
StartRaises(p) ==
  /\ At(p, "start")
  /\ LET i == loop[p].issue
     IN  \E h \in {head[i], Opened(i)} : head' = [head EXCEPT ![i] = h]
  /\ Becomes(p, [loop[p] EXCEPT !.at = "quarantine", !.late = Late(p)])
  /\ UNCHANGED <<queue, merged, approved, stop>>

\* Mutant: the stop is looked at before the first review only.
CheckReviewOnce(p) ==
  /\ At(p, "check-review")
  /\ IF stop /\ loop[p].fixes = 0 THEN Settle(p) ELSE Goto(p, "review")
  /\ UNCHANGED <<queue, github, stop>>

CheckReview(p) ==
  /\ At(p, "check-review")
  /\ IF stop THEN Settle(p) ELSE Goto(p, "review")
  /\ UNCHANGED <<queue, github, stop>>

\* Mutant: one fix more than max_fix_iterations.
AfterReviewOneMore(p, reviewed, approves, findings) ==
  IF reviewed # loop[p].head THEN "quarantine"
  ELSE IF approves THEN "check-merge"
  ELSE IF loop[p].fixes > MaxFix \/ ~findings THEN "quarantine"
  ELSE "fix"

\* Where a review of a head leads: another head than the expected one, no fix
\* left or nothing to fix end in quarantine.
AfterReview(p, reviewed, approves, findings) ==
  IF reviewed # loop[p].head THEN "quarantine"
  ELSE IF approves THEN "check-merge"
  ELSE IF loop[p].fixes >= MaxFix \/ ~findings THEN "quarantine"
  ELSE "fix"

\* The Reviewer looks at the expected head or at the one it finds.
Review(p) ==
  /\ At(p, "review")
  /\ LET i == loop[p].issue
     IN  \E reviewed \in {loop[p].head, head[i]}, approves, findings \in BOOLEAN :
           /\ approved' = IF approves THEN approved \cup {<<i, reviewed>>} ELSE approved
           /\ Becomes(p, [loop[p] EXCEPT !.at = AfterReview(p, reviewed, approves, findings),
                                         !.late = Late(p)])
  /\ UNCHANGED <<queue, head, merged, stop>>

CheckMerge(p) ==
  /\ At(p, "check-merge")
  /\ IF stop THEN Settle(p) ELSE Goto(p, "merge")
  /\ UNCHANGED <<queue, github, stop>>

\* GitHub merges the expected head if it is the current one.
MergeHead(p) ==
  LET i == loop[p].issue
  IN  /\ head[i] = loop[p].head /\ merged[i] = 0
      /\ merged' = [merged EXCEPT ![i] = loop[p].head]

Merge(p) ==
  /\ At(p, "merge")
  /\ MergeHead(p)
  /\ Settle(p)
  /\ UNCHANGED <<queue, head, approved, stop>>

\* The merge is refused, or its answer is lost.
MergeRaises(p) ==
  /\ At(p, "merge")
  /\ MergeHead(p) \/ UNCHANGED merged
  /\ Return(p)
  /\ UNCHANGED <<queue, head, approved, stop>>

\* The heads apply_fixes may come back with: a push of its own, unless there is
\* nothing to push.
Fixed(i) == IF head[i] < MaxHead /\ merged[i] = 0 THEN {head[i], head[i] + 1} ELSE {head[i]}

\* Mutant: what was fixed is merged without another review.
FixUnreviewed(p) ==
  /\ At(p, "fix")
  /\ \E h \in Fixed(loop[p].issue) :
       /\ head' = [head EXCEPT ![loop[p].issue] = h]
       /\ Becomes(p, [loop[p] EXCEPT !.at = "check-merge", !.head = h,
                                     !.fixes = @ + 1, !.late = Late(p)])
  /\ UNCHANGED <<queue, merged, approved, stop>>

\* Mutant: the fixes are not counted.
FixUncounted(p) ==
  /\ At(p, "fix")
  /\ \E h \in Fixed(loop[p].issue) :
       /\ head' = [head EXCEPT ![loop[p].issue] = h]
       /\ Becomes(p, [loop[p] EXCEPT !.at = "check-review", !.head = h, !.late = Late(p)])
  /\ UNCHANGED <<queue, merged, approved, stop>>

Fix(p) ==
  /\ At(p, "fix")
  /\ \E h \in Fixed(loop[p].issue) :
       /\ head' = [head EXCEPT ![loop[p].issue] = h]
       /\ Becomes(p, [loop[p] EXCEPT !.at = "check-review", !.head = h,
                                     !.fixes = @ + 1, !.late = Late(p)])
  /\ UNCHANGED <<queue, merged, approved, stop>>

\* apply_fixes raises, before or after the push: the run ends, without a
\* quarantine.
FixRaises(p) ==
  /\ At(p, "fix")
  /\ \E h \in Fixed(loop[p].issue) : head' = [head EXCEPT ![loop[p].issue] = h]
  /\ Return(p)
  /\ UNCHANGED <<queue, merged, approved, stop>>

\* Mutant: the run goes on with an issue in quarantine.
QuarantineGoesOn(p) ==
  /\ At(p, "quarantine")
  /\ quarantined' = quarantined \cup {loop[p].issue}
  /\ ready' = ready \ {loop[p].issue}
  /\ Goto(p, "check-merge")
  /\ UNCHANGED <<github, stop>>

\* An issue in quarantine is not ready.
Quarantine(p) ==
  /\ At(p, "quarantine")
  /\ quarantined' = quarantined \cup {loop[p].issue}
  /\ ready' = ready \ {loop[p].issue}
  /\ Settle(p)
  /\ UNCHANGED <<github, stop>>

\* What the queue, the Reviewer or the source of the emergency stop raises ends the
\* run and leaves the issue as it is.
Raises(p) ==
  /\ loop[p].at \in {"top", "check-start", "check-review", "check-merge",
                    "take", "review", "quarantine"}
  /\ Return(p)
  /\ UNCHANGED <<queue, github, stop>>

\* Every step of a run whose adapters answer.
Proceed(p) ==
  \/ Top(p) \/ Take(p) \/ TakeNone(p) \/ CheckStart(p) \/ Start(p)
  \/ CheckReview(p) \/ Review(p) \/ CheckMerge(p) \/ Merge(p) \/ Fix(p) \/ Quarantine(p)

Step(p) == Proceed(p) \/ StartRaises(p) \/ FixRaises(p) \/ MergeRaises(p) \/ Raises(p)

-----------------------------------------------------------------------------

\* Somebody else pushes to an open pull request.
Push ==
  /\ \E i \in Issues :
       /\ head[i] \in 1 .. MaxHead - 1 /\ merged[i] = 0
       /\ head' = [head EXCEPT ![i] = @ + 1]
  /\ UNCHANGED <<queue, merged, approved, stop, loop>>

RaiseStop ==
  /\ ~stop
  /\ stop' = TRUE
  /\ UNCHANGED <<queue, github, loop>>

ClearStop ==
  /\ stop
  /\ stop' = FALSE
  /\ loop' = [p \in Procs |-> [loop[p] EXCEPT !.late = 0]]
  /\ UNCHANGED <<queue, github>>

-----------------------------------------------------------------------------

\* A head is merged only if a review of exactly this head approved it, however
\* runs, fixes and pushes of others alternate (_run_issue).
MergedHeadWasApproved == \A i \in Issues : merged[i] # 0 => <<i, merged[i]>> \in approved

\* Once the stop is raised a run begins at most one more call of Worker,
\* Reviewer or Merger, and then at most the fixes a review asks for, which
\* follow it with no look at the stop; it never merges after another call.
StopObeyed ==
  \A p \in Procs :
    /\ loop[p].at \in {"start", "review", "merge"} => loop[p].late = 0
    /\ At(p, "fix") => loop[p].late <= 1

\* What a run still has before it, the issues first: a run that returns to its
\* top is done with an issue, and within an issue every step leads to a later
\* stage, or spends one of the fixes.
IssuesLeft(r) == IF r.at \in {"idle", "done"} THEN 0 ELSE MaxIssues - r.begun

FixesLeft(r) == MaxFix - r.fixes

StagesLeft(r) ==
  CASE r.at \in {"idle", "done"}         -> 0
    [] r.at = "take"                     -> 1
    [] r.at = "top"                      -> 2
    [] r.at \in {"merge", "quarantine"}  -> 3
    [] r.at = "check-merge"              -> 4
    [] r.at = "fix"                      -> 4 + 3 * FixesLeft(r)
    [] r.at = "review"                   -> 5 + 3 * FixesLeft(r)
    [] r.at = "check-review"             -> 6 + 3 * FixesLeft(r)
    [] r.at = "start"                    -> 7 + 3 * FixesLeft(r)
    [] r.at = "check-start"              -> 8 + 3 * FixesLeft(r)

\* The run r is nearer its end than the run s.
Nearer(r, s) ==
  \/ IssuesLeft(r) < IssuesLeft(s)
  \/ IssuesLeft(r) = IssuesLeft(s) /\ StagesLeft(r) < StagesLeft(s)
=============================================================================
