--------------------------- MODULE UnattendedProofs ---------------------------
(***************************************************************************)
(* Theorems about Unattended for any number of processes, any TTL and any  *)
(* number of cycles.                                                       *)
(***************************************************************************)
EXTENDS Unattended, FiniteSetTheorems, TLAPS

\* A run that has not left its loop may still record a cycle.
RoomLeft(r) ==
  r.at \notin {"release", "unlink", "load-health", "save-health"} => r.records < MaxCycles

Typed == TypeOK /\ \A p \in Procs : RoomLeft(run[p])

LEMMA ModRange ==
  ASSUME NEW n \in Int
  PROVE  n % Modulus \in 0 .. Modulus - 1
  BY UnattendedAssumption

LEMMA IdleTyped == Idle \in Run /\ RoomLeft(Idle)
  <1>1. 0 \in 0 .. Modulus - 1
    BY UnattendedAssumption
  <1>. QED
    BY <1>1, UnattendedAssumption DEF Idle, Run, Points, RoomLeft

\* A step that sets the run of one process keeps the runs well-formed.
LEMMA BecomesTyped ==
  ASSUME Typed, NEW p \in Procs, NEW r \in Run, Becomes(p, r), RoomLeft(r)
  PROVE  /\ run' \in [Procs -> Run]
         /\ \A q \in Procs : RoomLeft(run'[q])
         /\ run'[p] = r
         /\ \A q \in Procs \ {p} : run'[q] = run[q]
  BY DEF Becomes, Typed, TypeOK

LEMMA GotoTyped ==
  ASSUME Typed, NEW p \in Procs, NEW point \in Points, Goto(p, point),
         RoomLeft([run[p] EXCEPT !.at = point])
  PROVE  run' \in [Procs -> Run] /\ \A q \in Procs : RoomLeft(run'[q])
  <1>1. [run[p] EXCEPT !.at = point] \in Run
    BY DEF Typed, TypeOK, Run
  <1>. QED
    BY <1>1, BecomesTyped DEF Goto

LEMMA ReportTyped ==
  ASSUME Typed, NEW p \in Procs, Report(p)
  PROVE  run' \in [Procs -> Run] /\ \A q \in Procs : RoomLeft(run'[q])
  <1> DEFINE r == [Idle EXCEPT !.at = "load-health", !.records = run[p].records]
  <1>1. run[p].records \in 0 .. MaxCycles
    BY DEF Typed, TypeOK, Run
  <1>2. r \in Run
    BY <1>1, IdleTyped DEF Run, Points
  <1>3. RoomLeft(r)
    BY <1>2 DEF RoomLeft, Run
  <1>. QED
    BY <1>2, <1>3, BecomesTyped DEF Report

LEMMA LeaveTyped ==
  ASSUME Typed, NEW p \in Procs, Leave(p)
  PROVE  /\ run' \in [Procs -> Run] /\ \A q \in Procs : RoomLeft(run'[q])
         /\ owed' \in 0 .. Modulus - 1
  <1>1. CASE run[p].raised
    <2>1. owed - run[p].records \in Int
      BY UnattendedAssumption DEF Typed, TypeOK, Run
    <2>. QED
      BY <1>1, <2>1, ModRange, IdleTyped, BecomesTyped DEF Leave
  <1>2. CASE ~run[p].raised
    BY <1>2, ReportTyped DEF Leave, Typed, TypeOK
  <1>. QED
    BY <1>1, <1>2

LEMMA RecordTyped ==
  ASSUME Typed, NEW p \in Procs, NEW point \in {"release", "heartbeat"}, Record(p, point),
         run[p].records < MaxCycles,
         point = "heartbeat" => run[p].records + 1 < MaxCycles
  PROVE  /\ run' \in [Procs -> Run] /\ \A q \in Procs : RoomLeft(run'[q])
         /\ owed' \in 0 .. Modulus - 1
  <1> DEFINE r == [run[p] EXCEPT !.at = point, !.records = @ + 1, !.standing = {}]
  <1>1. run[p] \in Run /\ run[p].records \in 0 .. MaxCycles
    BY DEF Typed, TypeOK, Run
  <1>2. run[p].records + 1 \in 0 .. MaxCycles
    BY <1>1, UnattendedAssumption
  <1>3. r \in Run
    BY <1>1, <1>2 DEF Run, Points, Holds
  <1>4. RoomLeft(r)
    BY <1>1 DEF RoomLeft, Run
  <1>5. owed + 1 \in Int
    BY UnattendedAssumption DEF Typed, TypeOK
  <1>. QED
    BY <1>3, <1>4, <1>5, ModRange, BecomesTyped DEF Record

LEMMA InitTyped == Init => Typed
  <1>1. 0 \in 0 .. Modulus - 1
    BY UnattendedAssumption
  <1>2. FreshControl \in SchedulerControl
    BY DEF FreshControl, SchedulerControl
  <1>. QED
    BY <1>1, <1>2, IdleTyped, UnattendedAssumption DEF Init, Typed, TypeOK

\* Every step but the ticks keeps the runs well-formed, one process at a time.
LEMMA StepTyped == Typed /\ [Next]_vars => Typed'
  <1> SUFFICES ASSUME Typed, [Next]_vars
               PROVE  Typed'
    OBVIOUS
  <1> USE UnattendedAssumption
  <1>0. /\ TypeOK
        /\ \A p \in Procs : run[p] \in Run /\ RoomLeft(run[p])
    BY DEF Typed, TypeOK
  <1>1. ASSUME NEW p \in Procs, Start(p)
        PROVE  Typed'
    <2>1. PICK mode \in Modes : Becomes(p, [run[p] EXCEPT !.at = "verify", !.mode = mode])
      BY <1>1 DEF Start
    <2> DEFINE r == [run[p] EXCEPT !.at = "verify", !.mode = mode]
    <2>2. r \in Run /\ RoomLeft(r)
      BY <1>0, <1>1 DEF Run, Points, RoomLeft, Start, At
    <2>. QED
      BY <1>0, <1>1, <2>1, <2>2, BecomesTyped DEF Start, Typed, TypeOK, files, operator, faults
  <1>2. ASSUME NEW p \in Procs, Verify(p)
        PROVE  Typed'
    <2>1. RoomLeft([run[p] EXCEPT !.at = "stop"])
      BY <1>0, <1>2 DEF Verify, At, RoomLeft, Run
    <2>. QED
      BY <1>0, <1>2, <2>1, GotoTyped DEF Verify, Points, Typed, TypeOK, files, operator, faults
  <1>3. ASSUME NEW p \in Procs, Refuse(p)
        PROVE  Typed'
    BY <1>0, <1>3, IdleTyped, BecomesTyped DEF Refuse, Typed, TypeOK, files, operator, faults
  <1>4. ASSUME NEW p \in Procs, CheckStopFirst(p)
        PROVE  Typed'
    <2>1. RoomLeft([run[p] EXCEPT !.at = "acquire"])
      BY <1>0, <1>4 DEF CheckStopFirst, At, RoomLeft, Run
    <2>. QED
      BY <1>0, <1>4, <2>1, GotoTyped, ReportTyped
      DEF CheckStopFirst, Points, Typed, TypeOK, files, operator, faults
  <1>5. ASSUME NEW p \in Procs, Acquire(p)
        PROVE  Typed'
    <2> DEFINE r == [run[p] EXCEPT !.at = "write-lease", !.beat = 0]
    <2>a. 0 \in 0 .. Ttl /\ "write-lease" \in Points
      BY DEF Points
    <2>b. run[p].at = "acquire"
      BY <1>5 DEF Acquire, At
    <2>1. r \in Run /\ RoomLeft(r)
      BY <1>0, <2>a, <2>b DEF Run, RoomLeft
    <2>. QED
      BY <1>0, <1>5, <2>1, BecomesTyped, ReportTyped
      DEF Acquire, Opens, Typed, TypeOK, files, operator
  <1>6. ASSUME NEW p \in Procs, WriteLease(p)
        PROVE  Typed'
    <2>1. RoomLeft([run[p] EXCEPT !.at = "heartbeat"])
      BY <1>0, <1>6 DEF WriteLease, At, RoomLeft, Run
    <2>2. lease' \in FileLeaseRecord
      BY <1>0, <1>6 DEF WriteLease, FileLeaseRecord, Run
    <2>. QED
      BY <1>0, <1>6, <2>1, <2>2, GotoTyped
      DEF WriteLease, Points, Holds, Typed, TypeOK, operator, faults
  <1>7. ASSUME NEW p \in Procs, Heartbeat(p)
        PROVE  Typed'
    <2> DEFINE r == [run[p] EXCEPT !.at = "write-heartbeat", !.standing = Demands(p)]
               s == [run[p] EXCEPT !.at = "release", !.raised = TRUE]
    <2>1. r \in Run /\ RoomLeft(r)
      BY <1>0, <1>7 DEF Heartbeat, At, Run, Points, Holds, RoomLeft, Demands
    <2>2. s \in Run /\ RoomLeft(s)
      BY <1>0, <1>7 DEF Heartbeat, At, Run, Points, Holds, RoomLeft
    <2>3. Becomes(p, r) \/ Becomes(p, s)
      BY <1>7 DEF Heartbeat
    <2>4. /\ UNCHANGED <<lease, counted, owed, control, stop, died, crashes>>
          /\ overlapped' \subseteq overlapped \cup {"lease"}
      BY <1>7 DEF Heartbeat, Opens, files, operator
    <2> HIDE DEF r, s
    <2>. QED
      BY <1>0, <2>1, <2>2, <2>3, <2>4, BecomesTyped DEF Typed, TypeOK
  <1>8. ASSUME NEW p \in Procs, WriteHeartbeat(p)
        PROVE  Typed'
    <2> DEFINE r == [run[p] EXCEPT !.at = "check-stop", !.beat = 0]
    <2>a. 0 \in 0 .. Ttl /\ "check-stop" \in Points
      BY DEF Points, Holds
    <2>b. run[p].at = "write-heartbeat"
      BY <1>8 DEF WriteHeartbeat, At
    <2>1. r \in Run /\ RoomLeft(r)
      BY <1>0, <2>a, <2>b DEF Run, RoomLeft
    <2>2. lease' \in FileLeaseRecord
      BY <1>8 DEF WriteHeartbeat, FileLeaseRecord
    <2>. QED
      BY <1>0, <1>8, <2>1, <2>2, BecomesTyped DEF WriteHeartbeat, Typed, TypeOK, operator, faults
  <1>9. ASSUME NEW p \in Procs, CheckStop(p)
        PROVE  Typed'
    <2>1. \A point \in {"release", "check-control"} : RoomLeft([run[p] EXCEPT !.at = point])
      BY <1>0, <1>9 DEF CheckStop, At, RoomLeft, Run
    <2>. QED
      BY <1>0, <1>9, <2>1, GotoTyped
      DEF CheckStop, Points, Holds, Typed, TypeOK, files, operator, faults
  <1>10. ASSUME NEW p \in Procs, CheckControl(p)
        PROVE  Typed'
    <2>1. \A point \in {"release", "cycle"} : RoomLeft([run[p] EXCEPT !.at = point])
      BY <1>0, <1>10 DEF CheckControl, At, RoomLeft, Run
    <2>2. run[p].records < MaxCycles
      BY <1>0, <1>10 DEF CheckControl, At, RoomLeft
    <2>3. \/ Goto(p, "release") /\ UNCHANGED owed
          \/ Goto(p, "cycle") /\ UNCHANGED owed
          \/ Record(p, "release")
      BY <1>10 DEF CheckControl
    <2>4. run' \in [Procs -> Run] /\ (\A q \in Procs : RoomLeft(run'[q])) /\ owed' \in 0 .. Modulus - 1
      BY <1>0, <2>1, <2>2, <2>3, GotoTyped, RecordTyped DEF Points, Holds, TypeOK
    <2>. QED
      BY <1>0, <1>10, <2>4 DEF CheckControl, Typed, TypeOK, operator, faults
  <1>11. ASSUME NEW p \in Procs, RunCycle(p)
        PROVE  Typed'
    <2>1. run[p].records < MaxCycles
      BY <1>0, <1>11 DEF RunCycle, At, RoomLeft
    <2>. QED
      BY <1>0, <1>11, <2>1, RecordTyped DEF RunCycle, Typed, TypeOK, operator, faults
  <1>12. ASSUME NEW p \in Procs, Release(p)
        PROVE  Typed'
    <2>1. RoomLeft([run[p] EXCEPT !.at = "unlink"])
      BY <1>0 DEF RoomLeft, Run
    <2>. QED
      BY <1>0, <1>12, <2>1, GotoTyped, LeaveTyped
      DEF Release, Opens, Points, Holds, Typed, TypeOK, operator
  <1>13. ASSUME NEW p \in Procs, Unlink(p)
        PROVE  Typed'
    BY <1>0, <1>13, LeaveTyped DEF Unlink, Typed, TypeOK, operator, faults
  <1>14. ASSUME NEW p \in Procs, LoadHealth(p)
        PROVE  Typed'
    <2> DEFINE r == [run[p] EXCEPT !.at = "save-health", !.prior = counted]
    <2>1. r \in Run /\ RoomLeft(r)
      BY <1>0 DEF Run, Points, RoomLeft, TypeOK
    <2>. QED
      BY <1>0, <1>14, <2>1, BecomesTyped
      DEF LoadHealth, Opens, Typed, TypeOK, files, operator
  <1>15. ASSUME NEW p \in Procs, SaveHealth(p)
        PROVE  Typed'
    <2>1. run[p].prior + run[p].records \in Int
      BY <1>0 DEF Run
    <2>. QED
      BY <1>0, <1>15, <2>1, ModRange, IdleTyped, BecomesTyped
      DEF SaveHealth, Typed, TypeOK, operator, faults
  <1>16. ASSUME NEW p \in Procs, Command(p)
        PROVE  Typed'
    <2> DEFINE r == [run[p] EXCEPT !.standing = @ \cap Demands(p)']
    <2>1. r \in Run /\ RoomLeft(r)
      BY <1>0 DEF Run, RoomLeft
    <2>a. control[p] \in SchedulerControl
      BY <1>0 DEF TypeOK
    <2>b. \A c \in {[control[p] EXCEPT !.paused = TRUE],
                   [control[p] EXCEPT !.paused = FALSE, !.draining = FALSE],
                   [control[p] EXCEPT !.draining = TRUE],
                   [control[p] EXCEPT !.shutdown_requested = TRUE]} : c \in SchedulerControl
      BY <2>a DEF SchedulerControl
    <2>2. control' \in [Procs -> SchedulerControl]
      BY <1>0, <1>16, <2>b DEF Command, TypeOK
    <2>. QED
      BY <1>0, <1>16, <2>1, <2>2, BecomesTyped
      DEF Command, KeepStanding, Typed, TypeOK, files, faults
  <1>17. ASSUME NEW p \in Procs, SetStop(p)
        PROVE  Typed'
    <2> DEFINE r == [run[p] EXCEPT !.standing = @ \cap Demands(p)']
    <2>1. r \in Run /\ RoomLeft(r)
      BY <1>0 DEF Run, RoomLeft
    <2>2. stop' \in [Procs -> BOOLEAN]
      BY <1>0, <1>17 DEF SetStop, TypeOK
    <2>. QED
      BY <1>0, <1>17, <2>1, <2>2, BecomesTyped
      DEF SetStop, KeepStanding, Typed, TypeOK, files, faults
  <1>18. ASSUME NEW p \in Procs, Crash(p)
        PROVE  Typed'
    <2>1. owed - run[p].records \in Int
      BY <1>0 DEF TypeOK, Run
    <2>2. control' \in [Procs -> SchedulerControl]
      BY <1>0, <1>18 DEF Crash, TypeOK, SchedulerControl, FreshControl
    <2>. QED
      BY <1>0, <1>18, <2>1, <2>2, ModRange, IdleTyped, BecomesTyped DEF Crash, Typed, TypeOK
  <1>19. ASSUME Tick
        PROVE  Typed'
    <2>1. \A p \in Procs : /\ [run[p] EXCEPT !.beat = Older(@)] \in Run
                           /\ RoomLeft([run[p] EXCEPT !.beat = Older(@)])
      BY <1>0 DEF Run, Older, RoomLeft
    <2>2. lease' \in FileLeaseRecord \cup {None}
      BY <1>0, <1>19 DEF Tick, TypeOK, FileLeaseRecord, Older
    <2>. QED
      BY <1>0, <1>19, <2>1, <2>2 DEF Tick, Typed, TypeOK, operator, faults
  <1>20. CASE UNCHANGED vars
    BY <1>0, <1>20 DEF vars, Typed, TypeOK
  <1>. QED
    BY <1>1, <1>2, <1>3, <1>4, <1>5, <1>6, <1>7, <1>8, <1>9, <1>10, <1>11, <1>12, <1>13, <1>14,
       <1>15, <1>16, <1>17, <1>18, <1>19, <1>20 DEF Next, Proceed

\* Every reachable state is well-formed.
THEOREM TypeCorrect == Spec => []TypeOK
  <1>1. Typed => TypeOK
    BY DEF Typed
  <1>. QED
    BY <1>1, InitTyped, StepTyped, PTL DEF Spec

-----------------------------------------------------------------------------
(* The lease file.                                                         *)

LEMMA BecomesSets ==
  ASSUME Typed, NEW p \in Procs, NEW r, Becomes(p, r)
  PROVE  run'[p] = r /\ \A q \in Procs \ {p} : run'[q] = run[q]
  BY DEF Becomes, Typed, TypeOK

LEMMA GotoSets ==
  ASSUME Typed, NEW p \in Procs, NEW point, Goto(p, point)
  PROVE  /\ run'[p].at = point /\ run'[p].beat = run[p].beat
         /\ \A q \in Procs \ {p} : run'[q] = run[q]
  <1>1. run[p] \in Run
    BY DEF Typed, TypeOK
  <1>. QED
    BY <1>1, BecomesSets DEF Goto, Run

LEMMA ReportSets ==
  ASSUME Typed, NEW p \in Procs, Report(p)
  PROVE  run'[p].at = "load-health" /\ \A q \in Procs \ {p} : run'[q] = run[q]
  <1>1. Idle \in Run
    BY IdleTyped
  <1>. QED
    BY <1>1, BecomesSets DEF Report, Run

LEMMA LeaveSets ==
  ASSUME Typed, NEW p \in Procs, Leave(p)
  PROVE  /\ run'[p].at \in {"idle", "load-health"}
         /\ \A q \in Procs \ {p} : run'[q] = run[q]
  BY ReportSets, BecomesSets DEF Leave, Idle

LEMMA RecordSets ==
  ASSUME Typed, NEW p \in Procs, NEW point, Record(p, point)
  PROVE  /\ run'[p].at = point /\ run'[p].beat = run[p].beat
         /\ \A q \in Procs \ {p} : run'[q] = run[q]
  <1> DEFINE r == [run[p] EXCEPT !.at = point, !.records = @ + 1, !.standing = {}]
  <1>1. run[p] \in Run
    BY DEF Typed, TypeOK
  <1>2. r.at = point /\ r.beat = run[p].beat
    BY <1>1 DEF Run
  <1>3. Becomes(p, r)
    BY DEF Record
  <1> HIDE DEF r
  <1>. QED
    BY <1>2, <1>3, BecomesSets

LEMMA WriteHeartbeatSets ==
  ASSUME Typed, NEW p \in Procs, WriteHeartbeat(p)
  PROVE  /\ lease' = [owner |-> Owner[p], age |-> 0]
         /\ run'[p].at = "check-stop" /\ run'[p].beat = 0
         /\ \A q \in Procs \ {p} : run'[q] = run[q]
  <1> DEFINE r == [run[p] EXCEPT !.at = "check-stop", !.beat = 0]
  <1>1. run[p] \in Run
    BY DEF Typed, TypeOK
  <1>2. r.at = "check-stop" /\ r.beat = 0
    BY <1>1 DEF Run
  <1>3. Becomes(p, r) /\ lease' = [owner |-> Owner[p], age |-> 0]
    BY DEF WriteHeartbeat
  <1> HIDE DEF r
  <1>. QED
    BY <1>2, <1>3, BecomesSets

OwnLease(p) == lease # None /\ lease.owner = Owner[p]

SameBeat(p) == run[p].at \in Holds /\ run'[p].beat = run[p].beat

\* Between the read and the write of a call on the lease file.
Calling == {"write-lease", "write-heartbeat", "unlink"}

\* What a step that leaves the lease file alone does to its process.
Quiet(p) ==
  /\ lease' = lease /\ died \subseteq died' /\ overlapped \subseteq overlapped'
  /\ \A q \in Procs \ {p} : run'[q] = run[q]
  /\ \/ /\ run'[p].at \notin Holds \cup Calling
        /\ run[p].at \in Holds => ~OwnLease(p) \/ p \in died'
     \/ run'[p].at = run[p].at /\ run'[p].beat = run[p].beat
     \/ run'[p].at \in Holds \ Calling /\ SameBeat(p)
     \/ /\ run'[p].at \in {"write-heartbeat", "unlink"}
        /\ SameBeat(p) /\ OwnLease(p) /\ Opens(p, "lease")
     \/ /\ run[p].at \notin Holds /\ run'[p].at = "write-lease"
        /\ MayTake(p) /\ Opens(p, "lease")

\* A step leaves the lease file alone, or writes it, or deletes it, or is a tick.
LEMMA Steps ==
  ASSUME Typed, Next
  PROVE  \/ \E p \in Procs : Quiet(p) \/ WriteLease(p) \/ WriteHeartbeat(p) \/ Unlink(p)
         \/ Tick
  <1>1. ASSUME NEW p \in Procs, Start(p) \/ Verify(p) \/ Refuse(p) \/ CheckStopFirst(p)
        PROVE  Quiet(p)
    <2>1. run[p] \in Run /\ run[p].at \notin Holds
      BY <1>1 DEF Typed, TypeOK, Start, Verify, Refuse, CheckStopFirst, At, Holds
    <2>2. lease' = lease /\ died' = died /\ overlapped' = overlapped
      BY <1>1 DEF Start, Verify, Refuse, CheckStopFirst, files, faults
    <2>3. /\ run'[p].at \in {"idle", "verify", "stop", "load-health", "acquire"}
          /\ \A q \in Procs \ {p} : run'[q] = run[q]
      <3>1. ASSUME NEW mode \in Modes, Becomes(p, [run[p] EXCEPT !.at = "verify", !.mode = mode])
            PROVE  run'[p].at = "verify" /\ \A q \in Procs \ {p} : run'[q] = run[q]
        <4> DEFINE r == [run[p] EXCEPT !.at = "verify", !.mode = mode]
        <4>1. r.at = "verify"
          BY <2>1 DEF Run
        <4> HIDE DEF r
        <4>. QED
          BY <3>1, <4>1, BecomesSets DEF r
      <3>2. CASE Start(p)
        BY <3>1, <3>2 DEF Start
      <3>3. CASE Verify(p)
        BY <3>3, GotoSets DEF Verify
      <3>4. CASE Refuse(p)
        BY <3>4, BecomesSets DEF Refuse, Idle
      <3>5. CASE CheckStopFirst(p)
        BY <3>5, GotoSets, ReportSets DEF CheckStopFirst
      <3>. QED
        BY <1>1, <3>2, <3>3, <3>4, <3>5
    <2>. QED
      BY <2>1, <2>2, <2>3 DEF Quiet, Holds, Calling
  <1>2. ASSUME NEW p \in Procs, Acquire(p)
        PROVE  Quiet(p)
    <2>1. /\ run[p] \in Run /\ run[p].at \notin Holds
          /\ lease' = lease /\ died' = died /\ overlapped \subseteq overlapped'
      BY <1>2 DEF Typed, TypeOK, Acquire, Opens, At, Holds, files
    <2>2. CASE MayTake(p)
      <3>1. Becomes(p, [run[p] EXCEPT !.at = "write-lease", !.beat = 0]) /\ Opens(p, "lease")
        BY <1>2, <2>2 DEF Acquire
      <3>2. run'[p].at = "write-lease" /\ \A q \in Procs \ {p} : run'[q] = run[q]
        <4> DEFINE r == [run[p] EXCEPT !.at = "write-lease", !.beat = 0]
        <4>1. r.at = "write-lease"
          BY <2>1 DEF Run
        <4>2. Becomes(p, r)
          BY <3>1
        <4> HIDE DEF r
        <4>. QED
          BY <4>1, <4>2, BecomesSets
      <3>. QED
        BY <2>1, <2>2, <3>1, <3>2 DEF Quiet
    <2>3. CASE ~MayTake(p)
      BY <1>2, <2>1, <2>3, ReportSets DEF Acquire, Quiet, Holds, Calling
    <2>. QED
      BY <2>2, <2>3
  <1>3. ASSUME NEW p \in Procs, Heartbeat(p)
        PROVE  Quiet(p)
    <2>1. /\ run[p] \in Run /\ run[p].at \in Holds
          /\ lease' = lease /\ died' = died /\ overlapped \subseteq overlapped'
      BY <1>3 DEF Typed, TypeOK, Heartbeat, Opens, At, Holds, files
    <2>2. CASE OwnLease(p)
      <3>1. /\ Becomes(p, [run[p] EXCEPT !.at = "write-heartbeat", !.standing = Demands(p)])
            /\ Opens(p, "lease")
        BY <1>3, <2>2 DEF Heartbeat, OwnLease
      <3>2. /\ run'[p].at = "write-heartbeat" /\ run'[p].beat = run[p].beat
            /\ \A q \in Procs \ {p} : run'[q] = run[q]
        <4> DEFINE r == [run[p] EXCEPT !.at = "write-heartbeat", !.standing = Demands(p)]
        <4>1. r.at = "write-heartbeat" /\ r.beat = run[p].beat
          BY <2>1 DEF Run
        <4>2. Becomes(p, r)
          BY <3>1
        <4> HIDE DEF r
        <4>. QED
          BY <4>1, <4>2, BecomesSets
      <3>. QED
        BY <2>1, <2>2, <3>1, <3>2 DEF Quiet, SameBeat
    <2>3. CASE ~OwnLease(p)
      <3>1. Becomes(p, [run[p] EXCEPT !.at = "release", !.raised = TRUE])
        BY <1>3, <2>3 DEF Heartbeat, OwnLease
      <3>2. /\ run'[p].at = "release" /\ run'[p].beat = run[p].beat
            /\ \A q \in Procs \ {p} : run'[q] = run[q]
        <4> DEFINE r == [run[p] EXCEPT !.at = "release", !.raised = TRUE]
        <4>1. r.at = "release" /\ r.beat = run[p].beat
          BY <2>1 DEF Run
        <4>2. Becomes(p, r)
          BY <3>1
        <4> HIDE DEF r
        <4>. QED
          BY <4>1, <4>2, BecomesSets
      <3>. QED
        BY <2>1, <3>2 DEF Quiet, SameBeat, Holds, Calling
    <2>. QED
      BY <2>2, <2>3
  <1>4. ASSUME NEW p \in Procs, CheckStop(p) \/ CheckControl(p) \/ RunCycle(p)
        PROVE  Quiet(p)
    <2>1. run[p].at \in Holds /\ lease' = lease /\ died' = died /\ overlapped' = overlapped
      BY <1>4 DEF CheckStop, CheckControl, RunCycle, At, Holds, files, faults
    <2>2. \E point \in {"release", "check-control", "cycle", "heartbeat"} :
            Goto(p, point) \/ Record(p, point)
      BY <1>4 DEF CheckStop, CheckControl, RunCycle
    <2>. QED
      BY <2>1, <2>2, GotoSets, RecordSets DEF Quiet, SameBeat, Holds, Calling
  <1>5. ASSUME NEW p \in Procs, Release(p)
        PROVE  Quiet(p)
    <2>1. /\ run[p].at \in Holds
          /\ lease' = lease /\ died' = died /\ overlapped \subseteq overlapped'
      BY <1>5 DEF Release, Opens, At, Holds
    <2>2. \/ OwnLease(p) /\ Goto(p, "unlink") /\ Opens(p, "lease")
          \/ ~OwnLease(p) /\ Leave(p)
      BY <1>5 DEF Release, OwnLease
    <2>. QED
      BY <2>1, <2>2, GotoSets, LeaveSets DEF Quiet, SameBeat, Holds, Calling
  <1>6. ASSUME NEW p \in Procs, LoadHealth(p) \/ SaveHealth(p)
        PROVE  Quiet(p)
    <2>1. /\ run[p] \in Run /\ run[p].at \notin Holds
          /\ lease' = lease /\ died' = died /\ overlapped \subseteq overlapped'
      BY <1>6 DEF Typed, TypeOK, LoadHealth, SaveHealth, Opens, At, Holds, files, faults
    <2>2. \/ Becomes(p, [run[p] EXCEPT !.at = "save-health", !.prior = counted])
          \/ Becomes(p, Idle)
      BY <1>6 DEF LoadHealth, SaveHealth
    <2>3. CASE Becomes(p, Idle)
      BY <2>1, <2>3, BecomesSets DEF Quiet, Idle, Holds, Calling
    <2>4. CASE Becomes(p, [run[p] EXCEPT !.at = "save-health", !.prior = counted])
      <3> DEFINE r == [run[p] EXCEPT !.at = "save-health", !.prior = counted]
      <3>1. r.at = "save-health"
        BY <2>1 DEF Run
      <3>2. Becomes(p, r)
        BY <2>4
      <3> HIDE DEF r
      <3>. QED
        BY <2>1, <3>1, <3>2, BecomesSets DEF Quiet, Holds, Calling
    <2>. QED
      BY <2>2, <2>3, <2>4
  <1>7. ASSUME NEW p \in Procs, Command(p) \/ SetStop(p)
        PROVE  Quiet(p)
    <2>1. /\ run[p] \in Run /\ KeepStanding(p)
          /\ lease' = lease /\ died' = died
          /\ overlapped' = overlapped
      BY <1>7 DEF Typed, TypeOK, Command, SetStop, files, faults
    <2>. QED
      BY <2>1, BecomesSets DEF KeepStanding, Quiet, Run
  <1>8. ASSUME NEW p \in Procs, Crash(p)
        PROVE  Quiet(p)
    BY <1>8, BecomesSets DEF Crash, Quiet, Idle, Holds, Calling
  <1>. QED
    BY <1>1, <1>2, <1>3, <1>4, <1>5, <1>6, <1>7, <1>8 DEF Next, Proceed

\* Calls that overlapped are never forgotten.
LEMMA Grows == Typed /\ [Next]_vars => overlapped \subseteq overlapped'
  BY Steps DEF Quiet, WriteLease, WriteHeartbeat, Unlink, Tick, faults, vars

\* Every way out of a run gives the lease back, or finds it another's.
LEMMA HolderStep == Typed /\ LeaseHasHolder /\ [Next]_vars => LeaseHasHolder'
  <1> SUFFICES ASSUME Typed, LeaseHasHolder, [Next]_vars, lease' # None, "lease" \notin overlapped'
               PROVE  \E p \in Procs :
                        /\ lease'.owner = Owner[p]
                        /\ run'[p].at \in Holds \/ p \in died'
    BY DEF LeaseHasHolder
  <1>0. "lease" \notin overlapped
    BY Grows
  <1>1. ASSUME NEW p \in Procs, Quiet(p)
        PROVE  \E q \in Procs : lease'.owner = Owner[q] /\ (run'[q].at \in Holds \/ q \in died')
    <2>1. PICK q \in Procs : lease.owner = Owner[q] /\ (run[q].at \in Holds \/ q \in died)
      BY <1>0, <1>1 DEF Quiet, LeaseHasHolder
    <2>2. CASE q # p \/ q \in died
      BY <1>1, <2>1, <2>2 DEF Quiet
    <2>3. CASE q = p /\ run[p].at \in Holds
      BY <1>1, <2>1, <2>3 DEF Quiet, OwnLease, SameBeat, Holds
    <2>. QED
      BY <2>1, <2>2, <2>3
  <1>2. ASSUME NEW p \in Procs, WriteLease(p) \/ WriteHeartbeat(p)
        PROVE  lease'.owner = Owner[p] /\ run'[p].at \in Holds
    <2>1. run[p] \in Run
      BY DEF Typed, TypeOK
    <2>2. CASE WriteLease(p)
      BY <2>2, GotoSets DEF WriteLease, Holds
    <2>3. CASE WriteHeartbeat(p)
      BY <2>3, WriteHeartbeatSets DEF Holds
    <2>. QED
      BY <1>2, <2>2, <2>3
  <1>3. ASSUME NEW p \in Procs, Unlink(p)
        PROVE  FALSE
    BY <1>3 DEF Unlink
  <1>4. CASE Tick
    <2>1. \A p \in Procs : run[p] \in Run
      BY DEF Typed, TypeOK
    <2>2. lease # None /\ lease'.owner = lease.owner /\ died' = died
      BY <1>4 DEF Tick, faults, Typed, TypeOK, FileLeaseRecord
    <2>3. \A p \in Procs : run'[p].at = run[p].at
      BY <1>4, <2>1 DEF Tick, Run
    <2>. QED
      BY <1>0, <2>2, <2>3 DEF LeaseHasHolder
  <1>5. CASE UNCHANGED vars
    BY <1>0, <1>5 DEF vars, LeaseHasHolder
  <1>. QED
    BY <1>1, <1>2, <1>3, <1>4, <1>5, Steps

\* The lease file never outlives its holder unless that holder died or calls on
\* the file overlapped.
THEOREM HolderOnFile == Spec => []LeaseHasHolder
  <1>1. Init => LeaseHasHolder
    BY DEF Init, LeaseHasHolder
  <1>. QED
    BY <1>1, InitTyped, StepTyped, HolderStep, PTL DEF Spec

-----------------------------------------------------------------------------
(* Exclusion.  What a process found when it read the lease file still      *)
(* holds when it writes it, unless another file call came in between.      *)

OneCall == \A p, q \in Procs : p # q => ~(run[p].at \in Calling /\ run[q].at \in Calling)

StillTrue ==
  \A p \in Procs :
    /\ run[p].at = "write-lease" => MayTake(p)
    /\ run[p].at \in {"write-heartbeat", "unlink"} => OwnLease(p)

\* A holder that is not silent is the owner on file, with the age of its beat.
FreshOnFile ==
  \A p \in Procs : Fresh(p) => lease = [owner |-> Owner[p], age |-> run[p].beat]

Exclusion == OneCall /\ StillTrue /\ FreshOnFile

LEMMA QuietExclusion ==
  ASSUME Typed, Exclusion, NEW p \in Procs, Quiet(p), "lease" \notin overlapped'
  PROVE  Exclusion'
  <1>1. lease' = lease /\ \A q \in Procs \ {p} : run'[q] = run[q]
    BY DEF Quiet
  <1>2. OneCall'
    <2>1. run'[p].at \in Calling => run[p].at \in Calling \/ Opens(p, "lease")
      BY DEF Quiet, Holds, Calling
    <2>2. Opens(p, "lease") => \A q \in Procs \ {p} : run[q].at \notin Calling
      BY DEF Opens, InCall, Calling
    <2>. QED
      BY <1>1, <2>1, <2>2 DEF OneCall, Exclusion
  <1>3. StillTrue'
    <2>1. run'[p].at = "write-lease" => MayTake(p)
      BY DEF Quiet, Exclusion, StillTrue, Holds, Calling
    <2>2. run'[p].at \in {"write-heartbeat", "unlink"} => OwnLease(p)
      BY DEF Quiet, Exclusion, StillTrue, Holds, Calling
    <2>. QED
      BY <1>1, <2>1, <2>2 DEF StillTrue, Exclusion, MayTake, OwnLease
  <1>4. FreshOnFile'
    <2>1. Fresh(p)' => Fresh(p) /\ run'[p].beat = run[p].beat
      BY DEF Quiet, Fresh, SameBeat, Holds, Calling
    <2>. QED
      BY <1>1, <2>1 DEF FreshOnFile, Exclusion, Fresh
  <1>. QED
    BY <1>2, <1>3, <1>4 DEF Exclusion

\* Who writes or deletes the lease finds no other fresh holder.
LEMMA NoneFresh ==
  ASSUME Typed, Exclusion, Distinct, NEW p \in Procs, NEW q \in Procs \ {p},
         run[p].at \in {"write-lease", "write-heartbeat", "unlink"}
  PROVE  ~Fresh(q)
  <1> SUFFICES ASSUME Fresh(q)
               PROVE  FALSE
    OBVIOUS
  <1>1. run[q] \in Run /\ Ttl \in Nat
    BY UnattendedAssumption DEF Typed, TypeOK
  <1>2. /\ lease = [owner |-> Owner[q], age |-> run[q].beat]
        /\ run[q].beat < Ttl /\ run[q].beat \in 0 .. Ttl
    BY <1>1 DEF Exclusion, FreshOnFile, Fresh, Run
  <1>3. Owner[q] # Owner[p]
    BY DEF Distinct
  <1>4. lease # None
    BY <1>2, UnattendedAssumption
  <1>. QED
    BY <1>1, <1>2, <1>3, <1>4 DEF Exclusion, StillTrue, MayTake, OwnLease

\* A step that writes or deletes the lease ends the only file call.
LEMMA WriteExclusion ==
  ASSUME Typed, Exclusion, Distinct, NEW p \in Procs,
         run[p].at \in {"write-lease", "write-heartbeat", "unlink"},
         \A q \in Procs \ {p} : run'[q] = run[q],
         run'[p].at \notin Calling,
         Fresh(p)' => lease' = [owner |-> Owner[p], age |-> run'[p].beat]
  PROVE  Exclusion'
  <1>1. \A q \in Procs \ {p} : run'[q].at \notin Calling
    BY DEF Exclusion, OneCall, Calling
  <1>2. \A q \in Procs \ {p} : ~Fresh(q)'
    BY NoneFresh DEF Fresh
  <1>. QED
    BY <1>1, <1>2 DEF Exclusion, OneCall, StillTrue, FreshOnFile, Calling

LEMMA ExclusionStep ==
  ASSUME Distinct, Typed, Exclusion, [Next]_vars, "lease" \notin overlapped'
  PROVE  Exclusion'
  <1>1. ASSUME NEW p \in Procs, WriteLease(p)
        PROVE  Exclusion'
    <2>1. run[p].at = "write-lease" /\ lease' = [owner |-> Owner[p], age |-> run[p].beat]
      BY <1>1 DEF WriteLease, At
    <2>2. /\ run'[p].at = "heartbeat" /\ run'[p].beat = run[p].beat
          /\ \A q \in Procs \ {p} : run'[q] = run[q]
      BY <1>1, GotoSets DEF WriteLease
    <2>. QED
      BY <2>1, <2>2, WriteExclusion DEF Calling
  <1>2. ASSUME NEW p \in Procs, WriteHeartbeat(p)
        PROVE  Exclusion'
    <2>1. run[p].at = "write-heartbeat"
      BY <1>2 DEF WriteHeartbeat, At
    <2>. QED
      BY <1>2, <2>1, WriteHeartbeatSets, WriteExclusion DEF Calling
  <1>3. ASSUME NEW p \in Procs, Unlink(p)
        PROVE  Exclusion'
    <2>1. run[p].at = "unlink"
      BY <1>3 DEF Unlink, At
    <2>2. run'[p].at \in {"idle", "load-health"} /\ \A q \in Procs \ {p} : run'[q] = run[q]
      BY <1>3, LeaveSets DEF Unlink
    <2>3. ~Fresh(p)'
      BY <2>2 DEF Fresh, Holds
    <2>. QED
      BY <2>1, <2>2, <2>3, WriteExclusion DEF Calling
  <1>4. CASE Tick
    <2>1. \A p \in Procs : run[p] \in Run
      BY DEF Typed, TypeOK
    <2>2. \A p \in Procs : run'[p].at = run[p].at /\ run'[p].beat = Older(run[p].beat)
      BY <1>4, <2>1 DEF Tick, Run
    <2>3. OneCall'
      BY <2>2 DEF Exclusion, OneCall
    <2>4. /\ lease = None => lease' = None
          /\ lease # None => /\ lease'.owner = lease.owner /\ lease'.age = Older(lease.age)
                             /\ lease.age \in 0 .. Ttl
                             /\ lease' = [owner |-> lease.owner, age |-> Older(lease.age)]
      BY <1>4 DEF Tick, Typed, TypeOK, FileLeaseRecord
    <2>5. lease # None => lease' # None
      <3>1. lease # None => lease' \in FileLeaseRecord
        BY <1>4, UnattendedAssumption DEF Tick, Typed, TypeOK, FileLeaseRecord, Older
      <3>. QED
        BY <3>1, UnattendedAssumption DEF FileLeaseRecord
    <2>6. StillTrue'
      BY <2>2, <2>4, <2>5, UnattendedAssumption DEF Exclusion, StillTrue, MayTake, OwnLease, Older
    <2>7. FreshOnFile'
      <3> SUFFICES ASSUME NEW p \in Procs, Fresh(p)'
                   PROVE  lease' = [owner |-> Owner[p], age |-> run'[p].beat]
        BY DEF FreshOnFile
      <3>1. run[p].beat \in 0 .. Ttl /\ Ttl \in Nat
        BY <2>1, UnattendedAssumption DEF Run
      <3>2. Fresh(p)
        BY <2>2, <3>1 DEF Fresh, Older
      <3>3. lease = [owner |-> Owner[p], age |-> run[p].beat]
        BY <3>2 DEF Exclusion, FreshOnFile
      <3>4. lease # None
        BY <3>1, <3>3, UnattendedAssumption
      <3>. QED
        BY <2>2, <2>4, <3>3, <3>4
    <2>. QED
      BY <2>3, <2>6, <2>7 DEF Exclusion
  <1>5. CASE UNCHANGED vars
    BY <1>5 DEF vars, Exclusion, OneCall, StillTrue, FreshOnFile, MayTake, OwnLease, Fresh
  <1>. QED
    BY <1>1, <1>2, <1>3, <1>4, <1>5, QuietExclusion, Steps

\* As long as no two calls on the lease file overlapped.
Excludes == "lease" \notin overlapped => Exclusion

LEMMA ExclusionExcludes ==
  ASSUME Typed, Excludes, "lease" \notin overlapped, Distinct,
         NEW p \in Procs, NEW q \in Procs, p # q, Fresh(p), Fresh(q)
  PROVE  FALSE
  <1>1. [owner |-> Owner[p], age |-> run[p].beat] = [owner |-> Owner[q], age |-> run[q].beat]
    BY DEF Excludes, Exclusion, FreshOnFile
  <1>. QED
    BY <1>1 DEF Distinct

\* Two processes are never both between acquire and release with heartbeats
\* younger than the TTL, whatever their number, the length of a cycle and the
\* crashes, but for two reasons: two processes run under one owner name, or a
\* call on the lease file was interrupted by another process's.
THEOREM ExclusiveLease == Spec => []OneFreshHolder
  <1>1. CASE ~Distinct
    <2>1. OneFreshHolder
      BY <1>1 DEF OneFreshHolder
    <2>. QED
      BY <2>1, PTL
  <1>2. CASE Distinct
    <2>1. Init => Excludes
      BY DEF Init, Excludes, Exclusion, OneCall, StillTrue, FreshOnFile, Fresh, Idle, Holds, Calling
    <2>2. Typed /\ Excludes /\ [Next]_vars => Excludes'
      BY <1>2, Grows, ExclusionStep DEF Excludes
    <2>3. Typed /\ Excludes => OneFreshHolder
      BY <1>2, ExclusionExcludes DEF OneFreshHolder
    <2>. QED
      BY <2>1, <2>2, <2>3, InitTyped, StepTyped, PTL DEF Spec
  <1>. QED
    BY <1>1, <1>2

-----------------------------------------------------------------------------
(* The operator.  A demand that stood at the heartbeat and stands still is *)
(* seen by the checks that follow it.                                      *)

Heeds(p) ==
  /\ run[p].standing \subseteq Demands(p)
  /\ At(p, "check-control") => "stop" \notin run[p].standing
  /\ At(p, "cycle") => /\ run[p].standing \cap {"stop", "pause", "shutdown"} = {}
                       /\ "drain" \in run[p].standing => run[p].records = 0

Heeding == \A p \in Procs : Heeds(p)

\* The run goes on to a point at which nothing is asked of what stands.
Elsewhere(p) ==
  /\ control' = control /\ stop' = stop
  /\ \A q \in Procs \ {p} : run'[q] = run[q]
  /\ run'[p].at \notin {"check-control", "cycle"}
  /\ run'[p].standing \in {run[p].standing, {}, Demands(p)}

LEMMA ElsewhereHeeds ==
  ASSUME Heeding, NEW p \in Procs, Elsewhere(p)
  PROVE  Heeding'
  <1>1. \A q \in Procs : Demands(q)' = Demands(q)
    BY DEF Elsewhere, Demands
  <1>2. Heeds(p)'
    BY <1>1 DEF Elsewhere, Heeds, Heeding, At
  <1>3. \A q \in Procs \ {p} : Heeds(q)'
    BY <1>1 DEF Elsewhere, Heeds, Heeding, At
  <1>. QED
    BY <1>2, <1>3 DEF Heeding

LEMMA OnlyHeeds ==
  ASSUME Heeding, NEW p \in Procs, Heeds(p)',
         \A q \in Procs \ {p} : run'[q] = run[q] /\ control'[q] = control[q] /\ stop'[q] = stop[q]
  PROVE  Heeding'
  <1>1. \A q \in Procs \ {p} : Demands(q)' = Demands(q)
    BY DEF Demands
  <1>. QED
    BY <1>1 DEF Heeds, Heeding, At

LEMMA GotoKeeps ==
  ASSUME Typed, NEW p \in Procs, NEW point, Goto(p, point)
  PROVE  /\ run'[p].at = point /\ run'[p].standing = run[p].standing
         /\ run'[p].records = run[p].records
         /\ \A q \in Procs \ {p} : run'[q] = run[q]
  <1>1. run[p] \in Run
    BY DEF Typed, TypeOK
  <1>. QED
    BY <1>1, BecomesSets DEF Goto, Run

LEMMA ReportForgets ==
  ASSUME Typed, NEW p \in Procs, Report(p)
  PROVE  /\ run'[p].at = "load-health" /\ run'[p].standing = {}
         /\ \A q \in Procs \ {p} : run'[q] = run[q]
  <1> DEFINE r == [Idle EXCEPT !.at = "load-health", !.records = run[p].records]
  <1>1. Idle \in Run /\ Idle.standing = {}
    BY IdleTyped DEF Idle
  <1>2. r.at = "load-health" /\ r.standing = {}
    BY <1>1 DEF Run
  <1>3. Becomes(p, r)
    BY DEF Report
  <1> HIDE DEF r
  <1>. QED
    BY <1>2, <1>3, BecomesSets

LEMMA LeaveForgets ==
  ASSUME Typed, NEW p \in Procs, Leave(p)
  PROVE  /\ run'[p].at \in {"idle", "load-health"} /\ run'[p].standing = {}
         /\ \A q \in Procs \ {p} : run'[q] = run[q]
  BY ReportForgets, BecomesSets DEF Leave, Idle

LEMMA RecordForgets ==
  ASSUME Typed, NEW p \in Procs, NEW point, Record(p, point)
  PROVE  /\ run'[p].at = point /\ run'[p].standing = {}
         /\ \A q \in Procs \ {p} : run'[q] = run[q]
  <1> DEFINE r == [run[p] EXCEPT !.at = point, !.records = @ + 1, !.standing = {}]
  <1>1. run[p] \in Run
    BY DEF Typed, TypeOK
  <1>2. r.at = point /\ r.standing = {}
    BY <1>1 DEF Run
  <1>3. Becomes(p, r)
    BY DEF Record
  <1> HIDE DEF r
  <1>. QED
    BY <1>2, <1>3, BecomesSets

\* A step that sets a few fields of the run and goes to a point where nothing
\* is asked.
LEMMA BecomesElsewhere ==
  ASSUME Typed, NEW p \in Procs, NEW r, Becomes(p, r), control' = control, stop' = stop,
         r.at \notin {"check-control", "cycle"},
         r.standing \in {run[p].standing, {}, Demands(p)}
  PROVE  Elsewhere(p)
  BY BecomesSets DEF Elsewhere

LEMMA CheckStopHeeds ==
  ASSUME Typed, Heeding, NEW p \in Procs, CheckStop(p)
  PROVE  Heeding'
  <1>1. control' = control /\ stop' = stop
    BY DEF CheckStop, operator
  <1>2. CASE stop[p]
    BY <1>1, <1>2, GotoKeeps, ElsewhereHeeds DEF CheckStop, Elsewhere
  <1>3. CASE ~stop[p]
    <2>1. /\ run'[p].at = "check-control" /\ run'[p].standing = run[p].standing
          /\ \A q \in Procs \ {p} : run'[q] = run[q]
      BY <1>3, GotoKeeps DEF CheckStop
    <2>2. Demands(p)' = Demands(p) /\ "stop" \notin Demands(p)
      BY <1>1, <1>3 DEF Demands
    <2>3. Heeds(p)'
      BY <2>1, <2>2 DEF Heeds, Heeding, At
    <2>. QED
      BY <1>1, <2>1, <2>3, OnlyHeeds
  <1>. QED
    BY <1>2, <1>3

LEMMA CheckControlHeeds ==
  ASSUME Typed, Heeding, NEW p \in Procs, CheckControl(p)
  PROVE  Heeding'
  <1>1. control' = control /\ stop' = stop
    BY DEF CheckControl, operator
  <1>2. CASE Goto(p, "release")
    BY <1>1, <1>2, GotoKeeps, ElsewhereHeeds DEF Elsewhere
  <1>3. CASE Record(p, "release")
    BY <1>1, <1>3, RecordForgets, ElsewhereHeeds DEF Elsewhere
  <1>4. CASE /\ Goto(p, "cycle")
             /\ ~control[p].shutdown_requested /\ ~control[p].paused
             /\ control[p].draining => ~(run[p].records > 0)
    <2>1. /\ run'[p].at = "cycle" /\ run'[p].standing = run[p].standing
          /\ run'[p].records = run[p].records
          /\ \A q \in Procs \ {p} : run'[q] = run[q]
      BY <1>4, GotoKeeps
    <2>2. /\ Demands(p)' = Demands(p)
          /\ "pause" \notin Demands(p) /\ "shutdown" \notin Demands(p)
          /\ "drain" \in Demands(p) => control[p].draining
      BY <1>1, <1>4 DEF Demands
    <2>3. run[p].records \in Nat
      BY UnattendedAssumption DEF Typed, TypeOK, Run
    <2>4. "stop" \notin run[p].standing /\ run[p].standing \subseteq Demands(p)
      BY DEF CheckControl, Heeds, Heeding
    <2>5. run[p].standing \cap {"stop", "pause", "shutdown"} = {}
      BY <2>2, <2>4
    <2>6. "drain" \in run[p].standing => run[p].records = 0
      BY <1>4, <2>2, <2>3, <2>4
    <2>7. Heeds(p)'
      BY <2>1, <2>2, <2>4, <2>5, <2>6 DEF Heeds, At
    <2>. QED
      BY <1>1, <2>1, <2>7, OnlyHeeds
  <1>. QED
    BY <1>2, <1>3, <1>4 DEF CheckControl

\* Of the demands a run met at its heartbeat those that were taken back go.
LEMMA KeepStandingHeeds ==
  ASSUME Typed, Heeding, NEW p \in Procs, KeepStanding(p),
         \A q \in Procs \ {p} : control'[q] = control[q] /\ stop'[q] = stop[q]
  PROVE  Heeding'
  <1> DEFINE r == [run[p] EXCEPT !.standing = @ \cap Demands(p)']
  <1>1. run[p] \in Run
    BY DEF Typed, TypeOK
  <1>2. /\ r.at = run[p].at /\ r.records = run[p].records
        /\ r.standing = run[p].standing \cap Demands(p)'
    BY <1>1 DEF Run
  <1>3. Becomes(p, r)
    BY DEF KeepStanding
  <1> HIDE DEF r
  <1>4. run'[p] = r /\ \A q \in Procs \ {p} : run'[q] = run[q]
    BY <1>3, BecomesSets
  <1>5. Heeds(p)'
    BY <1>2, <1>4 DEF Heeds, Heeding, At
  <1>. QED
    BY <1>4, <1>5, OnlyHeeds

LEMMA HeedingStep == Typed /\ Heeding /\ [Next]_vars => Heeding'
  <1> SUFFICES ASSUME Typed, Heeding, [Next]_vars
               PROVE  Heeding'
    OBVIOUS
  <1>0. \A p \in Procs : run[p] \in Run
    BY DEF Typed, TypeOK
  <1>1. ASSUME NEW p \in Procs, Start(p)
        PROVE  Elsewhere(p)
    <2>1. PICK mode \in Modes : Becomes(p, [run[p] EXCEPT !.at = "verify", !.mode = mode])
      BY <1>1 DEF Start
    <2> DEFINE r == [run[p] EXCEPT !.at = "verify", !.mode = mode]
    <2>2. r.at = "verify" /\ r.standing = run[p].standing
      BY <1>0 DEF Run
    <2>3. Becomes(p, r) /\ control' = control /\ stop' = stop
      BY <1>1, <2>1 DEF Start, operator
    <2> HIDE DEF r
    <2>. QED
      BY <2>2, <2>3, BecomesElsewhere
  <1>2. ASSUME NEW p \in Procs, Verify(p) \/ Refuse(p) \/ CheckStopFirst(p)
        PROVE  Elsewhere(p)
    <2>1. Goto(p, "stop") \/ Goto(p, "acquire") \/ Becomes(p, Idle) \/ Report(p)
      BY <1>2 DEF Verify, Refuse, CheckStopFirst
    <2>2. control' = control /\ stop' = stop
      BY <1>2 DEF Verify, Refuse, CheckStopFirst, operator
    <2>. QED
      BY <2>1, <2>2, GotoKeeps, ReportForgets, BecomesSets DEF Elsewhere, Idle
  <1>3. ASSUME NEW p \in Procs, Acquire(p)
        PROVE  Elsewhere(p)
    <2> DEFINE r == [run[p] EXCEPT !.at = "write-lease", !.beat = 0]
    <2>1. r.at = "write-lease" /\ r.standing = run[p].standing
      BY <1>0 DEF Run
    <2>2. /\ Becomes(p, r) \/ Report(p)
          /\ control' = control /\ stop' = stop
      BY <1>3 DEF Acquire, operator
    <2> HIDE DEF r
    <2>. QED
      BY <2>1, <2>2, BecomesElsewhere, ReportForgets DEF Elsewhere
  <1>4. ASSUME NEW p \in Procs, WriteLease(p)
        PROVE  Elsewhere(p)
    BY <1>4, GotoKeeps DEF WriteLease, Elsewhere, operator
  <1>5. ASSUME NEW p \in Procs, Heartbeat(p)
        PROVE  Elsewhere(p)
    <2> DEFINE r == [run[p] EXCEPT !.at = "write-heartbeat", !.standing = Demands(p)]
               s == [run[p] EXCEPT !.at = "release", !.raised = TRUE]
    <2>1. /\ r.at = "write-heartbeat" /\ r.standing = Demands(p)
          /\ s.at = "release" /\ s.standing = run[p].standing
      BY <1>0 DEF Run
    <2>2. /\ Becomes(p, r) \/ Becomes(p, s)
          /\ control' = control /\ stop' = stop
      BY <1>5 DEF Heartbeat, operator
    <2> HIDE DEF r, s
    <2>. QED
      BY <2>1, <2>2, BecomesElsewhere
  <1>6. ASSUME NEW p \in Procs, WriteHeartbeat(p)
        PROVE  Elsewhere(p)
    <2> DEFINE r == [run[p] EXCEPT !.at = "check-stop", !.beat = 0]
    <2>1. r.at = "check-stop" /\ r.standing = run[p].standing
      BY <1>0 DEF Run
    <2>2. Becomes(p, r) /\ control' = control /\ stop' = stop
      BY <1>6 DEF WriteHeartbeat, operator
    <2> HIDE DEF r
    <2>. QED
      BY <2>1, <2>2, BecomesElsewhere
  <1>7. ASSUME NEW p \in Procs, RunCycle(p)
        PROVE  Elsewhere(p)
    BY <1>7, RecordForgets DEF RunCycle, Elsewhere, operator
  <1>8. ASSUME NEW p \in Procs, Release(p) \/ Unlink(p)
        PROVE  Elsewhere(p)
    <2>1. /\ Goto(p, "unlink") \/ Leave(p)
          /\ control' = control /\ stop' = stop
      BY <1>8 DEF Release, Unlink, operator
    <2>. QED
      BY <2>1, GotoKeeps, LeaveForgets DEF Elsewhere
  <1>9. ASSUME NEW p \in Procs, LoadHealth(p)
        PROVE  Elsewhere(p)
    <2> DEFINE r == [run[p] EXCEPT !.at = "save-health", !.prior = counted]
    <2>1. r.at = "save-health" /\ r.standing = run[p].standing
      BY <1>0 DEF Run
    <2>2. Becomes(p, r) /\ control' = control /\ stop' = stop
      BY <1>9 DEF LoadHealth, operator
    <2> HIDE DEF r
    <2>. QED
      BY <2>1, <2>2, BecomesElsewhere
  <1>10. ASSUME NEW p \in Procs, SaveHealth(p)
        PROVE  Elsewhere(p)
    BY <1>10, BecomesSets DEF SaveHealth, Elsewhere, Idle, operator
  <1>11. ASSUME NEW p \in Procs, Command(p) \/ SetStop(p)
        PROVE  Heeding'
    <2>1. /\ KeepStanding(p)
          /\ \A q \in Procs \ {p} : control'[q] = control[q] /\ stop'[q] = stop[q]
      BY <1>11 DEF Command, SetStop, Typed, TypeOK
    <2>. QED
      BY <2>1, KeepStandingHeeds
  <1>12. ASSUME NEW p \in Procs, Crash(p)
        PROVE  Heeding'
    <2>1. /\ run'[p] = Idle /\ stop' = stop
          /\ \A q \in Procs \ {p} : run'[q] = run[q] /\ control'[q] = control[q]
      BY <1>12, BecomesSets DEF Crash, Typed, TypeOK
    <2>2. Heeds(p)'
      BY <2>1 DEF Heeds, At, Idle
    <2>. QED
      BY <2>1, <2>2, OnlyHeeds
  <1>13. CASE Tick
    <2>1. \A p \in Procs : /\ run'[p].at = run[p].at /\ run'[p].records = run[p].records
                           /\ run'[p].standing = run[p].standing
      BY <1>0, <1>13 DEF Tick, Run
    <2>2. \A p \in Procs : Demands(p)' = Demands(p)
      BY <1>13 DEF Tick, operator, Demands
    <2>. QED
      BY <2>1, <2>2 DEF Heeds, Heeding, At
  <1>14. CASE UNCHANGED vars
    BY <1>14 DEF vars, Heeds, Heeding, At, Demands
  <1>. QED
    BY <1>1, <1>2, <1>3, <1>4, <1>5, <1>6, <1>7, <1>8, <1>9, <1>10, <1>11, <1>12, <1>13, <1>14,
       ElsewhereHeeds, CheckStopHeeds, CheckControlHeeds DEF Next, Proceed

\* No cycle begins under a demand of the operator that has stood since before
\* its heartbeat, however many processes run and whenever it was made.
THEOREM Obeyed == Spec => []OperatorObeyed
  <1>1. Init => Heeding
    BY DEF Init, Heeding, Heeds, At, Idle
  <1>2. Heeding => OperatorObeyed
    BY DEF Heeding, Heeds, OperatorObeyed
  <1>. QED
    BY <1>1, <1>2, InitTyped, StepTyped, HeedingStep, PTL DEF Spec

-----------------------------------------------------------------------------
(* The count.  First what the remainder does: a sum may be reduced before  *)
(* or after another number is added.                                       *)

LEMMA Division ==
  ASSUME NEW m \in Nat \ {0}, NEW a \in Int
  PROVE  /\ a % m \in 0 .. m - 1
         /\ a \div m \in Int
         /\ a = (a \div m) * m + (a % m)
  <1>1. a % m \in 0 .. m - 1
    BY SMTT(30)
  <1>2. a \div m \in Int
    BY SMTT(30)
  <1>3. a = (a \div m) * m + (a % m)
    BY SMTT(30)
  <1>. QED
    BY <1>1, <1>2, <1>3

LEMMA RemainderUnique ==
  ASSUME NEW m \in Nat \ {0}, NEW r \in 0 .. m - 1, NEW s \in 0 .. m - 1,
         NEW j \in Int, NEW k \in Int, r + j * m = s + k * m
  PROVE  r = s
  BY SMTT(30)

LEMMA ReduceSum ==
  ASSUME NEW m \in Nat \ {0}, NEW a \in Int, NEW b \in Int
  PROVE  ((a % m) + b) % m = (a + b) % m
  <1>1. \A n \in Int : \E i \in Int, r \in 0 .. m - 1 : r = n % m /\ n = i * m + r
    BY Division, Zenon
  <1>2. PICK i \in Int, r \in 0 .. m - 1 : r = a % m /\ a = i * m + r
    BY <1>1
  <1>3. r \in Int /\ m \in Int /\ r + b \in Int /\ a + b \in Int
    OBVIOUS
  <1>4. PICK j \in Int, s \in 0 .. m - 1 : s = (r + b) % m /\ r + b = j * m + s
    BY <1>1, <1>3
  <1>5. PICK k \in Int, t \in 0 .. m - 1 : t = (a + b) % m /\ a + b = k * m + t
    BY <1>1, <1>3
  <1>6. i + j \in Int /\ s \in Int /\ t \in Int
    OBVIOUS
  <1>7. s + (i + j) * m = t + k * m
    <2>1. a = i * m + r /\ r + b = j * m + s /\ a + b = k * m + t
      BY <1>2, <1>4, <1>5
    <2>. QED
      BY <1>3, <1>6, <2>1, SMTT(30)
  <1>8. s = t
    BY <1>6, <1>7, RemainderUnique, Zenon
  <1>. QED
    BY <1>2, <1>4, <1>5, <1>8, Zenon

-----------------------------------------------------------------------------
(* The records still to be counted are a finite set of pairs: a record     *)
(* adds one pair, and the end of a run removes those of its process.       *)

LEMMA PendingFinite == IsFiniteSet(Pending) /\ Cardinality(Pending) \in Nat
  <1>1. IsFiniteSet(1 .. MaxCycles)
    BY FS_Interval, UnattendedAssumption
  <1>2. IsFiniteSet(Procs \X (1 .. MaxCycles))
    BY <1>1, FS_Product, UnattendedAssumption
  <1>3. Pending \in SUBSET (Procs \X (1 .. MaxCycles))
    BY DEF Pending
  <1>. QED
    BY <1>2, <1>3, FS_Subset, FS_CardinalityType

LEMMA PendingSame ==
  ASSUME \A p \in Procs : run'[p].records = run[p].records
  PROVE  Pending' = Pending
  BY DEF Pending

LEMMA PendingAdds ==
  ASSUME NEW p \in Procs, run[p].records \in 0 .. MaxCycles - 1,
         run'[p].records = run[p].records + 1,
         \A q \in Procs \ {p} : run'[q] = run[q]
  PROVE  Cardinality(Pending') = Cardinality(Pending) + 1
  <1> DEFINE n == run[p].records + 1
  <1>0. n \in 1 .. MaxCycles /\ run[p].records \in Int /\ run'[p].records = n
    BY UnattendedAssumption
  <1>1. <<p, n>> \notin Pending
    BY <1>0 DEF Pending
  <1>2. ASSUME NEW q \in Procs, NEW k \in 1 .. MaxCycles
        PROVE  k <= run'[q].records <=> k <= run[q].records \/ <<q, k>> = <<p, n>>
    BY <1>0
  <1>3. Pending' = Pending \cup {<<p, n>>}
    BY <1>0, <1>2 DEF Pending
  <1> HIDE DEF n
  <1>. QED
    BY <1>1, <1>3, PendingFinite, FS_AddElement

LEMMA PendingDrops ==
  ASSUME NEW p \in Procs, run[p].records \in 0 .. MaxCycles,
         run'[p].records = 0,
         \A q \in Procs \ {p} : run'[q] = run[q]
  PROVE  Cardinality(Pending') = Cardinality(Pending) - run[p].records
  <1> DEFINE own == {p} \X (1 .. run[p].records)
  <1>1. /\ IsFiniteSet(1 .. run[p].records)
        /\ Cardinality(1 .. run[p].records) = run[p].records
    <2>1. run[p].records \in Nat
      BY UnattendedAssumption
    <2>2. /\ IsFiniteSet(1 .. run[p].records)
          /\ Cardinality(1 .. run[p].records)
               = IF 1 > run[p].records THEN 0 ELSE run[p].records - 1 + 1
      BY <2>1, FS_Interval
    <2>. QED
      BY <2>1, <2>2
  <1>2. Cardinality(own) = run[p].records
    <2>1. IsFiniteSet({p}) /\ Cardinality({p}) = 1
      BY FS_Singleton
    <2>2. Cardinality(own) = Cardinality({p}) * Cardinality(1 .. run[p].records)
      BY <1>1, <2>1, FS_Product
    <2>3. run[p].records \in Int
      OBVIOUS
    <2>. QED
      BY <1>1, <2>1, <2>2, <2>3
  <1>3. own \subseteq Pending
    BY UnattendedAssumption DEF Pending
  <1>4. Pending' = Pending \ own
    <2>1. ASSUME NEW q \in Procs, NEW k \in 1 .. MaxCycles
          PROVE  k <= run'[q].records <=> k <= run[q].records /\ <<q, k>> \notin own
      BY UnattendedAssumption
    <2>. QED
      BY <2>1 DEF Pending
  <1>5. Pending \cap own = own
    BY <1>3
  <1> HIDE DEF own
  <1>. QED
    <2>1. Cardinality(Pending \ own) = Cardinality(Pending) - Cardinality(Pending \cap own)
      BY PendingFinite, FS_Difference
    <2>. QED
      BY <1>2, <1>4, <1>5, <2>1

-----------------------------------------------------------------------------
(* What a run saves is the count it read, as long as no other process is   *)
(* inside a file call, and nothing is on record before the loop begins.    *)

PriorKept == \A p \in Procs : run[p].at = "save-health" => run[p].prior = counted

NothingYet == \A p \in Procs : run[p].at \in {"idle", "verify"} => run[p].records = 0

OneSave ==
  \A p, q \in Procs : p # q => ~(run[p].at = "save-health" /\ run[q].at = "save-health")

Counting == OneSave /\ PriorKept /\ CyclesCounted

\* The step of p leaves the count and the records as they are.
Carries(p) ==
  /\ counted' = counted /\ owed' = owed /\ overlapped \subseteq overlapped'
  /\ \A q \in Procs \ {p} : run'[q] = run[q]
  /\ run'[p].records = run[p].records
  /\ run'[p].at \in {"idle", "verify"} => run'[p].records = 0
  /\ run'[p].at = "save-health" =>
       \/ run'[p].prior = counted /\ Opens(p, "state")
       \/ run[p].at = "save-health" /\ run'[p].prior = run[p].prior

\* The step of p adds a record.
Adds(p) ==
  /\ counted' = counted /\ owed' = (owed + 1) % Modulus /\ overlapped \subseteq overlapped'
  /\ \A q \in Procs \ {p} : run'[q] = run[q]
  /\ run[p].records \in 0 .. MaxCycles - 1 /\ run'[p].records = run[p].records + 1
  /\ run'[p].at \in {"release", "heartbeat"}

\* The run of p ends without saving its records.
Loses(p) ==
  /\ counted' = counted /\ owed' = (owed - run[p].records) % Modulus
  /\ overlapped \subseteq overlapped'
  /\ \A q \in Procs \ {p} : run'[q] = run[q]
  /\ run'[p] = Idle

LEMMA ReportCarries ==
  ASSUME Typed, NEW p \in Procs, Report(p), counted' = counted, owed' = owed,
         overlapped \subseteq overlapped'
  PROVE  Carries(p)
  <1> DEFINE r == [Idle EXCEPT !.at = "load-health", !.records = run[p].records]
  <1>1. r.at = "load-health" /\ r.records = run[p].records
    BY IdleTyped DEF Run
  <1>2. Becomes(p, r)
    BY DEF Report
  <1> HIDE DEF r
  <1>. QED
    BY <1>1, <1>2, BecomesSets DEF Carries

LEMMA RecordAdds ==
  ASSUME Typed, NEW p \in Procs, NEW point \in {"release", "heartbeat"}, Record(p, point),
         run[p].records < MaxCycles, counted' = counted,
         overlapped \subseteq overlapped'
  PROVE  Adds(p)
  <1> DEFINE n == run[p].records + 1
             r == [run[p] EXCEPT !.at = point, !.records = n, !.standing = {}]
  <1>1. run[p] \in Run /\ run[p].records \in 0 .. MaxCycles
    BY DEF Typed, TypeOK, Run
  <1>2. run[p].records \in 0 .. MaxCycles - 1
    BY <1>1, UnattendedAssumption
  <1>3. Becomes(p, r) /\ owed' = (owed + 1) % Modulus
    BY DEF Record
  <1> HIDE DEF n
  <1>4. r.at = point /\ r.records = n
    BY <1>1 DEF Run
  <1> HIDE DEF r
  <1>5. run'[p].records = n /\ run'[p].at = point /\ \A q \in Procs \ {p} : run'[q] = run[q]
    BY <1>3, <1>4, BecomesSets
  <1>. QED
    BY <1>2, <1>3, <1>5 DEF Adds, n

LEMMA LeaveTallies ==
  ASSUME Typed, NEW p \in Procs, Leave(p), counted' = counted, overlapped \subseteq overlapped'
  PROVE  Carries(p) \/ Loses(p)
  BY ReportCarries, BecomesSets DEF Leave, Loses

\* A step carries the count, adds to it, loses records or saves them.
LEMMA Tallies ==
  ASSUME Typed, NothingYet, Next
  PROVE  \/ \E p \in Procs : Carries(p) \/ Adds(p) \/ Loses(p) \/ SaveHealth(p)
         \/ Tick
  <1>0. \A p \in Procs : run[p] \in Run /\ RoomLeft(run[p])
    BY DEF Typed, TypeOK
  <1>1. ASSUME NEW p \in Procs, Start(p)
        PROVE  Carries(p)
    <2>1. PICK mode \in Modes : Becomes(p, [run[p] EXCEPT !.at = "verify", !.mode = mode])
      BY <1>1 DEF Start
    <2> DEFINE r == [run[p] EXCEPT !.at = "verify", !.mode = mode]
    <2>2. r.at = "verify" /\ r.records = run[p].records
      BY <1>0 DEF Run
    <2>3. /\ Becomes(p, r) /\ counted' = counted /\ owed' = owed /\ run[p].records = 0
          /\ overlapped' = overlapped
      BY <1>1, <2>1 DEF Start, files, faults, At, NothingYet
    <2> HIDE DEF r
    <2>. QED
      BY <2>2, <2>3, BecomesSets DEF Carries
  <1>2. ASSUME NEW p \in Procs, Verify(p)
        PROVE  Carries(p)
    BY <1>2, GotoKeeps DEF Verify, files, faults, Carries
  <1>3. ASSUME NEW p \in Procs, Refuse(p)
        PROVE  Carries(p)
    <2>1. /\ run'[p] = Idle /\ \A q \in Procs \ {p} : run'[q] = run[q]
          /\ counted' = counted /\ owed' = owed /\ run[p].records = 0
          /\ overlapped' = overlapped
      BY <1>3, BecomesSets DEF Refuse, files, faults, At, NothingYet
    <2>2. Idle.records = 0 /\ Idle.at = "idle"
      BY DEF Idle
    <2>. QED
      BY <2>1, <2>2 DEF Carries
  <1>4. ASSUME NEW p \in Procs, CheckStopFirst(p)
        PROVE  Carries(p)
    <2>1. counted' = counted /\ owed' = owed /\ overlapped' = overlapped
      BY <1>4 DEF CheckStopFirst, files, faults
    <2>. QED
      BY <1>4, <2>1, GotoKeeps, ReportCarries DEF CheckStopFirst, Carries
  <1>5. ASSUME NEW p \in Procs, Acquire(p)
        PROVE  Carries(p)
    <2> DEFINE r == [run[p] EXCEPT !.at = "write-lease", !.beat = 0]
    <2>1. r.at = "write-lease" /\ r.records = run[p].records
      BY <1>0 DEF Run
    <2>2. /\ Becomes(p, r) \/ Report(p)
          /\ counted' = counted /\ owed' = owed /\ overlapped \subseteq overlapped'
      BY <1>5 DEF Acquire, Opens, files
    <2> HIDE DEF r
    <2>. QED
      BY <2>1, <2>2, BecomesSets, ReportCarries DEF Carries
  <1>6. ASSUME NEW p \in Procs, WriteLease(p)
        PROVE  Carries(p)
    BY <1>6, GotoKeeps DEF WriteLease, faults, Carries
  <1>7. ASSUME NEW p \in Procs, Heartbeat(p)
        PROVE  Carries(p)
    <2> DEFINE r == [run[p] EXCEPT !.at = "write-heartbeat", !.standing = Demands(p)]
               s == [run[p] EXCEPT !.at = "release", !.raised = TRUE]
    <2>1. /\ r.at = "write-heartbeat" /\ r.records = run[p].records
          /\ s.at = "release" /\ s.records = run[p].records
      BY <1>0 DEF Run
    <2>2. /\ Becomes(p, r) \/ Becomes(p, s)
          /\ counted' = counted /\ owed' = owed /\ overlapped \subseteq overlapped'
      BY <1>7 DEF Heartbeat, Opens, files
    <2> HIDE DEF r, s
    <2>. QED
      BY <2>1, <2>2, BecomesSets DEF Carries
  <1>8. ASSUME NEW p \in Procs, WriteHeartbeat(p)
        PROVE  Carries(p)
    <2> DEFINE r == [run[p] EXCEPT !.at = "check-stop", !.beat = 0]
    <2>1. r.at = "check-stop" /\ r.records = run[p].records
      BY <1>0 DEF Run
    <2>2. Becomes(p, r) /\ counted' = counted /\ owed' = owed /\ overlapped' = overlapped
      BY <1>8 DEF WriteHeartbeat, faults
    <2> HIDE DEF r
    <2>. QED
      BY <2>1, <2>2, BecomesSets DEF Carries
  <1>9. ASSUME NEW p \in Procs, CheckStop(p)
        PROVE  Carries(p)
    <2>1. Goto(p, "release") \/ Goto(p, "check-control")
      BY <1>9 DEF CheckStop
    <2>. QED
      BY <1>9, <2>1, GotoKeeps DEF CheckStop, files, faults, Carries
  <1>10. ASSUME NEW p \in Procs, CheckControl(p) \/ RunCycle(p)
         PROVE  Carries(p) \/ Adds(p)
    <2>1. run[p].records < MaxCycles /\ counted' = counted /\ overlapped' = overlapped
      BY <1>0, <1>10 DEF CheckControl, RunCycle, faults, At, RoomLeft
    <2>2. \/ Record(p, "release") \/ Record(p, "heartbeat")
          \/ (Goto(p, "release") \/ Goto(p, "cycle")) /\ owed' = owed
      BY <1>10 DEF CheckControl, RunCycle
    <2>. QED
      BY <2>1, <2>2, GotoKeeps, RecordAdds DEF Carries
  <1>11. ASSUME NEW p \in Procs, Release(p)
         PROVE  Carries(p) \/ Loses(p)
    <2>1. counted' = counted /\ overlapped \subseteq overlapped'
      BY <1>11 DEF Release, Opens
    <2>2. (Goto(p, "unlink") /\ owed' = owed) \/ Leave(p)
      BY <1>11 DEF Release
    <2>. QED
      BY <2>1, <2>2, GotoKeeps, LeaveTallies DEF Carries
  <1>12. ASSUME NEW p \in Procs, Unlink(p)
         PROVE  Carries(p) \/ Loses(p)
    BY <1>12, LeaveTallies DEF Unlink, faults
  <1>13. ASSUME NEW p \in Procs, LoadHealth(p)
         PROVE  Carries(p)
    <2> DEFINE r == [run[p] EXCEPT !.at = "save-health", !.prior = counted]
    <2>1. r.at = "save-health" /\ r.prior = counted /\ r.records = run[p].records
      BY <1>0 DEF Run
    <2>2. /\ Becomes(p, r) /\ Opens(p, "state") /\ counted' = counted /\ owed' = owed
          /\ overlapped \subseteq overlapped'
      BY <1>13 DEF LoadHealth, Opens, files
    <2> HIDE DEF r
    <2>. QED
      BY <2>1, <2>2, BecomesSets DEF Carries
  <1>14. ASSUME NEW p \in Procs, Command(p) \/ SetStop(p)
         PROVE  Carries(p)
    <2> DEFINE r == [run[p] EXCEPT !.standing = @ \cap Demands(p)']
    <2>1. r.at = run[p].at /\ r.records = run[p].records /\ r.prior = run[p].prior
      BY <1>0 DEF Run
    <2>2. Becomes(p, r) /\ counted' = counted /\ owed' = owed /\ overlapped' = overlapped
      BY <1>14 DEF Command, SetStop, KeepStanding, files, faults
    <2> HIDE DEF r
    <2>. QED
      BY <2>1, <2>2, BecomesSets DEF Carries, NothingYet
  <1>15. ASSUME NEW p \in Procs, Crash(p)
         PROVE  Loses(p)
    BY <1>15, BecomesSets DEF Crash, Loses
  <1>. QED
    BY <1>1, <1>2, <1>3, <1>4, <1>5, <1>6, <1>7, <1>8, <1>9, <1>10, <1>11, <1>12, <1>13, <1>14,
       <1>15 DEF Next, Proceed

\* A run that has nothing to count starts from nothing.
LEMMA NothingStep == Typed /\ NothingYet /\ [Next]_vars => NothingYet'
  <1> SUFFICES ASSUME Typed, NothingYet, [Next]_vars
               PROVE  NothingYet'
    OBVIOUS
  <1>1. ASSUME NEW p \in Procs, Carries(p) \/ Adds(p) \/ Loses(p) \/ SaveHealth(p)
        PROVE  NothingYet'
    <2>1. Idle.at = "idle" /\ Idle.records = 0
      BY DEF Idle
    <2>2. SaveHealth(p) => run'[p] = Idle /\ \A q \in Procs \ {p} : run'[q] = run[q]
      BY BecomesSets DEF SaveHealth
    <2>. QED
      BY <1>1, <2>1, <2>2 DEF Carries, Adds, Loses, NothingYet
  <1>2. ASSUME Tick \/ UNCHANGED vars
        PROVE  NothingYet'
    <2>1. \A p \in Procs : run[p] \in Run
      BY DEF Typed, TypeOK
    <2>2. \A p \in Procs : run'[p].at = run[p].at /\ run'[p].records = run[p].records
      BY <1>2, <2>1 DEF Tick, vars, Run
    <2>. QED
      BY <2>2 DEF NothingYet
  <1>. QED
    BY <1>1, <1>2, Tallies

LEMMA CarriesCount ==
  ASSUME Typed, Counting, NEW p \in Procs, Carries(p), "state" \notin overlapped'
  PROVE  Counting'
  <1>1. OneSave'
    <2>1. Opens(p, "state") => \A q \in Procs \ {p} : run[q].at # "save-health"
      BY DEF Opens, InCall
    <2>. QED
      BY <2>1 DEF Carries, Counting, OneSave
  <1>2. PriorKept'
    BY DEF Carries, Counting, PriorKept
  <1>3. Pending' = Pending
    BY PendingSame DEF Carries
  <1>4. CyclesCounted'
    BY <1>3 DEF Carries, Counting, CyclesCounted
  <1>. QED
    BY <1>1, <1>2, <1>4 DEF Counting

LEMMA AddsCount ==
  ASSUME Typed, Counting, NEW p \in Procs, Adds(p), "state" \notin overlapped'
  PROVE  Counting'
  <1>1. OneSave' /\ PriorKept'
    BY DEF Adds, Counting, OneSave, PriorKept
  <1>2. Cardinality(Pending)' = Cardinality(Pending) + 1
    BY PendingAdds DEF Adds
  <1> DEFINE a == counted + Cardinality(Pending)
  <1>3. a \in Int /\ counted \in Int /\ Cardinality(Pending) \in Int
    BY PendingFinite, UnattendedAssumption DEF Typed, TypeOK
  <1>4. (a + 1) % Modulus = ((a % Modulus) + 1) % Modulus
    BY <1>3, ReduceSum, UnattendedAssumption
  <1>5. counted' + Cardinality(Pending)' = a + 1
    BY <1>2, <1>3 DEF Adds
  <1>6. CyclesCounted'
    BY <1>4, <1>5 DEF Adds, Counting, CyclesCounted
  <1>. QED
    BY <1>1, <1>6 DEF Counting

LEMMA LosesCount ==
  ASSUME Typed, Counting, NEW p \in Procs, Loses(p), "state" \notin overlapped'
  PROVE  Counting'
  <1>0. Idle.at = "idle" /\ Idle.records = 0
    BY DEF Idle
  <1>1. OneSave' /\ PriorKept'
    BY <1>0 DEF Loses, Counting, OneSave, PriorKept
  <1>2. run[p].records \in 0 .. MaxCycles /\ run[p].records \in Int
    BY UnattendedAssumption DEF Typed, TypeOK, Run
  <1>3. Cardinality(Pending)' = Cardinality(Pending) - run[p].records
    BY <1>0, <1>2, PendingDrops DEF Loses
  <1> DEFINE a == counted + Cardinality(Pending)
             b == 0 - run[p].records
  <1>4. a \in Int /\ b \in Int /\ counted \in Int /\ Cardinality(Pending) \in Int
    BY <1>2, PendingFinite, UnattendedAssumption DEF Typed, TypeOK
  <1>5. (a + b) % Modulus = ((a % Modulus) + b) % Modulus
    <2> HIDE DEF a, b
    <2>. QED
      BY <1>4, ReduceSum, UnattendedAssumption
  <1>6. counted' + Cardinality(Pending)' = a + b
    BY <1>2, <1>3, <1>4 DEF Loses
  <1>7. owed' = ((a % Modulus) + b) % Modulus
    <2>1. owed = a % Modulus /\ owed \in Int
      BY UnattendedAssumption DEF Loses, Counting, CyclesCounted, Typed, TypeOK
    <2>2. owed - run[p].records = owed + b
      BY <1>2, <2>1
    <2>. QED
      BY <2>1, <2>2 DEF Loses
  <1>8. CyclesCounted'
    BY <1>5, <1>6, <1>7 DEF CyclesCounted
  <1>. QED
    BY <1>1, <1>8 DEF Counting

LEMMA SavesCount ==
  ASSUME Typed, Counting, NEW p \in Procs, SaveHealth(p), "state" \notin overlapped'
  PROVE  Counting'
  <1>0. Idle.at = "idle" /\ Idle.records = 0
    BY DEF Idle
  <1>1. /\ run'[p] = Idle /\ \A q \in Procs \ {p} : run'[q] = run[q]
        /\ run[p].at = "save-health" /\ owed' = owed
        /\ counted' = (run[p].prior + run[p].records) % Modulus
        /\ "state" \notin overlapped
    BY BecomesSets DEF SaveHealth, At, faults
  <1>2. run[p].prior = counted
    BY <1>1 DEF Counting, PriorKept
  <1>3. \A q \in Procs \ {p} : run[q].at # "save-health"
    BY <1>1 DEF Counting, OneSave
  <1>4. OneSave' /\ PriorKept'
    BY <1>0, <1>1, <1>3 DEF Counting, OneSave, PriorKept
  <1>5. run[p].records \in 0 .. MaxCycles /\ run[p].records \in Int
    BY UnattendedAssumption DEF Typed, TypeOK, Run
  <1>6. Cardinality(Pending)' = Cardinality(Pending) - run[p].records
    BY <1>0, <1>1, <1>5, PendingDrops
  <1> DEFINE a == counted + run[p].records
             b == Cardinality(Pending) - run[p].records
  <1>7. a \in Int /\ b \in Int /\ counted \in Int /\ Cardinality(Pending) \in Int
    BY <1>5, PendingFinite, UnattendedAssumption DEF Typed, TypeOK
  <1>8. ((a % Modulus) + b) % Modulus = (a + b) % Modulus
    <2> HIDE DEF a, b
    <2>. QED
      BY <1>7, ReduceSum, UnattendedAssumption
  <1>9. a + b = counted + Cardinality(Pending)
    BY <1>5, <1>7
  <1>10. counted' + Cardinality(Pending)' = (a % Modulus) + b
    BY <1>1, <1>2, <1>6
  <1>11. owed = (a + b) % Modulus
    BY <1>1, <1>9 DEF Counting, CyclesCounted
  <1>12. CyclesCounted'
    BY <1>1, <1>8, <1>10, <1>11 DEF CyclesCounted
  <1>. QED
    BY <1>4, <1>12 DEF Counting

LEMMA CountingStep ==
  ASSUME Typed, NothingYet, Counting, [Next]_vars, "state" \notin overlapped'
  PROVE  Counting'
  <1>1. ASSUME Tick \/ UNCHANGED vars
        PROVE  Counting'
    <2>1. \A p \in Procs : run[p] \in Run
      BY DEF Typed, TypeOK
    <2>2. /\ counted' = counted /\ owed' = owed /\ overlapped' = overlapped
          /\ \A p \in Procs : /\ run'[p].at = run[p].at /\ run'[p].prior = run[p].prior
                               /\ run'[p].records = run[p].records
      BY <1>1, <2>1 DEF Tick, faults, vars, Run
    <2>3. OneSave' /\ PriorKept'
      BY <2>2 DEF Counting, OneSave, PriorKept
    <2>4. Pending' = Pending
      BY <2>2, PendingSame
    <2>. QED
      BY <2>2, <2>3, <2>4 DEF Counting, CyclesCounted
  <1>2. CASE Next
    BY <1>1, <1>2, Tallies, CarriesCount, AddsCount, LosesCount, SavesCount
  <1>. QED
    BY <1>1, <1>2

\* As long as no two calls on the state file overlapped.
Counts == NothingYet /\ ("state" \notin overlapped => Counting)

\* The state file loses no cycle and counts none twice, whatever the number of
\* processes, of cycles and of crashes, and whatever happens to the lease, until
\* a save_health is interrupted between its read and its replacement by another.
THEOREM CountExact == Spec => []CyclesCounted
  <1>1. Init => Counts
    <2> SUFFICES ASSUME Init
                 PROVE  Counts
      OBVIOUS
    <2>1. OneSave /\ PriorKept /\ NothingYet
      BY DEF Init, OneSave, PriorKept, NothingYet, Idle
    <2>2. Pending = {}
      BY UnattendedAssumption DEF Init, Idle, Pending
    <2>3. Cardinality(Pending) = 0
      BY <2>2, FS_EmptySet
    <2>4. 0 % Modulus = 0
      BY UnattendedAssumption
    <2>. QED
      BY <2>1, <2>3, <2>4 DEF Init, Counts, Counting, CyclesCounted
  <1>2. Typed /\ Counts /\ [Next]_vars => Counts'
    BY Grows, NothingStep, CountingStep DEF Counts
  <1>3. Counts => CyclesCounted
    BY DEF Counts, Counting, CyclesCounted
  <1>. QED
    BY <1>1, <1>2, <1>3, InitTyped, StepTyped, PTL DEF Spec
=============================================================================
