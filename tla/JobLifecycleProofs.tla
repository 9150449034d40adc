-------------------------- MODULE JobLifecycleProofs --------------------------
(***************************************************************************)
(* What the lifecycle contract is worth: facts about any job of any set of *)
(* operations, and so, by the refinements, about every component that      *)
(* implements JobLifecycle.                                                *)
(***************************************************************************)
EXTENDS JobLifecycle, FiniteSets, FiniteSetTheorems, TLAPS

\* The operations that took effect.
Consumed == {op \in Operations : results[op] # {}}

LEMMA Targets ==
  ASSUME NEW s \in JobState, NEW t \in ALLOWED_TRANSITIONS[s]
  PROVE  /\ t \in JobState /\ t # "queued" /\ s \notin TERMINAL_STATES
         /\ t \in {"validating", "reviewing", "approved", "merging", "completed"} =>
              s \in {"executing", "validating", "reviewing", "approved", "merging"}
  BY DEF ALLOWED_TRANSITIONS, JobState, TERMINAL_STATES, Exits

\* A step of the contract: one operation takes effect, the others keep what they
\* recorded.
LEMMA StepConsumes ==
  ASSUME LifecycleTypeOK, NEW op \in Operations, Create(op) \/ Move(op) \/ Annotate(op)
  PROVE  /\ LifecycleTypeOK'
         /\ op \notin Consumed /\ Consumed' = Consumed \cup {op}
         /\ \A other \in Consumed : results'[other] = results[other]
         /\ attempts' = attempts \/ (attempts' = attempts + 1 /\ state' = "executing")
  <1>1. /\ op \notin Consumed /\ Consumed' = Consumed \cup {op}
        /\ \A other \in Consumed : results'[other] = results[other]
        /\ DOMAIN results' = Operations
    BY DEF Create, Move, Annotate, Consume, Fresh, Consumed
  <1>2. state' \in JobState
    BY Targets DEF Create, Move, Annotate, LifecycleTypeOK, JobState
  <1>. QED
    BY <1>1, <1>2 DEF Create, Move, Annotate, LifecycleTypeOK

\* Every job that was ever taken on is in a lifecycle state.
THEOREM LifecycleTypeCorrect == LifecycleSpec => []LifecycleTypeOK
  <1>1. LifecycleInit => LifecycleTypeOK
    BY DEF LifecycleInit, LifecycleTypeOK, JobState
  <1>2. LifecycleTypeOK /\ [LifecycleNext]_lifecycleVars => LifecycleTypeOK'
    BY StepConsumes DEF LifecycleNext, lifecycleVars, LifecycleTypeOK
  <1>. QED
    BY <1>1, <1>2, PTL DEF LifecycleSpec

\* A terminal job moves no more, a job that exists is never absent again or queued
\* anew, its attempts never decrease, and no operation changes what it recorded.
OneWay ==
  /\ state \in TERMINAL_STATES => UNCHANGED <<state, attempts>>
  /\ state # "absent" => state' # "absent" /\ (state' = "queued" => state = "queued")
  /\ attempts' >= attempts
  /\ \A op \in Consumed : results'[op] = results[op]

LEMMA StepIsOneWay ==
  ASSUME LifecycleTypeOK, [LifecycleNext]_lifecycleVars
  PROVE  OneWay
  <1>1. CASE UNCHANGED lifecycleVars
    BY <1>1 DEF lifecycleVars, LifecycleTypeOK, OneWay
  <1>2. ASSUME NEW op \in Operations, Create(op) \/ Move(op) \/ Annotate(op)
        PROVE  OneWay
    <2>1. /\ attempts' >= attempts /\ attempts \in Nat
          /\ \A other \in Consumed : results'[other] = results[other]
          /\ state' \in JobState \cup {"absent"}
      BY <1>2, StepConsumes DEF LifecycleTypeOK
    <2>2. CASE Create(op)
      BY <2>1, <2>2 DEF Create, TERMINAL_STATES, OneWay
    <2>3. CASE Move(op)
      <3>1. state \in JobState
        BY <2>3 DEF Move, LifecycleTypeOK
      <3>2. state' \in JobState /\ state' # "queued" /\ state \notin TERMINAL_STATES
        BY <2>3, <3>1, Targets DEF Move
      <3>3. state' # "absent"
        BY <3>2 DEF JobState, TERMINAL_STATES
      <3>. QED
        BY <2>1, <3>2, <3>3 DEF OneWay
    <2>4. CASE Annotate(op)
      BY <2>1, <2>4 DEF Annotate, OneWay
    <2>. QED
      BY <1>2, <2>2, <2>3, <2>4
  <1>. QED
    BY <1>1, <1>2 DEF LifecycleNext

\* The lifecycle of a job never runs backwards.
THEOREM NeverBack == LifecycleSpec => [][OneWay]_lifecycleVars
  <1>. QED
    BY LifecycleTypeCorrect, StepIsOneWay, PTL DEF LifecycleSpec

\* A job past its execution has been executed.
Executed ==
  state \in {"executing", "validating", "reviewing", "approved", "merging", "completed"} =>
    attempts >= 1

LEMMA StepExecutes ==
  ASSUME LifecycleTypeOK, Executed, [LifecycleNext]_lifecycleVars
  PROVE  Executed'
  <1>1. CASE UNCHANGED lifecycleVars
    BY <1>1 DEF lifecycleVars, Executed
  <1>2. ASSUME NEW op \in Operations, Create(op) \/ Move(op) \/ Annotate(op)
        PROVE  Executed'
    <2>1. /\ attempts' = attempts \/ (attempts' = attempts + 1 /\ state' = "executing")
          /\ attempts \in Nat
      BY <1>2, StepConsumes DEF LifecycleTypeOK
    <2>2. CASE Create(op) \/ Annotate(op)
      BY <2>2 DEF Create, Annotate, Executed
    <2>3. CASE Move(op)
      <3>1. state \in JobState /\ state' \in ALLOWED_TRANSITIONS[state]
        BY <2>3 DEF Move, LifecycleTypeOK
      <3>2. CASE state' = "executing"
        BY <2>1, <2>3, <3>2 DEF Move, Executed
      <3>3. CASE state' # "executing"
        BY <2>1, <3>1, <3>3, Targets DEF Executed
      <3>. QED
        BY <3>2, <3>3
    <2>. QED
      BY <1>2, <2>2, <2>3
  <1>. QED
    BY <1>1, <1>2 DEF LifecycleNext

\* No job is validated, reviewed, merged or completed without having been executed.
THEOREM ExecutedFirst == LifecycleSpec => []Executed
  <1>1. LifecycleInit => Executed
    BY DEF LifecycleInit, Executed
  <1>. QED
    BY <1>1, LifecycleTypeCorrect, StepExecutes, PTL DEF LifecycleSpec

\* Each attempt took an operation of its own.
AttemptsTaken == attempts <= Cardinality(Consumed)

LEMMA StepTakes ==
  ASSUME IsFiniteSet(Operations), LifecycleTypeOK, AttemptsTaken,
         [LifecycleNext]_lifecycleVars
  PROVE  AttemptsTaken'
  <1>1. CASE UNCHANGED lifecycleVars
    BY <1>1 DEF lifecycleVars, AttemptsTaken, Consumed
  <1>2. ASSUME NEW op \in Operations, Create(op) \/ Move(op) \/ Annotate(op)
        PROVE  AttemptsTaken'
    <2>1. /\ op \notin Consumed /\ Consumed' = Consumed \cup {op}
          /\ attempts' \in {attempts, attempts + 1} /\ attempts \in Nat
      BY <1>2, StepConsumes DEF LifecycleTypeOK
    <2>2. IsFiniteSet(Consumed)
      BY FS_Subset DEF Consumed
    <2>3. /\ Cardinality(Consumed) \in Nat
          /\ Cardinality(Consumed') = Cardinality(Consumed) + 1
      BY <2>1, <2>2, FS_CardinalityType, FS_AddElement
    <2>. QED
      BY <2>1, <2>3 DEF AttemptsTaken
  <1>. QED
    BY <1>1, <1>2 DEF LifecycleNext

\* No job is executed more often than there are operations that took effect.
THEOREM AttemptsBounded ==
  ASSUME IsFiniteSet(Operations)
  PROVE  LifecycleSpec => []AttemptsTaken
  <1>1. LifecycleInit => AttemptsTaken
    <2>. SUFFICES ASSUME LifecycleInit
                  PROVE  AttemptsTaken
      OBVIOUS
    <2>1. Consumed = {}
      BY DEF LifecycleInit, Consumed
    <2>. QED
      BY <2>1, FS_EmptySet DEF LifecycleInit, AttemptsTaken
  <1>. QED
    BY <1>1, LifecycleTypeCorrect, StepTakes, PTL DEF LifecycleSpec
=============================================================================
