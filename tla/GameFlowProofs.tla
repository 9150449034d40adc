--------------------------- MODULE GameFlowProofs ---------------------------
(* Theorems about GameFlow, for any seats, choices and presses a frame.  The  *)
(* invariant Flow says what the buttons that can still be pressed rely on.    *)
EXTENDS GameFlow, TLAPS

\* Screens that are shown once a seat is chosen, and once a recess choice is made.
Seated == {"rollCall", "basketball", "outcome", "canteen"}
Recessed == {"outcome", "canteen"}

Working == buttons \cup {screen}

\* The walk home is under way only with the day in the file, or a torn file.
Homeward == next = "return_home" => file = None \/ DayOf(file) = day

\* What the evening holds, if it could load the file, is what the file holds.
Evening ==
  screen = "evening" =>
    /\ buttons \subseteq {"evening"}
    /\ file # None /\ loaded # None => DayOf(loaded) = DayOf(file)

\* While the game is not running nothing can be pressed and no scene is on its way.
Off == screen = "off" => next = None /\ buttons = {}

Flow ==
  /\ TypeOK
  /\ next # None => buttons = {}
  /\ Off
  /\ Working \cap Seated # {} => seat # None
  /\ Working \cap Recessed # {} => choice # None
  /\ Homeward /\ Evening
  /\ EveningIsOfTheDay /\ SchoolSavesAreWhole

\* A save that is built from typed parts is a save.
LEMMA SaveTypes ==
  ASSUME TypeOK
  PROVE  /\ NewSaveState \in Saves /\ ~MadeAtSchool(NewSaveState)
         /\ \A scene \in {"school_first_day", "return_home"} :
              /\ SchoolSaveState(scene) \in Saves /\ DayOf(SchoolSaveState(scene)) = day
              /\ SchoolSaveState(scene).seat = seat /\ SchoolSaveState(scene).choice = choice
         /\ \A save \in Saves :
              /\ Completed(save) \in Saves /\ DayOf(Completed(save)) = DayOf(save)
              /\ ~MadeAtSchool(Completed(save))
  <1>1. NewSaveState \in Saves /\ ~MadeAtSchool(NewSaveState)
    BY DEF NewSaveState, Saves, MadeAtSchool
  <1>2. ASSUME NEW scene \in {"school_first_day", "return_home"}
        PROVE  /\ SchoolSaveState(scene) \in Saves /\ DayOf(SchoolSaveState(scene)) = day
               /\ SchoolSaveState(scene).seat = seat /\ SchoolSaveState(scene).choice = choice
    BY DEF SchoolSaveState, NewSaveState, Saves, DayOf, day, TypeOK
  <1>3. ASSUME NEW save \in Saves
        PROVE  /\ Completed(save) \in Saves /\ DayOf(Completed(save)) = DayOf(save)
               /\ ~MadeAtSchool(Completed(save))
    BY DEF Completed, Saves, DayOf, MadeAtSchool
  <1> QED BY <1>1, <1>2, <1>3 DEF Saves

\* The invariant holds when the game is not running and there is no file.
LEMMA FlowInit == Init => Flow
  <1> SUFFICES ASSUME Init PROVE Flow
    OBVIOUS
  <1>1. TypeOK
    <2>1. 0 \in 0 .. MaxPresses
      BY GameAssumption
    <2> QED BY <2>1, Zenon DEF Init, TypeOK
  <1>2. Homeward
    BY DEF Init, Homeward
  <1>3. screen = "off" /\ buttons = {} /\ file = None
    BY DEF Init
  <1>4. Working \cap Seated = {} /\ Working \cap Recessed = {}
    BY <1>3 DEF Working, Seated, Recessed
  <1> QED BY <1>1, <1>2, <1>3, <1>4 DEF Flow, Init, Off, Evening, EveningIsOfTheDay, SchoolSavesAreWhole

\* The handlers that show another screen of the scene, and leave file and evening alone.
LEMMA FlowShow ==
  ASSUME Flow, NEW from \in Screens \ {"evening"}, NEW to \in Screens \ {"evening"},
         Press(from), Show(to), UNCHANGED <<loaded, file>>,
         seat' \in Seats \cup {None}, choice' \in Choices \cup {None}, rumor' \in BOOLEAN,
         seat # None => seat' # None, choice # None => choice' # None,
         to \in Seated => from \in Seated \/ seat' # None,
         to \in Recessed => from \in Recessed \/ choice' # None
  PROVE  Flow'
  <1> USE DEF Press, Show
  <1>1. TypeOK'
    BY GameAssumption DEF Flow, TypeOK, Screens
  <1>2. next = None /\ next' = None
    BY DEF Flow
  <1>3. from \in Working /\ Working' \subseteq Working \cup {to}
    BY DEF Working
  <1>4. (Working \cap Seated # {} => seat # None)'
    <2>1. CASE to \in Seated
      BY <2>1, <1>3 DEF Flow
    <2>2. CASE to \notin Seated
      BY <2>2, <1>3 DEF Flow
    <2> QED BY <2>1, <2>2
  <1>5. (Working \cap Recessed # {} => choice # None)'
    <2>1. CASE to \in Recessed
      BY <2>1, <1>3 DEF Flow
    <2>2. CASE to \notin Recessed
      BY <2>2, <1>3 DEF Flow
    <2> QED BY <2>1, <2>2
  <1>6. Homeward'
    BY <1>2, GameAssumption DEF Homeward, FirstScreen
  <1>7. screen' \notin {"evening", "off"}
    BY DEF Screens, School
  <1>8. Evening' /\ EveningIsOfTheDay' /\ SchoolSavesAreWhole'
    BY <1>7 DEF Flow, Evening, EveningIsOfTheDay, SchoolSavesAreWhole
  <1> QED BY <1>1, <1>2, <1>4, <1>5, <1>6, <1>7, <1>8 DEF Flow, Off

\* Leaving for a scene other than the evening's, and staying when that fails.
LEMMA FlowGoOut ==
  ASSUME Flow, NEW from \in Screens, NEW scene \in DOMAIN FirstScreen \ {"return_home"},
         GoOut(from, scene)
  PROVE  Flow'
  <1> USE DEF GoOut, Leave, Stay, Press
  <1>1. TypeOK'
    BY GameAssumption DEF Flow, TypeOK, day
  <1>2. (next # None => buttons = {})' /\ Homeward'
    BY GameAssumption DEF Flow, Homeward, day, DayOf, FirstScreen
  <1>3. Working' \subseteq Working /\ UNCHANGED <<day, file, loaded, screen>>
    BY DEF Working
  <1>4. (Working \cap Seated # {} => seat # None)' /\ (Working \cap Recessed # {} => choice # None)'
    BY <1>3 DEF Flow, day
  <1>5. Evening' /\ EveningIsOfTheDay' /\ SchoolSavesAreWhole'
    BY <1>3 DEF Flow, Evening, EveningIsOfTheDay, SchoolSavesAreWhole, DayOf, day, Completed, NewSaveState
  <1>6. Off'
    BY DEF Flow, Off
  <1> QED BY <1>1, <1>2, <1>4, <1>5, <1>6 DEF Flow

\* Saving in the morning or at school, with the screen left as it is.
LEMMA FlowSave ==
  ASSUME Flow, NEW from \in Screens \ {"evening"}, NEW save \in Saves,
         Press(from), Stay, Saved(save) \/ SaveFails, UNCHANGED <<day, loaded>>,
         MadeAtSchool(save) => save.seat # None /\ save.choice # None
  PROVE  Flow'
  <1> USE DEF Press, Stay
  <1>1. TypeOK'
    BY GameAssumption DEF Flow, TypeOK, day, Saved, SaveFails
  <1>2. next' = None
    BY DEF Flow
  <1>3. Homeward' /\ (next # None => buttons = {})'
    BY <1>2, GameAssumption DEF Homeward, FirstScreen
  <1>4. Working' = Working /\ UNCHANGED day
    BY DEF Working
  <1>5. (Working \cap Seated # {} => seat # None)' /\ (Working \cap Recessed # {} => choice # None)'
    BY <1>4 DEF Flow, day
  <1>6. screen # "evening"
    BY DEF Flow, Evening
  <1>7. SchoolSavesAreWhole'
    BY DEF Flow, SchoolSavesAreWhole, Saved, SaveFails
  <1> QED BY <1>1, <1>3, <1>5, <1>6, <1>7 DEF Flow, Off, Evening, EveningIsOfTheDay

\* Heading home: the change of scene follows a save that answered TRUE.
LEMMA FlowHome ==
  ASSUME Flow, NEW from \in Recessed, HeadHome(from)
  PROVE  Flow'
  <1> DEFINE save == SchoolSaveState("return_home")
  <1>1. TypeOK
    BY DEF Flow
  <1>2. save \in Saves /\ DayOf(save) = day /\ save.seat # None /\ save.choice # None
    <2>1. seat # None /\ choice # None
      BY DEF Flow, HeadHome, Press, Working, Seated, Recessed
    <2> QED BY <1>1, <2>1, SaveTypes
  <1> HIDE DEF save
  <1>3. from \in Screens \ {"evening"}
    BY DEF Recessed, Screens, School
  <1>4. Press(from) /\ UNCHANGED <<day, loaded>>
    BY DEF HeadHome
  <1>5. CASE Stay /\ (Saved(save) \/ SaveFails)
    BY <1>2, <1>3, <1>4, <1>5, FlowSave
  <1>6. CASE Saved(save) /\ next' = "return_home" /\ buttons' = {} /\ UNCHANGED screen
    <2>1. TypeOK'
      BY <1>1, <1>2, <1>4, <1>6, GameAssumption DEF TypeOK, Press, Saved, day, FirstScreen
    <2>2. Homeward'
      BY <1>2, <1>4, <1>6 DEF Homeward, Saved, DayOf, day
    <2>3. Working' \subseteq Working /\ UNCHANGED day
      BY <1>4, <1>6 DEF Working
    <2>4. (Working \cap Seated # {} => seat # None)' /\ (Working \cap Recessed # {} => choice # None)'
      BY <2>3 DEF Flow, day
    <2>5. screen # "evening"
      BY <1>3, <1>4 DEF Flow, Evening, Press
    <2>6. SchoolSavesAreWhole'
      BY <1>2, <1>6 DEF SchoolSavesAreWhole, Saved
    <2> QED BY <1>4, <1>6, <2>1, <2>2, <2>4, <2>5, <2>6 DEF Flow, Off, Press, Evening, EveningIsOfTheDay
  <1> QED BY <1>5, <1>6 DEF HeadHome, Leave, Stay, save

\* Saving in the evening, once or again.
LEMMA FlowEvening == Flow /\ SaveEvening => Flow'
  <1> SUFFICES ASSUME Flow, SaveEvening PROVE Flow'
    OBVIOUS
  <1> USE DEF Press, Stay
  <1>1. TypeOK /\ next' = None /\ Press("evening") /\ Stay /\ UNCHANGED day
    BY DEF Flow, SaveEvening
  <1>2. PICK was \in Saves : EveningState = Completed(was) /\ was = (IF loaded = None THEN NewSaveState ELSE loaded)
    BY <1>1, SaveTypes DEF EveningState, TypeOK
  <1>3. /\ EveningState \in Saves /\ DayOf(EveningState) = DayOf(was)
        /\ ~MadeAtSchool(EveningState)
    BY <1>1, <1>2, SaveTypes
  <1>4. (file' \in {EveningState, None} /\ loaded' = EveningState) \/ UNCHANGED <<file, loaded>>
    BY DEF SaveEvening, Saved, SaveFails
  <1>5. TypeOK'
    BY <1>1, <1>3, <1>4, GameAssumption DEF TypeOK, day
  <1>6. Homeward' /\ (next # None => buttons = {})'
    BY <1>1, GameAssumption DEF Homeward, FirstScreen
  <1>7. Working' = Working
    BY <1>1 DEF Working
  <1>8. (Working \cap Seated # {} => seat # None)' /\ (Working \cap Recessed # {} => choice # None)'
    BY <1>1, <1>7 DEF Flow, day
  <1>9. Evening'
    BY <1>1, <1>4 DEF Flow, Evening, DayOf
  <1>10. EveningIsOfTheDay'
    <2>1. SUFFICES ASSUME screen = "evening", loaded' = EveningState
                   PROVE  loaded' = Completed(NewSaveState) \/ DayOf(loaded') = day
      BY <1>1, <1>4 DEF Flow, EveningIsOfTheDay, DayOf, day, Completed, NewSaveState
    <2>2. CASE loaded \in {None, Completed(NewSaveState)}
      BY <1>2, <2>1, <2>2 DEF Completed
    <2>3. CASE loaded \notin {None, Completed(NewSaveState)}
      BY <1>2, <1>3, <2>1, <2>3 DEF Flow, EveningIsOfTheDay
    <2> QED BY <2>2, <2>3
  <1>11. SchoolSavesAreWhole'
    BY <1>3, <1>4 DEF Flow, SchoolSavesAreWhole
  <1> QED BY <1>1, <1>5, <1>6, <1>8, <1>9, <1>10, <1>11 DEF Flow, Off

\* The engine adds a scene, ends a frame, starts the game or takes it away.
LEMMA FlowEngine == Flow /\ (Launch \/ EndFrame \/ Enter \/ Quit) => Flow'
  <1> SUFFICES ASSUME Flow, Launch \/ EndFrame \/ Enter \/ Quit PROVE Flow'
    OBVIOUS
  <1>1. 0 \in 0 .. MaxPresses /\ TypeOK /\ UNCHANGED file
    BY GameAssumption DEF Flow, Launch, EndFrame, Enter, Quit
  <1>2. SchoolSavesAreWhole'
    BY <1>1 DEF Flow, SchoolSavesAreWhole
  <1>4. CASE Enter
    <2>1. next \in DOMAIN FirstScreen /\ FirstScreen[next] \in {"entry", "street", "courtyard", "evening"}
      BY <1>1, <1>4 DEF TypeOK, Enter, FirstScreen
    <2>2. TypeOK'
      BY <1>1, <1>4, <2>1 DEF TypeOK, Enter, Load, Screens, School, day
    <2>3. Working' \cap (Seated \cup Recessed) = {}
      BY <1>4, <2>1 DEF Enter, Working, Seated, Recessed
    <2>4. (next # None => buttons = {})' /\ Homeward'
      BY <1>4, GameAssumption DEF Enter, Homeward, FirstScreen
    <2>5. FirstScreen[next] = "evening" => next = "return_home"
      BY <2>1 DEF FirstScreen
    <2>6. screen' = "evening" => next = "return_home" /\ UNCHANGED day /\ loaded' \in {file, None}
      BY <1>4, <2>5 DEF Enter, Load
    <2>7. Evening'
      BY <1>1, <1>4, <2>6 DEF Evening, Enter, DayOf
    <2>8. EveningIsOfTheDay'
      BY <2>6 DEF Flow, Homeward, EveningIsOfTheDay, DayOf, day
    <2>9. Off'
      BY <1>4, <2>1 DEF Enter, Off
    <2> QED BY <1>2, <2>2, <2>3, <2>4, <2>7, <2>8, <2>9 DEF Flow
  <1>5. CASE Launch \/ EndFrame \/ Quit
    <2>1. /\ UNCHANGED <<day, loaded, file>>
          /\ screen' \in {screen, "entry", "off"} /\ buttons' \in {{}, {screen'}}
          /\ screen' = "off" => buttons' = {}
          /\ presses' = 0
      BY <1>5 DEF Launch, EndFrame, Quit
    <2>2. next' = None
      <3>1. CASE Launch
        BY <3>1 DEF Launch, Flow, Off
      <3>2. CASE EndFrame \/ Quit
        BY <3>2 DEF EndFrame, Quit
      <3> QED BY <1>5, <3>1, <3>2
    <2>3. screen' \in Screens \cup {"off"} /\ (screen' # "off" => screen' \in Screens)
      BY <1>1, <2>1 DEF TypeOK, Screens
    <2>4. TypeOK'
      BY <1>1, <2>1, <2>2, <2>3 DEF TypeOK, day
    <2>5. (next # None => buttons = {})' /\ Homeward' /\ Off'
      BY <2>1, <2>2, GameAssumption DEF Homeward, FirstScreen, Off
    <2>6. Working' \cap (Seated \cup Recessed) \subseteq Working
      BY <2>1 DEF Working, Seated, Recessed
    <2>7. (Working \cap Seated # {} => seat # None)' /\ (Working \cap Recessed # {} => choice # None)'
      BY <2>1, <2>6 DEF Flow, day
    <2>8. Evening' /\ EveningIsOfTheDay'
      BY <2>1 DEF Flow, Evening, EveningIsOfTheDay, DayOf, day, Completed, NewSaveState
    <2> QED BY <1>2, <2>2, <2>4, <2>5, <2>7, <2>8 DEF Flow
  <1> QED BY <1>4, <1>5

\* Every step keeps the invariant.
LEMMA FlowStep == Flow /\ [Next]_vars => Flow'
  <1> SUFFICES ASSUME Flow, [Next]_vars PROVE Flow'
    OBVIOUS
  <1> USE DEF Walk
  <1>1. TypeOK
    BY DEF Flow
  <1>2. ASSUME NEW from \in Screens, NEW to \in Screens, Walk(from, to),
               from # "evening", to # "evening",
               to \in Seated => from \in Seated, to \in Recessed => from \in Recessed
        PROVE  Flow'
    BY <1>1, <1>2, FlowShow DEF TypeOK, day
  <1>3. CASE MorningWalk \/ SchoolWalk
    BY <1>2, <1>3 DEF MorningWalk, SchoolWalk, Screens, School, Seated, Recessed
  <1>4. CASE SaveMorning
    <2>1. "threshold" \in Screens \ {"evening"} /\ NewSaveState \in Saves
      BY <1>1, SaveTypes DEF Screens
    <2>2. ~MadeAtSchool(NewSaveState)
      BY <1>1, SaveTypes
    <2> QED BY <1>4, <2>1, <2>2, FlowSave DEF SaveMorning
  <1>5. CASE \/ GoOut("threshold", "street") \/ GoOut("street", "school_first_day")
             \/ GoOut("evening", "home_morning")
    BY <1>5, FlowGoOut DEF Screens, FirstScreen
  <1>6. CASE SelectSeat
    <2>1. seat' # None /\ seat' \in Seats \cup {None}
      BY <1>6, GameAssumption DEF SelectSeat
    <2> QED BY <1>1, <1>6, <2>1, FlowShow DEF SelectSeat, TypeOK, Screens, School, Seated, Recessed
  <1>7. CASE SelectBasketball
    <2>1. choice' # None /\ choice' \in Choices \cup {None}
      BY <1>7, GameAssumption DEF SelectBasketball
    <2> QED BY <1>1, <1>7, <2>1, FlowShow DEF SelectBasketball, TypeOK, Screens, School, Seated, Recessed
  <1>8. CASE ObserveRumor
    BY <1>1, <1>8, FlowShow DEF ObserveRumor, TypeOK, Screens, School, Seated, Recessed
  <1>9. ASSUME NEW from \in Recessed, SaveSchool(from) PROVE Flow'
    <2>1. from \in Screens \ {"evening"}
      BY DEF Recessed, Screens, School
    <2>2. SchoolSaveState("school_first_day") \in Saves
      BY <1>1, SaveTypes
    <2>3. SchoolSaveState("school_first_day").seat = seat /\ SchoolSaveState("school_first_day").choice = choice
      BY <1>1, SaveTypes
    <2>4. seat # None /\ choice # None
      BY <1>9 DEF Flow, SaveSchool, Press, Working, Seated, Recessed
    <2> QED BY <1>9, <2>1, <2>2, <2>3, <2>4, FlowSave DEF SaveSchool
  <1>10. CASE \E from \in {"outcome", "canteen"} : SaveSchool(from) \/ HeadHome(from)
    BY <1>9, <1>10, FlowHome DEF Recessed
  <1>11. CASE UNCHANGED vars
    BY <1>11 DEF vars, ui, day, Flow, TypeOK, Off, Working, Homeward, Evening, EveningIsOfTheDay,
       SchoolSavesAreWhole, DayOf, Completed, NewSaveState
  <1> QED BY <1>3, <1>4, <1>5, <1>6, <1>7, <1>8, <1>10, <1>11, FlowEvening, FlowEngine DEF Next

-----------------------------------------------------------------------------

\* The variables keep their types.
THEOREM TypeCorrect == Spec => []TypeOK
  <1>1. Flow => TypeOK
    BY DEF Flow
  <1> QED BY <1>1, FlowInit, FlowStep, PTL DEF Spec

\* The evening never tells of another day than the one just played.
THEOREM EveningFaithful == Spec => []EveningIsOfTheDay
  <1>1. Flow => EveningIsOfTheDay
    BY DEF Flow
  <1> QED BY <1>1, FlowInit, FlowStep, PTL DEF Spec

\* School never saves a day without a seat or without a recess.
THEOREM SchoolSavesWhole == Spec => []SchoolSavesAreWhole
  <1>1. Flow => SchoolSavesAreWhole
    BY DEF Flow
  <1> QED BY <1>1, FlowInit, FlowStep, PTL DEF Spec

\* While the evening is on the screen only its own handlers run, and what they write is
\* the day the file holds, unless the file could not be loaded: the copy loaded when the
\* scene came up never goes stale.
LEMMA EveningStep ==
  Flow /\ [Next]_vars =>
    [screen = "evening" /\ file # None /\ file' # None =>
       \/ DayOf(file') = DayOf(file)
       \/ loaded = None /\ file' = Completed(NewSaveState)]_vars
  <1> SUFFICES ASSUME Flow, Next, screen = "evening", file # None, file' # None
               PROVE  \/ DayOf(file') = DayOf(file)
                      \/ loaded = None /\ file' = Completed(NewSaveState)
    BY DEF vars, DayOf
  <1>1. /\ buttons \subseteq {"evening"} /\ TypeOK
        /\ loaded # None => DayOf(loaded) = DayOf(file)
    BY DEF Flow, Evening
  <1>2. CASE SaveEvening /\ loaded # None
    <2>1. loaded \in Saves /\ EveningState = Completed(loaded)
      BY <1>1, <1>2 DEF TypeOK, EveningState
    <2>2. DayOf(EveningState) = DayOf(loaded)
      BY <1>1, <2>1, SaveTypes
    <2> QED BY <1>1, <1>2, <2>2 DEF SaveEvening, Saved, SaveFails
  <1>3. CASE SaveEvening /\ loaded = None
    BY <1>3 DEF SaveEvening, Saved, SaveFails, EveningState
  <1>4. CASE ~SaveEvening
    <2>1. ~(\E from \in {"outcome", "canteen"} : SaveSchool(from) \/ HeadHome(from))
      BY <1>1 DEF SaveSchool, HeadHome, Press
    <2>2. ~SaveMorning
      BY <1>1 DEF SaveMorning, Press
    <2>3. UNCHANGED file
      BY <1>4, <2>1, <2>2 DEF Next, MorningWalk, SchoolWalk, Walk, GoOut, SelectSeat, SelectBasketball,
         ObserveRumor, Launch, EndFrame, Enter, Quit
    <2> QED BY <2>3 DEF DayOf
  <1> QED BY <1>2, <1>3, <1>4

\* The evening replaces the day in the file only if it could not load it.
THEOREM EveningKeeps == Spec => EveningKeepsTheDay
  <1> QED BY FlowInit, FlowStep, EveningStep, PTL DEF Spec, EveningKeepsTheDay
=============================================================================
