------------------------------ MODULE GameFlow ------------------------------
(***************************************************************************)
(* The first day of the game: the scenes home_morning, street              *)
(* (neighborhood_to_school), school_first_day and return_home, the one     *)
(* save file they share (save_service.gd) and the scene changes between    *)
(* them (scene_transition.gd).                                             *)
(*                                                                         *)
(* A scene shows one screen after another.  Showing a screen frees the     *)
(* buttons of the one before with queue_free, which takes effect at the    *)
(* end of the frame: until then they can still be pressed, and presses of  *)
(* one frame are handled one after another.  A scene change removes the    *)
(* old scene at once and adds the new one at the end of the frame (Godot   *)
(* 4.7).  store_string reports nothing to save_game, so a save that was    *)
(* cut short is a save that succeeded; a game killed while it saves leaves *)
(* the same file, and is a torn save followed by Quit.                     *)
(*                                                                         *)
(* Names, breakfast, relationships and the entries of the memory log are   *)
(* data that no screen of the flow depends on.  The bound is MaxPresses,   *)
(* the presses handled in one frame.                                       *)
(***************************************************************************)
EXTENDS Naturals

CONSTANTS Seats, Choices, MaxPresses, None

\* Every scene of the flow and the screen it comes up with.
FirstScreen == [home_morning |-> "entry", street |-> "street",
                school_first_day |-> "courtyard", return_home |-> "evening"]

ASSUME GameAssumption ==
  None \notin Seats \cup Choices \cup DOMAIN FirstScreen /\ MaxPresses \in Nat

VARIABLES
  screen,   \* the screen last shown, "off" while the game is not running
  next,     \* the scene that the end of this frame adds, None without a change
  buttons,  \* the screens whose buttons are in the tree
  presses,  \* the presses handled in this frame
  seat,     \* selected_seat_id of the last day at school
  choice,   \* selected_basketball_choice_id of that day
  rumor,    \* discovered_rumor of that day is not empty
  loaded,   \* _saved_state of the evening; None is the empty dictionary
  file      \* the save file; None when it is missing or cannot be parsed

ui == <<screen, next, buttons, presses>>
day == <<seat, choice, rumor>>
vars == <<ui, day, loaded, file>>

School == {"courtyard", "classroom", "rollCall", "basketball", "outcome", "canteen"}
Screens == {"entry", "bedroom", "kitchen", "threshold", "street", "evening"} \cup School

Saves == [scene : {"home_morning", "school_first_day", "return_home"},
          seat : Seats \cup {None}, choice : Choices \cup {None},
          rumor : BOOLEAN, complete : BOOLEAN]

\* The type invariant.
TypeOK ==
  /\ screen \in Screens \cup {"off"} /\ next \in DOMAIN FirstScreen \cup {None}
  /\ buttons \subseteq Screens /\ presses \in 0 .. MaxPresses
  /\ seat \in Seats \cup {None} /\ choice \in Choices \cup {None} /\ rumor \in BOOLEAN
  /\ loaded \in Saves \cup {None} /\ file \in Saves \cup {None}

Init ==
  /\ screen = "off" /\ next = None /\ buttons = {} /\ presses = 0
  /\ seat = None /\ choice = None /\ rumor = FALSE /\ loaded = None
  /\ file = None

-----------------------------------------------------------------------------

(* What the handlers of the buttons are made of. *)

Press(s) ==
  /\ s \in buttons /\ presses < MaxPresses
  /\ presses' = presses + 1

Show(s) ==
  /\ screen' = s /\ buttons' = buttons \cup {s}
  /\ UNCHANGED next

Stay == UNCHANGED <<screen, next, buttons>>

Leave(scene) ==
  \/ next' = scene /\ buttons' = {} /\ UNCHANGED screen
  \/ Stay

\* Every save built on it sets its scene.
NewSaveState == [scene |-> "home_morning", seat |-> None, choice |-> None,
                 rumor |-> FALSE, complete |-> FALSE]

\* save_game answers TRUE, whether or not the text reached the disk.
Saved(save) == file' \in {save, None}
SaveFails == UNCHANGED file

SchoolSaveState(scene) == [NewSaveState EXCEPT !.scene = scene, !.seat = seat,
                                               !.choice = choice, !.rumor = rumor]

-----------------------------------------------------------------------------

(* home_morning and neighborhood_to_school *)

Walk(from, to) ==
  /\ Press(from) /\ Show(to)
  /\ UNCHANGED <<day, loaded, file>>

MorningWalk == \/ Walk("entry", "bedroom") \/ Walk("bedroom", "kitchen")
               \/ Walk("kitchen", "threshold")

SaveMorning ==
  /\ Press("threshold") /\ Stay
  /\ Saved(NewSaveState) \/ SaveFails
  /\ UNCHANGED <<day, loaded>>

GoOut(from, scene) ==
  /\ Press(from) /\ Leave(scene)
  /\ UNCHANGED <<day, loaded, file>>

-----------------------------------------------------------------------------

(* school_first_day *)

SelectSeat ==
  /\ Press("classroom")
  /\ seat' \in Seats
  /\ Show("rollCall")
  /\ UNCHANGED <<choice, rumor, loaded, file>>

SelectBasketball ==
  /\ Press("basketball")
  /\ choice' \in Choices
  /\ Show("outcome")
  /\ UNCHANGED <<seat, rumor, loaded, file>>

ObserveRumor ==
  /\ Press("outcome")
  /\ rumor' = TRUE
  /\ Show("canteen")
  /\ UNCHANGED <<seat, choice, loaded, file>>

\* Mutant: the first bell leads to the roll call.
SchoolWalkEarly == Walk("courtyard", "rollCall") \/ Walk("rollCall", "basketball")

SchoolWalk == Walk("courtyard", "classroom") \/ Walk("rollCall", "basketball")

SaveSchool(from) ==
  /\ Press(from) /\ Stay
  /\ Saved(SchoolSaveState("school_first_day")) \/ SaveFails
  /\ UNCHANGED <<day, loaded>>

\* Mutant: a failed save does not hold back the walk home.
HeadHomeUnsaved(from) ==
  /\ Press(from)
  /\ Saved(SchoolSaveState("return_home")) \/ SaveFails
  /\ Leave("return_home")
  /\ UNCHANGED <<day, loaded>>

HeadHome(from) ==
  /\ Press(from)
  /\ \/ Saved(SchoolSaveState("return_home")) /\ Leave("return_home")
     \/ SaveFails /\ Stay
  /\ UNCHANGED <<day, loaded>>

-----------------------------------------------------------------------------

(* return_home *)

\* Mutant: the save names the screen and not the scene.
CompletedByScreen(save) == [save EXCEPT !.scene = "evening", !.complete = TRUE]

Completed(save) == [save EXCEPT !.scene = "return_home", !.complete = TRUE]

EveningState == Completed(IF loaded = None THEN NewSaveState ELSE loaded)

\* load_game: the file as it is, or the empty dictionary when it is missing, does not
\* parse or, being in order, cannot be opened.
Load == loaded' \in {file, None}

\* Mutant: every evening save starts from a new state.
SaveEveningAnew ==
  /\ Press("evening") /\ Stay
  /\ \/ Saved(Completed(NewSaveState)) /\ loaded' = Completed(NewSaveState)
     \/ SaveFails /\ UNCHANGED loaded
  /\ UNCHANGED day

SaveEvening ==
  /\ Press("evening") /\ Stay
  /\ \/ Saved(EveningState) /\ loaded' = EveningState
     \/ SaveFails /\ UNCHANGED loaded
  /\ UNCHANGED day

-----------------------------------------------------------------------------

(* The engine *)

Launch ==
  /\ screen = "off"
  /\ screen' = "entry" /\ buttons' = {"entry"} /\ presses' = 0
  /\ UNCHANGED <<next, day, loaded, file>>

EndFrame ==
  /\ screen # "off" /\ next = None
  /\ buttons' = {screen} /\ presses' = 0
  /\ UNCHANGED <<screen, next, day, loaded, file>>

\* The new scene is ready: school starts with fresh selections, the evening loads.
Enter ==
  /\ next # None
  /\ screen' = FirstScreen[next] /\ buttons' = {FirstScreen[next]}
  /\ presses' = 0 /\ next' = None
  /\ IF next = "school_first_day"
       THEN seat' = None /\ choice' = None /\ rumor' = FALSE
       ELSE UNCHANGED day
  /\ IF next = "return_home" THEN Load ELSE UNCHANGED loaded
  /\ UNCHANGED file

Quit ==
  /\ screen # "off"
  /\ screen' = "off" /\ next' = None /\ buttons' = {} /\ presses' = 0
  /\ UNCHANGED <<day, loaded, file>>

Next ==
  \/ MorningWalk \/ SaveMorning
  \/ GoOut("threshold", "street") \/ GoOut("street", "school_first_day")
  \/ SchoolWalk \/ SelectSeat \/ SelectBasketball \/ ObserveRumor
  \/ \E from \in {"outcome", "canteen"} : SaveSchool(from) \/ HeadHome(from)
  \/ SaveEvening \/ GoOut("evening", "home_morning")
  \/ Launch \/ EndFrame \/ Enter \/ Quit

Spec == Init /\ [][Next]_vars

-----------------------------------------------------------------------------

DayOf(save) == <<save.seat, save.choice, save.rumor>>

\* The evening tells of the day that was just played or, when the file cannot be
\* read, of no day at all (the empty dictionary, or what its own save made of it);
\* never of an earlier day or of a morning, whichever saves and scene changes failed
\* on the way and however buttons were pressed (return_home reads from the file what
\* school_first_day left there).
EveningIsOfTheDay ==
  screen = "evening" =>
    loaded \in {None, Completed(NewSaveState)} \/ DayOf(loaded) = day

\* The evening writes what it loaded when it came up: it may complete the day on
\* the disk or tear the file, and puts another day in its place only if it could not
\* load the file, which then holds a completed day without a seat (return_home, where
\* an empty dictionary becomes a new save state).
EveningKeepsTheDay ==
  [][screen = "evening" /\ file # None /\ file' # None =>
       \/ DayOf(file') = DayOf(file)
       \/ loaded = None /\ file' = Completed(NewSaveState)]_vars

MadeAtSchool(save) == save.scene # "home_morning" /\ ~save.complete

\* A save made at school, by its save button or on the way home, is of a day with a
\* seat and a recess, although old buttons go on working until the frame ends
\* (school_first_day).
SchoolSavesAreWhole ==
  file # None /\ MadeAtSchool(file) => file.seat # None /\ file.choice # None
=============================================================================
