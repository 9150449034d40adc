----------------------------- MODULE MCGameFlow -----------------------------
(* A small instance of GameFlow for TLC: two seats and two recess choices, so *)
(* that the days of two evenings differ, and frames long enough to press the  *)
(* old buttons of school screens again.                                       *)
EXTENDS GameFlow

CONSTANTS window, back, join, watch

MCSeats == {window, back}
MCChoices == {join, watch}
=============================================================================
