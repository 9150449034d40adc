SPECIFICATION Spec
CONSTANTS
  window = window
  back = back
  join = join
  watch = watch
  Seats <- MCSeats
  Choices <- MCChoices
  MaxPresses = 5
  None = None
INVARIANTS
  TypeOK
  EveningIsOfTheDay
  SchoolSavesAreWhole
PROPERTY
  EveningKeepsTheDay
