SPECIFICATION Spec
CONSTANTS
  Email = {e1, e2}
  Request = {r1, r2}
  MaxUsers = 3
SYMMETRY Symmetry
INVARIANTS
  SecondRowNeedsARace
  AnswersAreTrue
  RefusedOnlyByNamesake
PROPERTY ImplementsDirectory
