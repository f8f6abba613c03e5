SPECIFICATION Spec
CONSTANTS
  a1 = a1
  a2 = a2
  Admins = {a1, a2}
  Postgres = TRUE
  Imported = 2
  MaxTexts = 3
  MaxEntered = 3
  MaxOrder = 6
  MaxLoose = 1
SYMMETRY Interchangeable
CHECK_DEADLOCK FALSE

  
PROPERTIES
  ReorderedAsAsked
  ImplementsQuestionList
