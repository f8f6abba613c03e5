SPECIFICATION Spec
CONSTANTS
  c1 = c1
  c2 = c2
  Convs = {c1, c2}
  Setups <- LongTwoOrLate
INVARIANTS
  AnswersComplete
  SubmittedWasSaved
  
  

  
SYMMETRY Alike
CHECK_DEADLOCK FALSE
