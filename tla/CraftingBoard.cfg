\* Two handlers at once, three boards in a row, one role whose name matches
\* a profession and one that does not.
CONSTANTS
    Handlers = {a1, a2}
    Roles = {smith, helper}
    Named = {smith}
    Texts = {t1, t2}
    MaxBoards = 3
    MaxSteps = 3
    MaxFaults = 2
SYMMETRY Symmetry
SPECIFICATION BoardSpec
CHECK_DEADLOCK FALSE
INVARIANTS
  BoardStands
  NothingLeftBehind
  BoardShowsSaved
