SPECIFICATION RolesSpec
CONSTANTS
  Messages = {m, n}
  Emojis = {a, b}
  MaxChanges = 4
  MaxRolesFaults = 2
INVARIANTS
  AnswersAsTable
