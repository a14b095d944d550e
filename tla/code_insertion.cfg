CONSTANTS
  MaxLength = 4
  MaxSize = 6
  Methods <- MCMethods
CHECK_DEADLOCK FALSE
SPECIFICATION Spec
INVARIANTS
  TypeOK
  PassesAgree
  BranchesKept
  EntryReportedOnce
  LengthMatches
  SwitchesAligned
  TablesFollow
  LocalsAgree
