SPECIFICATION Spec
CONSTANTS
  Lines <- MCLines
  MaxLines = 5
  MaxParses = 2
INVARIANTS LinkedByLevel UnderItsHead CrashesOnlyWithoutHead FreedOnce
CHECK_DEADLOCK FALSE
