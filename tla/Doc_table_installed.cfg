\* An edited table, installed.
SPECIFICATION Spec
CONSTANTS
  Entries <- MCEntries
  MaxWord = 7
  NameSize = 3
  InternalSize = 2
  Files <- MCFiles
  Names <- MCNames
  Curves <- MCCurves
  Scales = {1, 2}
  Donors = {0, 7}
  MaxEdits = 1
  None = None
  Torn = Torn
CHECK_DEADLOCK FALSE
PROPERTY TableIsInstalled
