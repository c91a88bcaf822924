SPECIFICATION Spec
CONSTANTS
  Words <- MCWords
  Defaults <- MCDefaults
  UserFiles <- MCUserFiles
  Files <- MCFiles
  Windows <- MCWindows
  WindowState <- State
INVARIANTS Unambiguous
PROPERTIES ChoiceStands OwnState
