SPECIFICATION PartsSpec
CONSTANTS Null = Null
CHECK_DEADLOCK FALSE
INVARIANTS  RemovalsCorrect FilesCorrect
PROPERTIES  CiStateCorrect 
