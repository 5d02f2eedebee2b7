SPECIFICATION PartsSpec
CONSTANTS Null = Null
CHECK_DEADLOCK FALSE
INVARIANTS CommandsCorrect  LogsCorrect 
 
