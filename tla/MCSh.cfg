SPECIFICATION Spec
CONSTANTS
  Procs = {1, 2, 3, 4, 5}
  Pipes = {1}
  NOFILE = 5
  MAXARGS = 3
  FirstLines <- MCFirstLines
  Lines <- MCLines
  MaxLines = 2
INVARIANTS
  ParsesGrammar
  ProgramDescriptors
  PromptMeansDone
PROPERTY
  PromptReturns
CHECK_DEADLOCK FALSE
