SPECIFICATION Spec
CONSTANTS
  Pid <- MCPid
  MaxFd = 6
  Pipe <- MCPipe
  PipeCapacity = 1
  Command <- MCCommand
  Job <- MCJob
  OldFile <- MCOldFile
  Dir = {"home", "dir"}
  HOME = "home"
  NULL = "null"
  Line <- MCLine
  MaxLines = 1
PROPERTY ProducerEnds
CHECK_DEADLOCK FALSE
