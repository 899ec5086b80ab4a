SPECIFICATION Spec
CONSTANTS
  Scripts <- MCScripts
  Cuts <- MCCuts
  ReadSizes <- MCReadSizes
INVARIANTS
  DecodesAsReference
  ReadingsInOrder
  PacketsReported
\* the run ends with the script, or with an exception
CHECK_DEADLOCK FALSE
