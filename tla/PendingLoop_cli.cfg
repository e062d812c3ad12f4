CONSTANTS
  m1 = m1
  m2 = m2
  m3 = m3
  c1 = c1
  c2 = c2
  Request <- MCThree
  Command <- MCTwoCommands
  Frontend = "cli"
  PriorStatus = {"Undecodable"}
  MaxPauses = 3
  MaxFaults = 2
  MaxCrashes = 1
SPECIFICATION Spec
CHECK_DEADLOCK FALSE
INVARIANTS
  AwaitedIsKept
PROPERTIES
  StaysGone
  ImplementsConversation
