SPECIFICATION Spec
CONSTANTS
  Conn = {c1, c2}
  Alone = {c2}
  Responses <- ThreeResponses
INVARIANT ClosedByTheLast ResponsesIntact
PROPERTY TeardownEnds Accepted
CHECK_DEADLOCK FALSE
