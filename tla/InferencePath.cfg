SPECIFICATION PathFairSpec
CONSTANTS
  embedding = embedding
  generation = generation
  e1 = e1
  e2 = e2
  e3 = e3
  g1 = g1
  None = None
  Capabilities = {embedding, generation}
  Requests = {e1, e2, e3, g1}
  CapabilityOf <- MCCapabilityOf
  Priority <- MCPriority
  MaximumPending = 1
  Threshold = 2
  MaxFaults = 1
INVARIANTS PathConsistent
PROPERTIES OnlyProbesClose ProbesEnd SecondInLineIsServed
CHECK_DEADLOCK FALSE
