-------------------------- MODULE MCInferencePath --------------------------
EXTENDS InferencePath, TLC
CONSTANTS embedding, generation, e1, e2, e3, g1
MCCapabilityOf == e1 :> embedding @@ e2 :> embedding @@ e3 :> embedding @@ g1 :> generation
MCPriority == embedding :> 100 @@ generation :> 10
=============================================================================
