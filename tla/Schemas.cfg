\* every graph of three types rendered; three callers meet at one type
CONSTANTS
  c1 = c1
  c2 = c2
  c3 = c3
  Callers <- ThreeCallers
  Types <- ThreeTypes
  MaxDepth = 3
  Scenarios <- Tried
  Faults <- Faulty
SPECIFICATION FairSpec
INVARIANTS RenderIsClosure IdsAreDefined AcceptedIsShared
PROPERTY CallersReturn
