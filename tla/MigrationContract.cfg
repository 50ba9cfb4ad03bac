SPECIFICATION Spec
CONSTANTS
  Sources <- MCSources
  Needs <- MCNeeds
  MaxRounds = 3
  Labels = {0, 60, 200}
  Widths = {92, 160}
  Tops <- MCTops
  Pinnings <- MCPinnings
  Boxes <- MCBoxes
  Gaps = {0, 156, 190}
  LaneNeeds = {0, 32}
INVARIANTS
  ProjectionKeepsContract
