SPECIFICATION DeliverySpec
CONSTANTS
  Layouts <- MCLayouts
  Lines <- MCLines
  Boundaries <- MCBoundaries
  Profiles = {"none", "showcase"}
  Nestings = {TRUE}
  View <- MCView
  MaxLines = 3
  MaxGroups = 2
  MaxParts = 3
INVARIANTS
  AcceptedPassesCheck
CHECK_DEADLOCK FALSE
