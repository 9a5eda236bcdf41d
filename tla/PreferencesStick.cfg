CONSTANTS
  Cores = {c1, c2}
  Gloves = {g1, g2}
  Nobody = nobody
  Bones = {"thumb"}
  Angles <- OffsetAngles
  Tunable = {"xCenterData"}
  MaxSaves = 3
SPECIFICATION Spec
INVARIANT ControllerRestored
