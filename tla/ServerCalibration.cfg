CONSTANTS
  Cores = {c1}
  AppUses = {"START", "FIST", "TOGETHER", "SPREAD", "COMPLETE", "CANCEL", "AUTO"}
SPECIFICATION FairSpec
INVARIANTS TypeOK CalibratedFromOwnCaptures
PROPERTIES AutoSettles AutoEnds
