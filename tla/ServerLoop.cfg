CONSTANTS
  HandCount = 1
  Pulses <- SomePulses
  Forces <- SomeForces
  MaxRequests = 3
  Codes = {1, 2}
  MaxPosts = 3
  SeqMod = 3
SPECIFICATION Spec
INVARIANTS TypeOK LastRequestTaken MessageInRange
PROPERTIES ImplementsQueue RequestsTaken
