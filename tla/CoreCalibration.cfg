CONSTANTS
  MaxRuns = 2
SPECIFICATION CoreSpec
INVARIANTS CompletedFromOneRun UndisturbedFrame CoreInv StickDividesByRange StickCircledIsUsed
PROPERTY FrozenWhenCompleted
