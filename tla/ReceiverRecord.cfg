CONSTANTS
  Hands = {left}
  NoHand = none
  ByteMod = 2
  WordMod = 3
  MaxQueue = 2
  MaxAsked = 2
  Uses = {{"PAIR", "UNPAIR"}, {"GET_CHANNEL", "SET_CHANNEL"}}
SPECIFICATION RecordSpec
INVARIANTS LinkView ModuleView SuccessIsOfThisSearch SearchIsReported StopIsFinal ChannelIsTheReceivers
PROPERTY StickyModule
