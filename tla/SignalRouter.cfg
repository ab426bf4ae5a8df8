CONSTANTS
  MaxHandlers = 3
  MaxSignals = 4
SPECIFICATION Spec
INVARIANTS
  TypeOK
  StackHoldsLiveGuards
  ExitOnlyAfterShutdown
  SecondPressShutsDown
  PressGoesToTopmost
PROPERTIES
  DeclineGoesDown
  PressDuringShutdownExits
  ShutdownEnds
