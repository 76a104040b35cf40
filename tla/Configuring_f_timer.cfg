SPECIFICATION Spec
CONSTANTS
  MaxCalls = 2
INVARIANT TimersComeBack
CHECK_DEADLOCK FALSE
