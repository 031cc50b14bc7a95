SPECIFICATION SidesFairSpec
CONSTANTS
  FrameMod = 3
  MaxId = 3
  Outputs = {say}
  NoOutput = NoOutput
  SetIn = {"server", "client"}
  NoTimeout = NoTimeout
CHECK_DEADLOCK FALSE
INVARIANTS ListInOrder NoneMissed FunctionOfEachRecord OutputRestored ClientFunctions
PROPERTIES EventuallyCalled ImplementsTimeouts ClientEventuallyCalled ClientImplementsTimeouts
