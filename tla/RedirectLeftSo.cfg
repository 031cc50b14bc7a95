SPECIFICATION SidesSpec
CONSTANTS
  FrameMod = 2
  MaxId = 1
  Outputs = {say}
  NoOutput = NoOutput
  SetIn = {"server", "client"}
  NoTimeout = NoTimeout
CHECK_DEADLOCK FALSE
INVARIANTS RedirectLeftSo
