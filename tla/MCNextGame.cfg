SPECIFICATION NextGameFairSpec
CONSTANTS
  estate = estate
  manamine = manamine
  lost = lost
  arena = arena
  ctf = ctf
  chat = chat
  Chat = chat
  NoMap = NoMap
  NoMode = NoMode
  NoRequest = NoRequest
  Maps = {estate, manamine, lost}
  Loadable = {estate, manamine}
  Modes <- MCModes
  Available <- MCAvailable
  Preference <- MCPreference
  CycleFile <- MCCycleFile
  Requests <- MCRequests
CHECK_DEADLOCK FALSE
INVARIANTS CycleMapsFit RequestHonoured FlagsSpent ModeFits
PROPERTIES RequestTaken CycleVisitsAll
