SPECIFICATION SessionFairSpec
CONSTANTS
  Players = {p1, p2}
  Logins = {l1}
  Passwords = {w1}
  NoLogin = NoLogin
  NoPass = NoPass
  NoCommand = NoCommand
  Stray = Stray
  WelcomeFrames = 1
  MaxQueue = 2
  MaxOrphans = 1
INVARIANTS OneCheckInState3 StateAndLoginAgree AuthorisedByOwnCheck ChecksAreCurrent
  HeadIsAsker NoFaultUnlessOrphaned
PROPERTIES CheckAnswered NewcomerPrompted
