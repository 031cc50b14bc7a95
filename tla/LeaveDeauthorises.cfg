SPECIFICATION SessionSpec
CONSTANTS
  Players = {p1, p2}
  Logins = {l1}
  Passwords = {w1, w2}
  NoLogin = NoLogin
  NoPass = NoPass
  NoCommand = NoCommand
  Stray = Stray
  WelcomeFrames = 1
  MaxQueue = 2
  MaxOrphans = 1
SYMMETRY Symmetry
INVARIANT LeaveDeauthorises
