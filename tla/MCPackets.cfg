SPECIFICATION PacketsFairSpec
CONSTANTS
  PieceLength = 2
  TextLengths = {6}
  Version = 1
  OtherVersion = 2
  PlayerKinds = {"short", "input", "chat", "auth", "uni", "sysop"}
  MaxTransit = 2
INVARIANTS
  GameSpared
  LinesWhole
PROPERTIES VersionLearned
