SPECIFICATION RemoteFairSpec
CONSTANTS
  near = near
  far = far
  Servers = {near, far}
  NoServer = NoServer
  UrlLength <- MCUrlLength
  MaxBuffers = 2
  Nothing = Nothing
INVARIANTS SentAsGiven FaultExplained
PROPERTIES EventuallyReported ImplementsRemoteCommands
