SPECIFICATION BlendSpec
CONSTANTS
  Proposals = {"p"}
  Transactions = {"t"}
  Foreign = {"x"}
  CoreQuota <- MCQuota
  Layers = 1
  RoundsPerEpoch = 2
  MaxReleaseDelay = 1
  Copies = 1
  MaxEpoch = 2
  MaxIncoming = 1
  MaxPayloads = 1
  MaxMishaps = 1
  p1 = p1
  p2 = p2
  Peers = {p1, p2}
  Members <- MCMembers
  StartEpochs = {0}
  MinNetwork = 2
  Degree <- MCDegree
  Window <- MCRounds
  HandshakeRounds = 1
  MaxDialAttempts = 2
  LowerPeers = {p1}
  Honest = {p2}
  MaxConnections = 3
  MaxJump = 1
  MaxLinks = 4
INVARIANT PairKeepsOne
PROPERTIES  PeeringIsSound PayloadsGetOut
CHECK_DEADLOCK FALSE
