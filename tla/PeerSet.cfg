SPECIFICATION FairSpec
CONSTANTS
  Peer <- FourPeers
  Malformed = malformed
  Max = 3
  MaxBatch = 3
  Latency <- TwoLatencies
  Healthy <- TwoHealthy
PROPERTY AnswerIsWhole
PROPERTY HealthySetServes
