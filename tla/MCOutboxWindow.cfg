SPECIFICATION FairSpec
CONSTANTS
  None = None
  Envelopes = {"e", "f"}
  Senders = {"s1", "s3"}
  EnvelopeOf <- Responses
  Nodes = {"p"}
  HostOf <- Places
  Main = "p"
  Modes = {FALSE}
  Fickle = {"e", "f"}
  MaxAttempts = 3
  Limit = 1
  MaxSends = 2
  MaxReplays = 0
  MaxFaults = 0
PROPERTIES RecoversAfterReconnect
