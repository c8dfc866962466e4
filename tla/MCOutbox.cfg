SPECIFICATION FairSpec
CONSTANTS
  None = None
  Envelopes = {"e", "f"}
  Senders = {"s1", "s2", "s3"}
  EnvelopeOf <- Responses
  Nodes = {"p", "q"}
  HostOf <- Places
  Main = "p"
  Modes = {TRUE, FALSE}
  Fickle = {"e"}
  MaxAttempts = 2
  Limit = 2
  MaxSends = 3
  MaxReplays = 1
  MaxFaults = 1
INVARIANTS OneHolder DeadLettersAgree Accounted
PROPERTIES IsDurableQueue MessageSettles RecoversAfterReconnect
