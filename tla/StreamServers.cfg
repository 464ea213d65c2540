\* Two clients, one shutdown; a message of two fragments does not fit into one
\* read of a slow reader, and three fill a buffer.
CONSTANTS
  Clients <- MCClients
  Workers = 2
  MaxSize = 2
  Buffer = 2
  Retries = 1
  Rounds = 2
  Slots = 3
  MaxFaults = 1
SPECIFICATION FairSpec
INVARIANTS
  ServerKeepsServing
  IterationsAreReal
PROPERTIES
  ShutdownWorks
  ClientsFinish
CHECK_DEADLOCK FALSE
