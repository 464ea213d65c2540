\* Two clients; one datagram of -S may be lost, one comes through.
CONSTANTS
  Clients = {c1, c2}
  Sizes <- MCSizes
  Base = 4
  MaxDatagram = 10
  MaxDoits = 1
  MaxTrips = 2
  MaxLoss = 1
  Stops = 2
  MaxDup = 1
  MaxSends = 2
SPECIFICATION FairSpec
PROPERTIES
  FaultsStayContained
  ShutdownWorks
  ClientsFinish
CHECK_DEADLOCK FALSE
