SPECIFICATION FairSpec
CONSTANTS
  N = 2
  TooSmall = {2}
  MaxStale = 3
  DealCheck = 2
  MaxTickets = 2
  MaxFaults = 3
  MaxCrashes = 1
INVARIANTS
  TypeOK
  TicketsAreOwn
  LoneTicket
PROPERTIES
  LiveTicketsAreKept
  LostTicketsAreRetired
  OrphansAreAdopted
  CyclesAreSaved
