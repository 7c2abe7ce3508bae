CONSTANTS
  MaxCount = 1
  MaxItem = 10
  MinPacketSize = 84
  Source = {0, 1}
  Busy = {1}
  FirstTable <- Two
  MaxPacketSize = 88
  CNAMELength = 6
  Interval <- MCInterval
  Lengths <- MCLengths
  SDESCycle = 1
  MinInterval = 3
  Bandwidth = 4
  AvgSizes = {3}
  HalfAtStartup = TRUE
  ImmediateBYE = FALSE
  ImmediateMembers = 50
  MaxTime = 3
  MaxByeMembers = 4
  APPSizes = {0, 8, 56}
  MaxCollisions = 2
  MaxDepartures = 1
SPECIFICATION FairSpec
INVARIANTS
  PacketsWellFormed
  NeverFilledTooSoon
PROPERTIES
  ReportsSpaced
  IntervalsNotEmpty
  EverythingReported
  QueuedBYELeaves
