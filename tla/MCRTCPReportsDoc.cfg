CONSTANTS
  MaxCount = 2
  MaxItem = 10
  MinPacketSize = 100
  Source = {0, 1, 2, 3}
  Busy = {1, 2, 3}
  FirstTable <- Four
  MaxPacketSize = 124
  CNAMELength = 10
  Interval <- MCInterval
  Lengths <- MCLengths
  SDESCycle = 2
  MinInterval = 3
  Bandwidth = 4
  AvgSizes = {3}
  HalfAtStartup = TRUE
  ImmediateBYE = FALSE
  ImmediateMembers = 50
  MaxTime = 3
  MaxByeMembers = 2
  APPSizes = {0, 8, 56}
  MaxCollisions = 0
  MaxDepartures = 0
SPECIFICATION Spec
INVARIANT NoBlockTwice
