CONSTANTS
  W = 10
  Late = 2
  Ahead = 2
  MaxProbation = 2
  MaxList = 3
  MaxNumber = 24
  MaxCycles = 4
  MaxCSRCs = 2
  CSRC = {a, b}
  SeqWidth = 3
  TsWidth = 2
  MaxSSRC = 2
  MaxPackets = 3
  Caller = {t1, t2}
  Dest = {d}
  Lengths = {65499, 65500}
  Frames = {36000, 72000}
SPECIFICATION PacketsSpec
INVARIANTS
  ListSorted
  HighestNotUnderstated
  ExactUntilLateWrap
  SentReadsBack
  ReportedTimeFits
  FramesReassemble
SYMMETRY Symmetry
CHECK_DEADLOCK FALSE
