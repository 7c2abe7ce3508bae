CONSTANTS
  SSRC = {x1, x2, x3}
  Users = {u1, u2}
  Poll = Poll
  Free = Free
SPECIFICATION Spec
SYMMETRY Symmetry
INVARIANTS
  MutexesComeFree
  SSRCsAgree
  BYEIsFinal
  MissedBYEOnlyByRace
