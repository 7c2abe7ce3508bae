CONSTANTS
  SSRC = {x1, x2, x3}
  Users = {u1}
  Poll = Poll
  Free = Free
SPECIFICATION Spec
INVARIANT BYEOnlyAfterData
