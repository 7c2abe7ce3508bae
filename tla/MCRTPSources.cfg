CONSTANTS
  SSRC = {s1, s2, s3}
  Addr = {a1, a2}
  Host <- HostPerAddr
  Self = Self
  Unset = Unset
  NoSSRC = NoSSRC
  MixerMode = TRUE
SPECIFICATION Spec
SYMMETRY Symmetry
INVARIANTS
  CountsMatchTable
  OwnSourceIntact
  OneHostPerSource
PROPERTY SSRCChangesOncePerCollider
