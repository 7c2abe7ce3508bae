CONSTANTS
  SSRC = {s1, s2, s3}
  Addr = {a1}
  Host <- HostPerAddr
  Self = Self
  Unset = Unset
  NoSSRC = NoSSRC
  MixerMode = FALSE
SPECIFICATION FairSpec
INVARIANTS
  ActiveCountExact
  NoStaleDestination
PROPERTY SilentSourceLeaves
