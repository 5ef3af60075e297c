CONSTANTS
  NoCert = NoCert
  Life = 3
  RenewWithin = 3
  MaxFaults = 2
  MaxPosts = 2
SPECIFICATION FairSpec
INVARIANTS
  ChallengeServed
  BrokenOnlyIfTorn
  NeverExpires
PROPERTIES
  BootEnds
  TlsComesUp
