CONSTANTS
  c1 = c1
  c2 = c2
  s1 = s1
  s2 = s2
  Servers = {s1, s2}
  Chains = {c1, c2}
  MaxGeneration = 1
  MaxPollId = 2
  None = None
SPECIFICATION FairSpec
INVARIANT NoForkedChains
INVARIANT GenerationOfActiveServer
INVARIANT RunningPolls
PROPERTY CatchesUp
