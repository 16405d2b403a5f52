\* A mutex that tasks may nest twice, and counting semaphores of one and two tokens.
SPECIFICATION FairSpec
CONSTANTS
  Tasks = {t1, t2, t3}
  NoTask = NoTask
  MaxTokens = 2
  MaxDepth = 2
INVARIANTS
  MutualExclusion
  TokenVisible
  NoLostWake
PROPERTY
  TakerServed
