\* Two requests of four kinds, a mode and a limit that change, under fairness.
SPECIFICATION FairSpec
CONSTANTS
  Requests = {r1, r2}
  Kinds <- FourKinds
  Limits <- TwoLimits
  SetModes <- TwoModes
  Cooldown = 1
INVARIANTS
  TypeOK ActiveExact KeepsBackend 
PROPERTIES
  CooldownSound AnsweredOnce EveryRequestSettles
