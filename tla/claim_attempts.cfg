SPECIFICATION Spec
CONSTANTS
  r1 = r1
  r2 = r2
  r3 = r3
  c1 = c1
  c2 = c2
  d1 = d1
  d2 = d2
  stat = stat
  Runs = {r1, r2}
  Contracts = {c1, c2}
  Listed = {c1, c2}
  Dates = {d1, d2}
  Today = d1
  Stats = {stat}
  NoStat = NoStat
  NoContract = NoContract
  Free = Free
  MaxAttempts = 2
  Endpoints = {"trigger"}
  MaxBatch = 1
  MaxCrashes = 0
  MaxDbErrors = 0
  InitQueue <- FailedOnce
  Portals <- TwoPortals
  LikeSamruk <- OnlySamruk
  LikeGos <- OnlyGos
  IsSamruk <- OnlySamruk
  IsGos <- OnlyGos
  VitrinaPortal <- OnePortalEach
INVARIANT AttemptsAreControlled
