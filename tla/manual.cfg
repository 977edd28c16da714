SPECIFICATION Spec
CONSTANTS
  r1 = r1
  r2 = r2
  r3 = r3
  c1 = c1
  c2 = c2
  d1 = d1
  d2 = d2
  stat = stat
  Runs = {r1, r2}
  Contracts = {c1, c2}
  Listed = {c1, c2}
  Dates = {d1}
  Today = d1
  Stats = {stat}
  NoStat = NoStat
  NoContract = NoContract
  Free = Free
  MaxAttempts = 2
  Endpoints = {"trigger", "one", "many", "merge", "rerun"}
  MaxBatch = 1
  MaxCrashes = 1
  MaxDbErrors = 1
  InitQueue <- NotFoundOnce
  Portals <- AllPortals
  LikeSamruk <- SamrukLike
  LikeGos <- GosLike
  IsSamruk <- SamrukLowered
  IsGos <- GosLowered
  VitrinaPortal <- MixedAndOther
SYMMETRY RunSymmetry
INVARIANTS TypeOK RunningRowHasOwner InProgressHasOwner RerunsDisjoint
PROPERTIES JournalIsTaskLog
