SPECIFICATION FairSpec
CONSTANTS
  t1 = t1
  t2 = t2
  t3 = t3
  N = 2
  Thread = {t1, t2, t3}
  Frozen = {t2}
  Roles <- DriverRoles
  Skip = {2}
  Apps = {2}
  Group <- OneEach
  Tputs = {2}
  Default <- Plan
  Usecases <- NoUsecase
INVARIANTS
  PmInv
  EffectsFit
PROPERTY
  WorkIsDone
