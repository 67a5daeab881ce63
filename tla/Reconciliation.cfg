CONSTANTS
  s1 = s1
  s2 = s2
  v1 = v1
  v2 = v2
  None = None
  Unreadable = Unreadable
  Subentries <- TwoSubentries
  Versions <- TwoVersions
  MaxGeneration = 5
SPECIFICATION FairSpec
INVARIANTS TypeOK AdmissionIsSettled NoOnDuringReload RepairMirrorsFailure
PROPERTIES PublishesLiveMapping FailedReloadNotRepeated DirtyResolves
CHECK_DEADLOCK FALSE
