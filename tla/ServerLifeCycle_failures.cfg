\* Any step of open may fail, any library may be missing, Java tries again
\* once.
CONSTANTS
  none = none
  lib1 = lib1
  lib2 = lib2
  lib3 = lib3
  lib4 = lib4
  Files <- Directory
  IOFiles <- WithIO
  SasFiles <- WithSas
  NoFile = none
  Faults <- AllFaults
  MaxOpens = 2
SPECIFICATION Spec
INVARIANTS
  DependenciesHeld
  NothingLeft
  NotificationsMeetProvider
\* A server that was closed, or that crashed, does nothing more.
CHECK_DEADLOCK FALSE
