SPECIFICATION Spec
CONSTANTS
  order <- MCorder
  Lapsing <- MCLapsing
  Awaits <- MCAwaits
  Window = 4
  GuardianTargets <- MCGuardianTargets
  MaxInterventions = 1
INVARIANTS
  ConfigurationReached
  NeverStuck
  DelegatesStayMinor
  GuardianCanRevoke
  NeverLockedOut
  NothingCountedTwice
PROPERTIES
  ValidatedOnChain
  Completes
CHECK_DEADLOCK FALSE
