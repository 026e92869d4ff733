SPECIFICATION ServicesSpec
CONSTANTS
  MaxReleases = 4
  Settings <- RoomyAndTight
  Organisations = {"o1", "o2"}
  AccessRequests = {"r1", "r2"}
  MaxActiveSharedComputeLeases = 1
  Duration = 2
  MaxTime = 3
  Resources = {"a", "b"}
  Connections = {}
  VolumeNames = {}
  EditRequests = {"r1", "r2"}
  Cloud = TRUE
  MaxResources = 1
  MaxVolumes = 1
  Volumes = {"v"}
  MaxTeardownFailures = 2
  AddonRequests = {"r1"}
  Sizes = {1}
  MaxAddonFailures = 1
  Invites = {"i", "j", "k"}
  InvitedTo <- Inviters
  Users = {"u1", "u2"}
  InviteRequests = {"r1", "r2"}
  MaxInviteFailures = 1
  Shapes <- TwoShapes
  DraftConnections <- OneConnection
  Stackfiles <- TwoStackfiles
  ExternalOutputs = {"key"}
  DraftRequests = {"r1", "r2"}
INVARIANTS
  KeepIsTheLoop
  CapacityKept
  QuotaKept
  NoRowLeft
  ChangeNotForgotten
  GrantsMatchRows
  ValidatedResolves
PROPERTIES
  RollbackTargetsKept
  HistoryMovesForward
  ImplementsPool
  ImplementsStackEnding
  ImplementsAddonLifecycle
  ImplementsAdmission
  StackDeletionEnds
  InvitationMailedHere
CHECK_DEADLOCK FALSE
