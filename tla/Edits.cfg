SPECIFICATION EditsSpec
CONSTANTS
  Clusters = {c1, c2}
  Registries = {x, y}
  Requests = {r1, r2}
  Phases = {"Running"}
  Resources = {a}
  Connections = {k}
  VolumeNames = {v}
  EditRequests = {r1, r2}
  Cloud = FALSE
  MaxResources = 1
  MaxVolumes = 2
INVARIANTS
  OneCluster
  ClientsMatchRows
  VolumeNamesUnique
  ReferencesMatchDraft
  UsedSecretsKept
PROPERTY ImplementsInventory
SYMMETRY Symmetry
CHECK_DEADLOCK FALSE
