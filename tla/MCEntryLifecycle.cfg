CONSTANTS
  Coordinators = {k1, k2}
  Slots = {s1}
  Nobody = Nobody
  MaxReloads = 2
SPECIFICATION FairSpec
INVARIANTS
  TypeOK
  SocketsHaveOwners
  ChangedTopologyReloads
PROPERTIES
  NoTopologyForgotten
  ReloadCompletes
  NewDevicesGetEntities
