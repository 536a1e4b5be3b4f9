SPECIFICATION MCSpec
CONSTANTS
  Parts = {"container", "maintenance", "downloads", "messages"}
  ChunkSize = 2
  ContainerSizes = {1, 2, 3, 4, 5}
  ConfiguredMax = 4
  ContainerKeys = {"k1", "k2"}
  NoKey = NoKey
  NoFile = NoFile
  NFiles = 2
  Stores = {"r1"}
  Downs = {"d1", "d2", "d3"}
  DownUser <- MCDownUser
  DownIP <- MCDownIP
  MaxPending = 1
  MaxStored = 2
  PerUser = 1
  PerIP = 1
  PerProcess = 2
  BatchSize = 2
  MaxFaults = 1
  Absent = Absent
  NMessages = 2
  MessageBatch = 1
  WriteTypes = {"json"}
  MaxWrites = 2
  MaxToolFaults = 1
  Nobody = Nobody
INVARIANTS DownloadsGenuine FinalizedContentKept KeyRemovalSafe AlarmsExplained LeasesExact BodiesIntact
PROPERTY StorageRotates
CHECK_DEADLOCK FALSE
