SPECIFICATION FairMSpec
CONSTANTS
  Apps = {"a"}
  Slots = {1}
  MaxFaults = 2
  ServiceOrder <- MCOrder
  Pids = {p1}
  MaxForks = 1
  MaxProcess = 1
  RegistrySize = 1
  MaxRestarts = 1
  MaxServiceFaults = 2
  Explored = {"policy", "identity"}
PROPERTIES PolicyIsReplayed ServiceComesBack
CHECK_DEADLOCK FALSE
