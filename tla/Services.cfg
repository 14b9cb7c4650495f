SPECIFICATION MSpec
CONSTANTS
  Apps = {"a", "b"}
  Slots = {1}
  MaxFaults = 1
  ServiceOrder <- MCOrder
  Pids = {p1, p2}
  MaxForks = 2
  MaxProcess = 2
  RegistrySize = 1
  MaxRestarts = 1
  MaxServiceFaults = 2
  Explored = {"policy", "identity", "sessions", "channels", "connections",
              "flows", "resolution", "packets", "partitions", "devices"}
INVARIANTS
  HoldersAgree PolicyIsEnforced
  EndpointsHaveOneHolder AnswersAreTheirOwn GrantsAreHonoured
PROPERTY EventsNeverReplay
CHECK_DEADLOCK FALSE
