CONSTANTS
  \* Sandbox
  Tasks = {t1, t2}
  VmIds = {m1, m2}
  NoVm = no
  MaxVMs = 1
  MaxRuns = 1
  MaxDestroys = 1
  \* Jailer
  Jails = {m1, m2, m3}
  Gpus = {g1}
  NoGpu = no
  \* Firecracker
  Guests = {m1, m2}
  Pids = {p1, p2}
  NoPid = no
  Limits = {1, 2}
  MaxAtOnce = 2
  \* VmHardening
  HardIds = {m1}
  HardPids = {p1}
  NoHardPid = no
  HardLimit = 2
  \* HostCalls
  VmNames = {m1}
  Callers = {c1, c2}
  Cores = {g1, g2}
  NoCores = no
  MaxEntries = 2
  MaxMounts = 2
  MaxRules = 2
  \* MeshInference
  GpuPeers = {p1, p2, p3}
  Announced <- MCAnnounced
  NodeIds = {"one", "two"}
  NoNodeId = "none"
  Jobs = {j1}
  JobSpecs <- MCJobSpecs
  MaxTokens = 10
  Generated = {10, 20}
  DefaultVerifiers = 1
  MinReputation = 5
  Strategies = {"least-loaded", "closest"}
  \* MeshNode
  Topics = {t1, te}
  Experts = te
  NoTopic = no
  Subscribers = {c1, c2}
  MaxHandlers = 1
  MaxStarts = 2
  \* MeshTables
  MeshIds = {g1, g2}
  LocalExpert = le
  ExpertScores = {1, 2}
  MaxAge = 6
  \* CodeDedup
  k1 = k1
  k2 = k2
  Codes = {k1, k2}
  Likeness <- MCLikeness
  Thresholds = {94, 100}
  Ingesters = {c1, c2}
  MaxIngests = 2
  MaxMs = 1
  \* DaoOrgs
  Slugs = {s1}
  Users = {v1, v2}
  Teams = {q1}
  Creators = {c1, c2}
  \* DaoNodes
  NodeRows = {n1, n2}
  NodeMeshIds = {i1}
  Daos = {d1}
  Owners = {a1}
  Scores = {0, 5, 11}
  Stakes = {1}
  Undefined = un
  Splits <- MCSplits
  MaxEarned = 1
SPECIFICATION MachinesSpec
CHECK_DEADLOCK FALSE
INVARIANTS GuestsAccounted LimitPassedByOverlap BoundAsNamed ChargesBounded HandledOnce RoutesAreFresh HostAsLeft OwnedFromTheStart IngestsCounted
PROPERTY EveryVmLeaves
