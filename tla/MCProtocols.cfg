CONSTANTS
  Parts = {"consensus", "reputation", "training", "lightning", "rates", "audit", "diversity", "checks", "streams", "agents"}
  \* Consensus
  RoundIds = {r1, r2}
  Voters = {v1}
  NodeCount = 4
  MinPeers = {2, 5}
  Proofs = {p1}
  Workers = {w1}
  MaxVotes = 3
  MaxProofs = 2
  \* Reputation
  Nodes = {rn1, rn2}
  Addresses = {ra1, ra2}
  NoAddress = na
  Profiles = {s0, s1}
  NoSkills = s0
  Top = 1
  SlashThreshold = 1
  MaxStake = 1
  MaxFlags = 1
  \* Training
  MinWorkers = 5
  MaxWorkers = 6
  Discovered = {4, 5, 8}
  SimpleWorkers = {w1, w2}
  MaxEpochs = 2
  MaxSaved = 2
  \* LightningHardening
  Hashes = {h1}
  TxIds = {t1}
  Signers = {v1, v2, v3}
  Threshold = 3
  Channels = {c1}
  Towers = {w1, w2}
  Fees = {1}
  MaxCalls = 2
  MaxPenalties = 1
  \* LightningStreams
  Streams = {s1}
  NumTicks = 2
  Contracts = {c1, c2}
  MaxStreamMs = 1
  \* RateLimits
  WindowTicks = 3
  MaxCount <- MCMaxCount
  MaxTick = 8
  MaxRefused = 2
  \* VoteAudit
  AuditedRounds = {r1, r2}
  Ballots = {b1, b2}
  MaxBatch = 3
  Participants = {v1, v2}
  LeadersKept = 4
  MaxConsecutive = 3
  CoVoters = 4
  MaxProposals = 6
  \* PeerDiversity
  Subnets = {a1, a2, a3, a4}
  Capabilities = {c1, c2}
  Regions = {g1, g2, g3, g4}
  Asns = {x1, x2, x3, x4}
  MaxPeers = 6
  MaxListed = 3
  MaxQuorum = 4
  \* SafetyChecks
  OracleFees = {0, 1, 2, 9}
  Versions = {0, 1, 2, 3, no}
  NotANumber = no
  MinVersion <- MCMinVersion
  Instants = {0, 1, 3}
  MaxInstants = 7
  Leaders = {v1, v2, v3}
  LedCounts = {0, 1, 10, 20}
  EnoughHistory = 20
  PeerAsns = {x1, x2}
  Offered = {"noise-xx", "yamux", "plaintext", "tcp"}
  MaxAttempts = 7
  Pinned = {n1, n2}
  Certs = {c1, c2}
  FiveMinutes = 1
  HopCounts = {0, 1, 20, 21}
  Timings = {0, 10, 13}
  Sums = {1, 2}
  Histories = {4, 5}
  \* Agents
  Items = {i1, i2}
  Proposals = {i1}
  JobWorkers = {w1}
  Slots = {q1, q2}
  DaoQuorum = 2
  MaxBallots = 2
  MaxTimers = 2
  MaxBeats = 2
SPECIFICATION ProtocolsSpec
SYMMETRY MCSymmetry
CHECK_DEADLOCK FALSE
INVARIANTS AuditsReport PassedIffQuorum RegistryAgrees WindowsBounded EquivocatorsCaught ChecksKeepTheirWord DoneOnce
PROPERTY NothingAfterTheEnd
