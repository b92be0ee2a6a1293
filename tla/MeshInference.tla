---------------------------- MODULE MeshInference ----------------------------
(***************************************************************************)
(* Inference over the mesh: the table of GPU peers a node keeps from what  *)
(* its peers announce (mesh-llm/adapter.ts, mesh/node.ts), the choice of   *)
(* peers for a job (mesh-llm/routing.ts) and the job's answer and charge.  *)
(* Amounts are in sats; numbers of tokens are multiples of five, so that a *)
(* verifier's fifth of a cost is whole.                                    *)
(***************************************************************************)
EXTENDS Naturals, Sequences, FiniteSets, Filters

CONSTANTS
  GpuPeers,         \* peer ids
  Announced,        \* what peers announce: models, reputation and load in tenths, latency, price, node id
  NodeIds,          \* node ids; nothing keeps two peers from announcing the same one
  NoNodeId,         \* that of a peer that announces none
  Jobs,             \* inference jobs
  JobSpecs,         \* budget, requireVerification and minPeers of a job; 0 is left out
  MaxTokens,        \* job.maxTokens
  Generated,        \* numbers of tokens an answer may report
  DefaultVerifiers, \* config.defaultVerificationPeers
  MinReputation,    \* config.minReputationScore, in tenths
  Strategies        \* values of config.routingStrategy

Profile == [serves : BOOLEAN, reputation : 0 .. 10, load : 0 .. 10, latency : Nat, price : Nat,
            nodeId : NodeIds \cup {NoNodeId}]

ASSUME InferenceAssumption ==
  /\ IsFiniteSet(GpuPeers)
  /\ Announced \subseteq Profile
  /\ JobSpecs \subseteq [budget : Nat, verify : BOOLEAN, minPeers : Nat]
  /\ MaxTokens \in Nat /\ Generated \subseteq Nat /\ DefaultVerifiers \in Nat

VARIABLES
  strategy, fallbackToLocal,  \* config
  gpuPeers,   \* gpuPeers, in the order of insertion
  jobs        \* what is known of each job

inferenceVars == <<strategy, fallbackToLocal, gpuPeers, jobs>>

Unasked == [phase |-> "none"]
NoAnswer == [phase |-> "failed"]

InferenceInit ==
  /\ strategy \in Strategies /\ fallbackToLocal \in BOOLEAN
  /\ gpuPeers = <<>> /\ jobs = [j \in Jobs |-> Unasked]

PositionOf(p) == {i \in DOMAIN gpuPeers : gpuPeers[i].peerId = p}

\* What a node of this program says of itself: the models are in a message of their own, which
\* has no capabilities and is dropped by every receiver.
AnnounceSelf == [serves |-> FALSE, reputation |-> 5, load |-> 0, latency |-> 100, price |-> 1,
                 nodeId |-> NoNodeId]

\* A Map keeps the place of a key that is set again; the record is a new one.
HandlePeerDiscovery(p, profile) ==
  LET peer == [peerId |-> p, serves |-> profile.serves, reputation |-> profile.reputation,
               load |-> profile.load, latency |-> profile.latency, price |-> profile.price,
               nodeId |-> profile.nodeId]
  IN  /\ gpuPeers' = IF PositionOf(p) = {} THEN Append(gpuPeers, peer)
                     ELSE [gpuPeers EXCEPT ![CHOOSE i \in PositionOf(p) : TRUE] = peer]
      /\ UNCHANGED <<strategy, fallbackToLocal, jobs>>
\* The peers last seen more than five minutes ago, whichever they are, are dropped.
HealthCheckPeers(silent) ==
  /\ gpuPeers' = Kept(gpuPeers, {p \in Range(gpuPeers) : p.peerId \notin silent})
  /\ UNCHANGED <<strategy, fallbackToLocal, jobs>>

CanHandleJob(p, job) ==
  /\ p.serves /\ p.reputation >= MinReputation /\ p.load <= 9
  /\ job.budget # 0 => MaxTokens * p.price <= job.budget

SortKey(p) ==
  CASE strategy = "least-loaded" -> p.load
    [] strategy = "lowest-cost" -> p.price
    [] strategy = "highest-reputation" -> 10 - p.reputation
    [] strategy = "closest" -> p.latency
\* The places of the peers, the best first.  Array.sort is stable: there is one such order.
SortPeers(places) ==
  LET before(i, k) == \/ SortKey(gpuPeers[i]) < SortKey(gpuPeers[k])
                      \/ SortKey(gpuPeers[i]) = SortKey(gpuPeers[k]) /\ i < k
  IN  {o \in [1 .. Cardinality(places) -> places] :
         \A m, n \in DOMAIN o : m < n => before(o[m], o[n])}

\* The verifiers' fifth of what their prices make of the tokens.
VerifierCost(verifiers, tokens) == FoldSeq(LAMBDA v, sum : (v.price * tokens) \div 5 + sum, 0, verifiers)

\* Math.ceil of the costs and a tenth for the treasury.
CalculateCost(selection) ==
  (11 * (MaxTokens * selection.primary.price + VerifierCost(selection.verifiers, MaxTokens)) + 9) \div 10

\* What is read later of a selected verifier's record, which an announcement does not change.
Terms(p) == [nodeId |-> p.nodeId, price |-> p.price]

SelectPeers(job) ==
  LET able == {i \in DOMAIN gpuPeers : CanHandleJob(gpuPeers[i], job)}
      count == IF job.minPeers # 0 THEN job.minPeers ELSE DefaultVerifiers
      verifiers(o) == [i \in {k \in 1 .. count : k + 1 \in DOMAIN o} |-> Terms(gpuPeers[o[i + 1]])]
      primary(o) == [peerId |-> gpuPeers[o[1]].peerId, price |-> gpuPeers[o[1]].price]
  IN  IF able = {} THEN {}
      ELSE {[primary |-> primary(o), verifiers |-> verifiers(o)] : o \in SortPeers(able)}

\* routeInference up to its first await.
RouteInference(j, job) ==
  /\ jobs[j] = Unasked
  /\ jobs' = [jobs EXCEPT ![j] =
       CASE SelectPeers(job) = {} /\ fallbackToLocal -> [phase |-> "local"]
         [] SelectPeers(job) = {} /\ ~fallbackToLocal -> NoAnswer
         [] OTHER -> LET selection == CHOOSE s \in SelectPeers(job) : TRUE
                     IN  IF job.budget # 0 /\ CalculateCost(selection) > job.budget THEN NoAnswer
                         ELSE [phase |-> "asked", job |-> job, selection |-> selection]]
  /\ UNCHANGED <<strategy, fallbackToLocal, gpuPeers>>

\* A fault: the peer is paid at the price it asks when it answers.
PriceNow(selection) ==
  LET now == PositionOf(selection.primary.peerId)
  IN  IF now = {} THEN selection.primary.price ELSE gpuPeers[CHOOSE i \in now : TRUE].price
PriceAsked(selection) == selection.primary.price

\* Math.ceil(n * 0.66).
RequiredMatches(n) == (66 * n + 99) \div 100

\* A verifier is charged for at the price of the first one that has its node id, or has none either.
FirstNamed(verifiers, id) ==
  verifiers[CHOOSE k \in DOMAIN verifiers : /\ verifiers[k].nodeId = id
                                            /\ \A m \in 1 .. k - 1 : verifiers[m].nodeId # id]
VerifierCharge(verifiers, tokens) ==
  VerifierCost([i \in DOMAIN verifiers |-> FirstNamed(verifiers, verifiers[i].nodeId)], tokens)

\* The verifiers are not asked: their answer is made up here, and matches.  The payment split is
\* the one of the service, which computes amounts and pays nobody.
Answer(asked, tokens) ==
  LET verifiers == asked.selection.verifiers
      cost == tokens * PriceAsked(asked.selection)
      total == cost + VerifierCharge(verifiers, tokens)
      worker == (7 * total) \div 10
      share == (total \div 5) \div (IF verifiers = <<>> THEN 1 ELSE Len(verifiers))
  IN  IF asked.job.verify
      THEN [phase |-> "done", job |-> asked.job, verifiers |-> verifiers, tokens |-> tokens, cost |-> total,
            verified |-> Len(verifiers) >= RequiredMatches(Len(verifiers)),
            split |-> [worker |-> worker, verifiers |-> share * Len(verifiers),
                       treasury |-> total - worker - share * Len(verifiers)]]
      ELSE [phase |-> "done", job |-> asked.job, verifiers |-> <<>>, tokens |-> tokens, cost |-> cost,
            verified |-> FALSE,
            split |-> [worker |-> (9 * cost) \div 10, verifiers |-> 0, treasury |-> cost \div 10]]

\* The peer runs the job on its llama-server, which is told maxTokens, or on Ollama, which is not.
ExecuteJobLocally(server) == IF server = "llama" THEN {n \in Generated : n <= MaxTokens} ELSE Generated
PeerAnswers(j, server, tokens) ==
  /\ jobs[j].phase = "asked" /\ tokens \in ExecuteJobLocally(server)
  /\ jobs' = [jobs EXCEPT ![j] = Answer(@, tokens)]
  /\ UNCHANGED <<strategy, fallbackToLocal, gpuPeers>>
\* A peer that cannot be dialled, or answers success: false: there is no second peer, nor the local model.
PeerFails(j) ==
  /\ jobs[j].phase = "asked" /\ jobs' = [jobs EXCEPT ![j] = NoAnswer]
  /\ UNCHANGED <<strategy, fallbackToLocal, gpuPeers>>
LocalAnswers(j, ok) ==
  /\ jobs[j].phase = "local"
  /\ jobs' = [jobs EXCEPT ![j] = IF ok THEN [phase |-> "answered locally"] ELSE NoAnswer]
  /\ UNCHANGED <<strategy, fallbackToLocal, gpuPeers>>

InferenceNext ==
  \/ \E p \in GpuPeers, profile \in Announced \cup {AnnounceSelf} : HandlePeerDiscovery(p, profile)
  \/ \E silent \in SUBSET GpuPeers : HealthCheckPeers(silent)
  \/ \E j \in Jobs :
       \/ \E job \in JobSpecs : RouteInference(j, job)
       \/ \E server \in {"llama", "ollama"}, tokens \in Generated : PeerAnswers(j, server, tokens)
       \/ PeerFails(j) \/ \E ok \in BOOLEAN : LocalAnswers(j, ok)

InferenceSpec == InferenceInit /\ [][InferenceNext]_inferenceVars

InferenceTypeOK ==
  /\ strategy \in Strategies /\ fallbackToLocal \in BOOLEAN
  /\ Len(gpuPeers) <= Cardinality(GpuPeers)
  /\ \A i \in DOMAIN gpuPeers : PositionOf(gpuPeers[i].peerId) = {i}
  /\ \A j \in Jobs : jobs[j].phase \in {"none", "failed", "local", "answered locally", "asked", "done"}

\* A job with a budget is charged more than the budget only if its peer reports more tokens than
\* the job allows, or two of its verifiers go by one node id: the estimate of selectPeers bounds
\* the charge of executeWithConsensus and of executeDirect, whatever peers announce between the two.
DistinctNodes(verifiers) ==
  \A i, k \in DOMAIN verifiers : verifiers[i].nodeId = verifiers[k].nodeId => i = k

WithinBudget ==
  \A j \in Jobs :
    /\ jobs[j].phase = "done" /\ jobs[j].job.budget # 0
    /\ jobs[j].tokens <= MaxTokens /\ DistinctNodes(jobs[j].verifiers)
    => jobs[j].cost <= jobs[j].job.budget
=============================================================================
