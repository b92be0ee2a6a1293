------------------------------ MODULE MCProtocols -------------------------------
(***************************************************************************)
(* The protocols between nodes, the checks on them and the agents.  They   *)
(* share no state and call one another nowhere, so that a behaviour is one *)
(* of one of them, the one in focus, and the others stay in their initial  *)
(* states.                                                                 *)
(***************************************************************************)
EXTENDS Consensus, Reputation, Training, LightningHardening, LightningStreams, RateLimits,
        VoteAudit, PeerDiversity, SafetyChecks, Agents, TLC

CONSTANT Parts   \* the parts of which a behaviour may be one

ASSUME PartsAssumption ==
  Parts \subseteq {"consensus", "reputation", "training", "lightning", "rates", "audit", "diversity",
                   "checks", "streams", "agents"}

VARIABLE focus

MCMaxCount == [identities |-> 3, viewChanges |-> 1, htlcs |-> 2, relay |-> 2]
MCMinVersion == <<2, 1, 0>>

\* Nodes and addresses of Reputation are of no other part, and it treats them alike.
MCSymmetry == Permutations(Nodes) \cup Permutations(Addresses)

allVars ==
  <<focus, consensusVars, reputationVars, trainingVars, lightningVars, rateVars, auditVars,
    diversityVars, checkVars, streamVars, agentVars>>

\* The choices an initial state leaves open matter to the part in focus only.
ProtocolsInit ==
  /\ focus \in Parts
  /\ ConsensusInit
  /\ ReputationInit
  /\ TrainingInit
  /\ LightningInit
  /\ RateInit
  /\ AuditInit
  /\ DiversityInit
  /\ ChecksInit
  /\ StreamInit
  /\ AgentInit
  /\ focus # "rates" => limiter = "relay"
  /\ focus # "streams" => client = "none"
  /\ focus # "agents" => agentKind = "treasury"

ProtocolsNext ==
  \/ /\ focus = "consensus" /\ ConsensusNext
     /\ UNCHANGED <<focus, reputationVars, trainingVars, lightningVars, rateVars, auditVars,
                    diversityVars, checkVars, streamVars, agentVars>>
  \/ /\ focus = "reputation" /\ ReputationNext
     /\ UNCHANGED <<focus, consensusVars, trainingVars, lightningVars, rateVars, auditVars,
                    diversityVars, checkVars, streamVars, agentVars>>
  \/ /\ focus = "training" /\ TrainingNext
     /\ UNCHANGED <<focus, consensusVars, reputationVars, lightningVars, rateVars, auditVars,
                    diversityVars, checkVars, streamVars, agentVars>>
  \/ /\ focus = "lightning" /\ LightningNext
     /\ UNCHANGED <<focus, consensusVars, reputationVars, trainingVars, rateVars, auditVars,
                    diversityVars, checkVars, streamVars, agentVars>>
  \/ /\ focus = "rates" /\ RateNext
     /\ UNCHANGED <<focus, consensusVars, reputationVars, trainingVars, lightningVars, auditVars,
                    diversityVars, checkVars, streamVars, agentVars>>
  \/ /\ focus = "audit" /\ AuditNext
     /\ UNCHANGED <<focus, consensusVars, reputationVars, trainingVars, lightningVars, rateVars,
                    diversityVars, checkVars, streamVars, agentVars>>
  \/ /\ focus = "diversity" /\ DiversityNext
     /\ UNCHANGED <<focus, consensusVars, reputationVars, trainingVars, lightningVars, rateVars,
                    auditVars, checkVars, streamVars, agentVars>>
  \/ /\ focus = "checks" /\ ChecksNext
     /\ UNCHANGED <<focus, consensusVars, reputationVars, trainingVars, lightningVars, rateVars,
                    auditVars, diversityVars, streamVars, agentVars>>
  \/ /\ focus = "streams" /\ StreamNext
     /\ UNCHANGED <<focus, consensusVars, reputationVars, trainingVars, lightningVars, rateVars,
                    auditVars, diversityVars, checkVars, agentVars>>
  \/ /\ focus = "agents" /\ AgentNext
     /\ UNCHANGED <<focus, consensusVars, reputationVars, trainingVars, lightningVars, rateVars,
                    auditVars, diversityVars, checkVars, streamVars>>

ProtocolsSpec == ProtocolsInit /\ [][ProtocolsNext]_allVars

ProtocolsTypesOK ==
  CASE focus = "consensus" -> ConsensusTypeOK
    [] focus = "reputation" -> ReputationTypeOK
    [] focus = "training" -> TrainingTypeOK
    [] focus = "lightning" -> LightningTypeOK
    [] focus = "rates" -> RateTypeOK
    [] focus = "audit" -> AuditTypeOK
    [] focus = "diversity" -> DiversityTypeOK
    [] focus = "checks" -> ChecksTypeOK
    [] focus = "streams" -> StreamTypeOK
    [] focus = "agents" -> AgentTypeOK

\* The audits of peers and votes report what they are asked to report, and neither a diverse list
\* nor a quorum is let pass that is not (security/networkHardening.ts); an invoice is accepted once
\* (security/lightningHardening.ts).  Every part keeps its state in shape.
AuditsReport == ProtocolsTypesOK /\ SpreadChecked /\ CollusionReported /\ SingleUse

\* What is over costs nothing more: a treasury spend that was broadcast (security/lightningHardening.ts)
\* and a stream of payments that was stopped (payments/lightning-v2.ts).
NothingAfterTheEnd == NoBroadcastAfterOne /\ NoTickAfterStop
===============================================================================
