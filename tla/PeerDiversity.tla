----------------------------- MODULE PeerDiversity -----------------------------
(***************************************************************************)
(* The diversity checks of security/networkHardening.ts: the peers of a    *)
(* routing bucket by subnet, the nodes of a network by range and           *)
(* capabilities, the voters of a quorum by region and ASN.  All are pure   *)
(* functions of a list; here the list grows by one element a step and the  *)
(* function is called on it.  A behaviour is one of one of the lists.      *)
(***************************************************************************)
EXTENDS Naturals, Sequences, FiniteSets, SequencesExt

CONSTANTS
  Subnets,      \* /24 or /16 ranges, getSubnet24 and getSubnet16 of an address
  Capabilities, \* hashCapabilities of a node
  Regions, Asns,
  MaxPeers,     \* bound on the peers of a bucket
  MaxListed,    \* bound on the listed nodes
  MaxQuorum     \* bound on the voters of a quorum

VARIABLES
  bucket,       \* the peers of one bucket, by subnet
  sanitized,    \* maintainDiverseBuckets of it
  listed,       \* the nodes given to detectSybilCluster
  clusters,     \* its answer
  quorum,       \* the voters given to enforceGeoDiversity
  quorumValid   \* its answer

diversityVars == <<bucket, sanitized, listed, clusters, quorum, quorumValid>>

Cap(n) == (3 * n + 9) \div 10      \* Math.ceil(n * 0.3)
CountOf(list, x) == Cardinality({i \in DOMAIN list : list[i] = x})

\* The cap is that of the list given, not of the list kept.
MaintainDiverse(peers) ==
  FoldLeft(LAMBDA kept, p : IF CountOf(kept, p) < Cap(Len(peers)) THEN Append(kept, p) ELSE kept,
           <<>>, peers)

NoSubnetDominates(peers) == \A i \in DOMAIN peers : CountOf(peers, peers[i]) <= Cap(Len(peers))
EnforcePeerDiversity(peers) ==
  /\ Cardinality(ToSet(peers)) >= 3
  /\ NoSubnetDominates(peers)

\* The nodes of a /16 range with the same capabilities, three of them at least.
DetectSybilCluster(nodes) ==
  {c \in {{j \in DOMAIN nodes : nodes[j] = nodes[i]} : i \in DOMAIN nodes} : Cardinality(c) >= 3}

\* maxAllowed = total * 30 / 100, not rounded.
EnforceGeoDiversity(voters) ==
  \A f \in {"region", "asn"} : \A i \in DOMAIN voters :
    10 * Cardinality({j \in DOMAIN voters : voters[j][f] = voters[i][f]}) <= 3 * Len(voters)

DiversityInit ==
  /\ bucket = <<>> /\ sanitized = <<>>
  /\ listed = <<>> /\ clusters = {}
  /\ quorum = <<>> /\ quorumValid = TRUE

CheckBucket(s) ==
  /\ Len(bucket) < MaxPeers /\ Len(listed) + Len(quorum) = 0
  /\ bucket' = Append(bucket, s) /\ sanitized' = MaintainDiverse(bucket')
  /\ UNCHANGED <<listed, clusters, quorum, quorumValid>>

CheckNodes(s, c) ==
  /\ Len(listed) < MaxListed /\ Len(bucket) + Len(quorum) = 0
  /\ listed' = Append(listed, [subnet16 |-> s, capHash |-> c])
  /\ clusters' = DetectSybilCluster(listed')
  /\ UNCHANGED <<bucket, sanitized, quorum, quorumValid>>

CheckQuorum(r, a) ==
  /\ Len(quorum) < MaxQuorum /\ Len(bucket) + Len(listed) = 0
  /\ quorum' = Append(quorum, [region |-> r, asn |-> a])
  /\ quorumValid' = EnforceGeoDiversity(quorum')
  /\ UNCHANGED <<bucket, sanitized, listed, clusters>>

DiversityNext ==
  \/ \E s \in Subnets : CheckBucket(s) \/ \E c \in Capabilities : CheckNodes(s, c)
  \/ \E r \in Regions, a \in Asns : CheckQuorum(r, a)

DiversitySpec == DiversityInit /\ [][DiversityNext]_diversityVars

DiversityTypeOK ==
  /\ bucket \in Seq(Subnets) /\ sanitized \in Seq(Subnets)
  /\ listed \in Seq([subnet16 : Subnets, capHash : Capabilities])
  /\ \A c \in clusters : c \subseteq DOMAIN listed
  /\ quorum \in Seq([region : Regions, asn : Asns]) /\ quorumValid \in BOOLEAN

\* Pruning agrees with the check of the peers: a bucket in which no subnet dominates keeps all
\* its peers, one that is pruned was dominated, and pruning loses no subnet, so that the bucket
\* still has the three subnets the check asks for if it had them.
PruningAgrees ==
  /\ sanitized = bucket <=> NoSubnetDominates(bucket)
  /\ ToSet(sanitized) = ToSet(bucket)
  /\ EnforcePeerDiversity(bucket) => EnforcePeerDiversity(sanitized)

\* A quorum that passes has voters of four regions and of four ASNs; no quorum of fewer than four
\* voters passes, the empty one excepted.
QuorumsSpread ==
  quorumValid /\ quorum # <<>> =>
    \A f \in {"region", "asn"} : Cardinality({quorum[i][f] : i \in DOMAIN quorum}) >= 4

\* Both: what the diversity checks let pass is as spread as they say, by their separate counts.
SpreadChecked == PruningAgrees /\ QuorumsSpread
=============================================================================
