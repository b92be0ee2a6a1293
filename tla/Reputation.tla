------------------------------ MODULE Reputation ------------------------------
(***************************************************************************)
(* The reputation manager (reputation/manager.ts): scores, slashes and     *)
(* bans of the mesh nodes, and the registry of the addresses they come     *)
(* from.  A score is a real number computed from averages; here it is one  *)
(* of the levels 0..Top, and what a calculation returns is any level;      *)
(* the time of the last activity is a choice where it is read.             *)
(* Every method is synchronous and is one action.                          *)
(***************************************************************************)
EXTENDS Naturals, FiniteSets

CONSTANTS
  Nodes,           \* node ids
  Addresses,       \* IP addresses
  NoAddress,       \* a node without an address
  Profiles,        \* skill profiles, of which NoSkills is the empty one
  NoSkills,
  Top,             \* level of the highest overall score
  SlashThreshold,  \* config.slashThreshold
  MaxStake,        \* bound on a stake
  MaxFlags         \* bound on the review flags counted

ASSUME ReputationAssumption ==
  /\ SlashThreshold \in Nat \ {0} /\ Top \in Nat /\ MaxStake \in Nat /\ MaxFlags \in Nat
  /\ NoSkills \in Profiles /\ NoAddress \notin Addresses

VARIABLES
  scores,     \* scores and metadata of the known nodes
  ipRegistry, \* for each address, the nodes registered under it
  inits,      \* times a node was initialised, up to 2 (history)
  barred      \* nodes a slash has ever banned (history)

reputationVars == <<scores, ipRegistry, inits, barred>>

Known == DOMAIN scores
NewScore(a) == [overall |-> Top \div 2, stake |-> 0, slashCount |-> 0, skills |-> NoSkills,
                ip |-> a, banned |-> FALSE, flags |-> 0]
ScoreType == [overall : 0..Top, stake : 0..MaxStake, slashCount : 0..SlashThreshold,
              skills : Profiles, ip : Addresses \cup {NoAddress}, banned : BOOLEAN, flags : 0..MaxFlags]

Flagged(s, k) == [s EXCEPT !.flags = IF @ + k > MaxFlags THEN MaxFlags ELSE @ + k]
Put(n, s) == [m \in Known \cup {n} |-> IF m = n THEN s ELSE scores[m]]

ReputationInit ==
  /\ scores = <<>>
  /\ ipRegistry = [a \in Addresses |-> {}]
  /\ inits = [n \in Nodes |-> 0]
  /\ barred = {}

\* The score an operation on n works on: a node it does not know is initialised first.
ScoreOf(n) == IF n \in Known THEN scores[n] ELSE NewScore(NoAddress)
Recorded(n) ==
  /\ inits' = IF n \in Known THEN inits ELSE [inits EXCEPT ![n] = 1]
  /\ UNCHANGED ipRegistry

\* One flag for every other node of the address that has the same, not empty, profile.
Copies(n, a, skills) ==
  {m \in (ipRegistry[a] \cap Known) \ {n} : skills # NoSkills /\ scores[m].skills = skills}

Registered(n, a, s, registry) ==
  /\ scores' = Put(n, Flagged([s EXCEPT !.ip = a], Cardinality(Copies(n, a, s.skills))))
  /\ ipRegistry' = [registry EXCEPT ![a] = @ \cup {n}]

\* Also for a node that is known: everything but the registry starts afresh.
InitializeNode(n, a) ==
  /\ inits' = [inits EXCEPT ![n] = IF @ = 2 THEN 2 ELSE @ + 1]
  /\ UNCHANGED barred
  /\ IF a = NoAddress THEN scores' = Put(n, NewScore(a)) /\ UNCHANGED ipRegistry
     ELSE Registered(n, a, NewScore(a), ipRegistry)

\* A fault: a node that moves stays registered under its old address.
RegisterNodeIpAdds(n, a) ==
  IF n \notin Known THEN InitializeNode(n, a)
  ELSE Registered(n, a, scores[n], ipRegistry) /\ UNCHANGED <<inits, barred>>

RegisterNodeIp(n, a) ==
  IF n \notin Known THEN InitializeNode(n, a)
  ELSE LET old == scores[n].ip
       IN /\ Registered(n, a, scores[n],
               [b \in Addresses |-> IF b = old THEN ipRegistry[b] \ {n} ELSE ipRegistry[b]])
          /\ UNCHANGED <<inits, barred>>

\* The averages, the skill and the score move; a jump of the score adds a flag.
RecordTaskCompletion(n, skills, overall, jump) ==
  LET s == ScoreOf(n)
  IN /\ scores' = Put(n, IF s.banned THEN s ELSE
          Flagged([s EXCEPT !.skills = skills, !.overall = overall], IF jump THEN 1 ELSE 0))
     /\ Recorded(n) /\ UNCHANGED barred

\* The penalty of the reason is overwritten by the recalculation that follows it.
RecordTaskFailure(n, overall) ==
  LET s == ScoreOf(n)
  IN /\ scores' = Put(n, IF s.banned THEN s ELSE [s EXCEPT !.overall = overall])
     /\ Recorded(n) /\ UNCHANGED barred

\* The score falls, by a penalty that may be too small for a level.
Slashed(s, amount, overall) ==
  Flagged([s EXCEPT !.stake = IF @ > amount THEN @ - amount ELSE 0,
                    !.slashCount = @ + 1,
                    !.overall = IF overall < @ THEN overall ELSE @], 1)

Slash(n, amount, overall) ==
  LET s == ScoreOf(n)
      t == Slashed(s, amount, overall)
      out == ~s.banned /\ t.slashCount >= SlashThreshold
  IN /\ scores' = Put(n, IF s.banned THEN s
                         ELSE IF out THEN [t EXCEPT !.banned = TRUE, !.overall = 0] ELSE t)
     /\ barred' = IF out THEN barred \cup {n} ELSE barred
     /\ Recorded(n)

\* The nodes that have been inactive for more than a day fall by levels, the banned ones not.
DecayScores(lost) ==
  /\ scores' = [n \in Known |->
       IF scores[n].banned THEN scores[n]
       ELSE [scores[n] EXCEPT !.overall = IF @ > lost[n] THEN @ - lost[n] ELSE 0]]
  /\ UNCHANGED <<ipRegistry, inits, barred>>

\* updateStake recalculates the score of a banned node too.
UpdateStake(n, amount, overall) ==
  /\ scores' = Put(n, [ScoreOf(n) EXCEPT !.stake = amount, !.overall = overall])
  /\ Recorded(n) /\ UNCHANGED barred

\* So does updateReliability.
UpdateReliability(n, overall) ==
  /\ scores' = Put(n, [ScoreOf(n) EXCEPT !.overall = overall])
  /\ Recorded(n) /\ UNCHANGED barred

StakeNode(n, amount) ==
  /\ ScoreOf(n).stake + amount <= MaxStake
  /\ scores' = Put(n, [ScoreOf(n) EXCEPT !.stake = @ + amount])
  /\ Recorded(n) /\ UNCHANGED barred

ReputationNext ==
  \/ \E lost \in [Known -> 0..Top] : DecayScores(lost)
  \/ \E n \in Nodes :
    \/ \E a \in Addresses \cup {NoAddress} : InitializeNode(n, a)
    \/ \E a \in Addresses : RegisterNodeIp(n, a)
    \/ \E v \in 0..Top :
         \/ \E p \in Profiles, jump \in BOOLEAN : RecordTaskCompletion(n, p, v, jump)
         \/ RecordTaskFailure(n, v)
         \/ \E amount \in 0..MaxStake : UpdateStake(n, amount, v)
         \/ UpdateReliability(n, v)
         \/ \E amount \in 0..MaxStake : Slash(n, amount, v)
    \/ \E amount \in 0..MaxStake : StakeNode(n, amount)

ReputationSpec == ReputationInit /\ [][ReputationNext]_reputationVars

\* The readers: who may be given tasks, and who is listed.
Ranked(n) == n \in Known /\ ~scores[n].banned
IsEligible(n, minReputation, minStake) ==
  /\ Ranked(n)
  /\ scores[n].overall >= minReputation
  /\ scores[n].stake >= minStake
  /\ scores[n].flags <= 5

ReputationTypeOK ==
  /\ Known \subseteq Nodes
  /\ \A n \in Known : scores[n] \in ScoreType
  /\ ipRegistry \in [Addresses -> SUBSET Nodes]
  /\ inits \in [Nodes -> 0..2]
  /\ barred \subseteq Nodes

\* "Permanent ban after slashThreshold slashes": a node a slash has banned is never listed nor
\* given a task again.  initializeNode lifts the ban of a node it is called for again.
BannedForGood == \A n \in barred : ~Ranked(n) /\ ~IsEligible(n, 0, 0)

\* The registry that Sybil detection reads agrees with the addresses the nodes hold: a node is
\* registered under its address, and under another one only if it was initialised twice
\* (initializeNode forgets the old address without leaving its registry entry).
RegistryAgrees ==
  \A n \in Known, a \in Addresses :
    /\ scores[n].ip = a => n \in ipRegistry[a]
    /\ n \in ipRegistry[a] => scores[n].ip = a \/ inits[n] = 2
=============================================================================
