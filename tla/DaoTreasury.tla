----------------------------- MODULE DaoTreasury -----------------------------
(***************************************************************************)
(* One DAO as kept in PostgreSQL (src/src/dao): its row in daos, its       *)
(* members, proposals, votes and treasury movements, and the concurrent    *)
(* requests of the pool's clients on them.                                 *)
(*                                                                         *)
(* The transactions run at READ COMMITTED.  SELECT ... FOR UPDATE takes a  *)
(* row lock that is held to COMMIT or ROLLBACK, and what a transaction     *)
(* writes is seen by nobody before its COMMIT; a step below is therefore a *)
(* lock taken with the row as read under it, or the commit of all writes.  *)
(* A query outside a transaction is a step of its own.                     *)
(***************************************************************************)
EXTENDS Integers, FiniteSets, Sequences

CONSTANTS Keys,           \* public keys of members and would-be members
          Founders,       \* its creator and the initialMembers of createDAO
          Elsewhere,      \* keys that are members of another DAO
          Proposals,
          Clients,        \* pooled connections serving requests
          None,           \* an unlocked row
          Spending,       \* the proposals whose amount is not NULL
          Amount,         \* Amount[p]: proposals.amount, 0 in place of NULL
          DepositAmounts, \* amounts deposited
          Quorum,         \* daos.quorum, a percentage of the members
          Threshold,      \* daos.threshold, a number of yes votes
          MaxDeposited    \* bound: deposits stop at this sum

ASSUME DaoAssumption ==
  /\ Founders \subseteq Keys
  /\ Elsewhere \subseteq Keys
  /\ IsFiniteSet(Keys)
  /\ None \notin Clients
  /\ Spending \subseteq Proposals
  /\ Amount \in [Proposals -> Nat]
  /\ \A p \in Proposals \ Spending : Amount[p] = 0
  /\ DepositAmounts \subseteq Nat
  /\ Quorum \in Nat \ {0}
  /\ Threshold \in Nat \ {0}
  /\ MaxDeposited \in Nat

VARIABLES
  treasury,       \* daos.treasury
  status,         \* proposals.status, "absent" before the INSERT
  expired,        \* the deadline of the proposal lies in the past
  votes,          \* the votes table: votes[p][k]
  members,        \* dao_members
  deposited,      \* SUM(amount) of the deposit movements
  withdrawn,      \* SUM(amount) of the proposal_spend movements
  spends,         \* spends[p]: proposal_spend movements that name p
  proposalLock,   \* holder of the row lock on proposals p
  daoLock,        \* holder of the row lock on the daos row
  request         \* request[c]: what client c is in the middle of

vars == <<treasury, status, expired, votes, members, deposited, withdrawn,
          spends, proposalLock, daoLock, request>>
tables == <<treasury, status, expired, votes, members, deposited, withdrawn, spends>>
locks  == <<proposalLock, daoLock>>

\* 'passed' and 'cancelled' are allowed by the schema and never written.
Status == {"absent", "active", "rejected", "executed"}
Ballot == {"none", "yes", "no"}

Idle == [pc |-> "idle"]

\* The requests: between the membership query and what follows it, inside the
\* transactions of castVote and deposit, and the three stages of
\* executeProposal, the last with the outcome it is about to commit.
Requests ==
       {Idle}
  \cup [pc : {"minting"}, key : Keys]
  \cup [pc : {"proposing"}, p : Proposals]
  \cup [pc : {"voting", "voteLocked"}, p : Proposals, key : Keys, support : {"yes", "no"}]
  \cup [pc : {"depositLocked"}, amount : DepositAmounts, read : Nat]
  \cup [pc : {"execLocked"}, p : Proposals]
  \cup [pc : {"execCounting"}, p : Proposals, read : Nat]
  \cup [pc : {"execDecided"}, p : Proposals, read : Nat, outcome : {"rejected", "executed"}]

Init ==
  /\ treasury = 0
  /\ status = [p \in Proposals |-> "absent"]
  /\ expired = [p \in Proposals |-> FALSE]
  /\ votes = [p \in Proposals |-> [k \in Keys |-> "none"]]
  /\ members = Founders
  /\ deposited = 0
  /\ withdrawn = 0
  /\ spends = [p \in Proposals |-> 0]
  /\ proposalLock = [p \in Proposals |-> None]
  /\ daoLock = None
  /\ request = [c \in Clients |-> Idle]

Free(c) == request[c].pc = "idle"
At(c, pc) == request[c].pc = pc
Goto(c, r) == request' = [request EXCEPT ![c] = r]
Finish(c) == Goto(c, Idle)

\* COMMIT and ROLLBACK give back every row lock the client holds.
ReleaseLocks(c) ==
  /\ proposalLock' = [p \in Proposals |-> IF proposalLock[p] = c THEN None ELSE proposalLock[p]]
  /\ daoLock' = IF daoLock = c THEN None ELSE daoLock

-----------------------------------------------------------------------------
\* Membership.  mint, propose and vote query isMember first and act in a later
\* statement, when the caller may be a member no longer.  vote asks for the DAO
\* that the request names, which need not be the DAO of the proposal.

Authorise(c, caller, keys, r) ==
  /\ Free(c)
  /\ caller \in keys
  /\ Goto(c, r)
  /\ UNCHANGED <<tables, locks>>

Mint(c, caller, key) == Authorise(c, caller, members, [pc |-> "minting", key |-> key])
Propose(c, caller, p) ==
  /\ status[p] = "absent"
  /\ \A d \in Clients : At(d, "proposing") => request[d].p # p
  /\ Authorise(c, caller, members, [pc |-> "proposing", p |-> p])
CastVote(c, caller, p, support) ==
  Authorise(c, caller, members \cup Elsewhere,
            [pc |-> "voting", p |-> p, key |-> caller, support |-> support])

\* addMember: a new row's reference to the DAO waits while the row of the DAO is
\* locked; an existing row only has its role updated.
AddMember(c) ==
  /\ At(c, "minting")
  /\ daoLock = None \/ request[c].key \in members
  /\ members' = members \cup {request[c].key}
  /\ Finish(c)
  /\ UNCHANGED <<treasury, status, expired, votes, deposited, withdrawn, spends, locks>>

RemoveMember(key) ==
  /\ members' = members \ {key}
  /\ UNCHANGED <<treasury, status, expired, votes, deposited, withdrawn, spends, locks, request>>

-----------------------------------------------------------------------------
\* Proposals and votes.

CreateProposal(c) ==
  /\ At(c, "proposing")
  /\ daoLock = None
  /\ status[request[c].p] = "absent"
  /\ status' = [status EXCEPT ![request[c].p] = "active"]
  /\ Finish(c)
  /\ UNCHANGED <<treasury, expired, votes, members, deposited, withdrawn, spends, locks>>

\* The deadline is only ever compared for an active proposal.
DeadlinePasses(p) ==
  /\ status[p] = "active"
  /\ ~expired[p]
  /\ expired' = [expired EXCEPT ![p] = TRUE]
  /\ UNCHANGED <<treasury, status, votes, members, deposited, withdrawn, spends, locks, request>>

\* A fault: the proposal is read without FOR UPDATE.
VoteReads(c) ==
  /\ At(c, "voting")
  /\ status[request[c].p] = "active"
  /\ ~expired[request[c].p]
  /\ request' = [request EXCEPT ![c].pc = "voteLocked"]
  /\ UNCHANGED <<tables, locks>>

VoteLocks(c) ==
  /\ At(c, "voting")
  /\ proposalLock[request[c].p] = None
  /\ status[request[c].p] = "active"
  /\ ~expired[request[c].p]
  /\ proposalLock' = [proposalLock EXCEPT ![request[c].p] = c]
  /\ request' = [request EXCEPT ![c].pc = "voteLocked"]
  /\ UNCHANGED <<tables, daoLock>>

VoteCommits(c) ==
  /\ At(c, "voteLocked")
  /\ votes' = [votes EXCEPT ![request[c].p][request[c].key] = request[c].support]
  /\ ReleaseLocks(c)
  /\ Finish(c)
  /\ UNCHANGED <<treasury, status, expired, members, deposited, withdrawn, spends>>

-----------------------------------------------------------------------------
\* deposit.

\* A fault: the balance is read without FOR UPDATE.
DepositReads(c, amount) ==
  /\ Free(c)
  /\ deposited + amount <= MaxDeposited
  /\ Goto(c, [pc |-> "depositLocked", amount |-> amount, read |-> treasury])
  /\ UNCHANGED <<tables, locks>>

DepositLocks(c, amount) ==
  /\ Free(c)
  /\ daoLock = None
  /\ deposited + amount <= MaxDeposited
  /\ daoLock' = c
  /\ Goto(c, [pc |-> "depositLocked", amount |-> amount, read |-> treasury])
  /\ UNCHANGED <<tables, proposalLock>>

DepositCommits(c) ==
  /\ At(c, "depositLocked")
  /\ treasury' = request[c].read + request[c].amount
  /\ deposited' = deposited + request[c].amount
  /\ ReleaseLocks(c)
  /\ Finish(c)
  /\ UNCHANGED <<status, expired, votes, members, withdrawn, spends>>

-----------------------------------------------------------------------------
\* executeProposal.  Anybody may call it, at any time: neither the executor's
\* membership nor the deadline is looked at.

\* A fault: the status is not tested.
ExecLocksAny(c, p) ==
  /\ Free(c)
  /\ proposalLock[p] = None
  /\ status[p] # "absent"
  /\ proposalLock' = [proposalLock EXCEPT ![p] = c]
  /\ Goto(c, [pc |-> "execLocked", p |-> p])
  /\ UNCHANGED <<tables, daoLock>>

ExecLocksProposal(c, p) ==
  /\ Free(c)
  /\ proposalLock[p] = None
  /\ status[p] = "active"
  /\ proposalLock' = [proposalLock EXCEPT ![p] = c]
  /\ Goto(c, [pc |-> "execLocked", p |-> p])
  /\ UNCHANGED <<tables, daoLock>>

\* A fault: FOR UPDATE OF p alone, the DAO's row is read without a lock.
ExecReadsDao(c) ==
  /\ At(c, "execLocked")
  /\ Goto(c, [pc |-> "execCounting", p |-> request[c].p, read |-> treasury])
  /\ UNCHANGED <<tables, locks>>

ExecLocksDao(c) ==
  /\ At(c, "execLocked")
  /\ daoLock = None
  /\ daoLock' = c
  /\ Goto(c, [pc |-> "execCounting", p |-> request[c].p, read |-> treasury])
  /\ UNCHANGED <<tables, proposalLock>>

Voters(p, ballots) == {k \in Keys : votes[p][k] \in ballots}
QuorumMet(p) ==
  100 * Cardinality(Voters(p, {"yes", "no"})) >= Cardinality(members) * Quorum
ThresholdMet(p) == Cardinality(Voters(p, {"yes"})) >= Threshold

\* node-postgres hands BIGINT columns over as strings, so that amount > treasury
\* compares two decimal numerals character by character.
Decimal[n \in Nat] == IF n < 10 THEN <<n>> ELSE Append(Decimal[n \div 10], n % 10)
StringGreater(a, b) ==
  LET s == Decimal[a]
      t == Decimal[b]
  IN \E i \in 1..Len(s) : /\ \A j \in 1..(i - 1) : j <= Len(t) /\ s[j] = t[j]
                          /\ i > Len(t) \/ s[i] > t[i]

\* The counts are taken with the proposal locked, the members are not.
Outcome(p, read) ==
  IF QuorumMet(p) /\ ThresholdMet(p) /\ ~(p \in Spending /\ StringGreater(Amount[p], read))
  THEN "executed" ELSE "rejected"

ExecCounts(c) ==
  /\ At(c, "execCounting")
  /\ Goto(c, [pc |-> "execDecided", p |-> request[c].p, read |-> request[c].read,
              outcome |-> Outcome(request[c].p, request[c].read)])
  /\ UNCHANGED <<tables, locks>>

ExecRejects(c) ==
  /\ At(c, "execDecided")
  /\ request[c].outcome = "rejected"
  /\ status' = [status EXCEPT ![request[c].p] = "rejected"]
  /\ ReleaseLocks(c)
  /\ Finish(c)
  /\ UNCHANGED <<treasury, expired, votes, members, deposited, withdrawn, spends>>

\* A fault: the schema does not check treasury >= 0.
ExecSpendsUnchecked(c) ==
  LET p == request[c].p IN
  /\ At(c, "execDecided")
  /\ request[c].outcome = "executed"
  /\ status' = [status EXCEPT ![p] = "executed"]
  /\ treasury' = request[c].read - Amount[p]
  /\ withdrawn' = withdrawn + Amount[p]
  /\ spends' = [spends EXCEPT ![p] = IF p \in Spending THEN @ + 1 ELSE @]
  /\ ReleaseLocks(c)
  /\ Finish(c)
  /\ UNCHANGED <<expired, votes, members, deposited>>

\* The UPDATE of daos fails on CHECK (treasury >= 0) when the comparison of
\* numerals let too large an amount through; the transaction then rolls back.
ExecSpends(c) ==
  LET p == request[c].p IN
  /\ At(c, "execDecided")
  /\ request[c].outcome = "executed"
  /\ request[c].read - Amount[p] >= 0
  /\ status' = [status EXCEPT ![p] = "executed"]
  /\ treasury' = request[c].read - Amount[p]
  /\ withdrawn' = withdrawn + Amount[p]
  /\ spends' = [spends EXCEPT ![p] = IF p \in Spending THEN @ + 1 ELSE @]
  /\ ReleaseLocks(c)
  /\ Finish(c)
  /\ UNCHANGED <<expired, votes, members, deposited>>

\* ROLLBACK: a query failed, a lock or the connection timed out, the process
\* died.  A request that finds its proposal closed ends here as well.
Abort(c) ==
  /\ ~Free(c)
  /\ ReleaseLocks(c)
  /\ Finish(c)
  /\ UNCHANGED tables

-----------------------------------------------------------------------------
Step(c) ==
  \/ AddMember(c)
  \/ CreateProposal(c)
  \/ VoteLocks(c)
  \/ VoteCommits(c)
  \/ DepositCommits(c)
  \/ ExecLocksDao(c)
  \/ ExecCounts(c)
  \/ ExecRejects(c)
  \/ ExecSpends(c)
  \/ Abort(c)

Call(c) ==
  \/ \E caller \in Keys :
       \/ \E key \in Keys : Mint(c, caller, key)
       \/ \E p \in Proposals : Propose(c, caller, p)
       \/ \E p \in Proposals, support \in {"yes", "no"} : CastVote(c, caller, p, support)
  \/ \E amount \in DepositAmounts : DepositLocks(c, amount)
  \/ \E p \in Proposals : ExecLocksProposal(c, p)

Next ==
  \/ \E c \in Clients : Step(c) \/ Call(c)
  \/ \E key \in Keys : RemoveMember(key)
  \/ \E p \in Proposals : DeadlinePasses(p)

Spec == Init /\ [][Next]_vars

-----------------------------------------------------------------------------
TypeOK ==
  /\ treasury \in Nat
  /\ status \in [Proposals -> Status]
  /\ expired \in [Proposals -> BOOLEAN]
  /\ votes \in [Proposals -> [Keys -> Ballot]]
  /\ members \in SUBSET Keys
  /\ deposited \in Nat
  /\ withdrawn \in Nat
  /\ spends \in [Proposals -> Nat]
  /\ proposalLock \in [Proposals -> Clients \cup {None}]
  /\ daoLock \in Clients \cup {None}
  /\ request \in [Clients -> Requests]

\* The audit of verifyConsistency, taken on one snapshot: the balance is the
\* deposits minus the spends.  Every writer computes the new balance from one
\* it read earlier, so this rests on the row lock held in between.
TreasuryBalanced == treasury = deposited - withdrawn

\* A proposal is paid for once if it was executed and never otherwise, however
\* many clients execute it at the same time or again.
SpentOnce ==
  \A p \in Proposals :
    spends[p] = IF status[p] = "executed" /\ p \in Spending THEN 1 ELSE 0

\* The votes of an executed proposal still carry it: the ballots that met the
\* threshold cannot change between the count and the commit, nor afterwards.
ExecutedCarried == \A p \in Proposals : status[p] = "executed" => ThresholdMet(p)

\* The treasury of the rows and transactions is the abstract ledger.
Ledger == INSTANCE TreasuryLedger WITH
            balance <- treasury,
            spent   <- {p \in Proposals : status[p] = "executed"}

LedgerSpec == Ledger!Spec

\* What the row locks give each stage of a request: the rows it has read are
\* locked by it and still hold what it read, and a decision to execute is
\* backed by the votes.
Holds(c) ==
  LET r == request[c] IN
  /\ r.pc \in {"voteLocked", "execLocked", "execCounting", "execDecided"} =>
       proposalLock[r.p] = c /\ status[r.p] = "active"
  /\ r.pc \in {"depositLocked", "execCounting", "execDecided"} =>
       daoLock = c /\ r.read = treasury
  /\ r.pc = "execDecided" /\ r.outcome = "executed" => ThresholdMet(r.p)

LockInv == \A c \in Clients : Holds(c)

\* "Insufficient treasury funds" is why a proposal with quorum and threshold is
\* rejected: the treasury that was read then is smaller than the amount.
RejectedForLackOfFunds ==
  [][\A c \in Clients :
       LET r == request[c]
           d == request'[c]
       IN r.pc = "execCounting" /\ d.pc = "execDecided" /\ d.outcome = "rejected"
          /\ QuorumMet(r.p) /\ ThresholdMet(r.p)
          => r.read < Amount[r.p]]_vars
=============================================================================
