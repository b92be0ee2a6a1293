-------------------------- MODULE DaoTreasuryProofs --------------------------
(***************************************************************************)
(* Theorems about DaoTreasury, for every set of keys, proposals and        *)
(* clients, every quorum, threshold and amount.  The invariant that        *)
(* carries them is LockInv: a request that holds a row lock still sees in  *)
(* the row what it read from it.                                           *)
(***************************************************************************)
EXTENDS DaoTreasury, TLAPS

\* The fields a request has in each of its stages.
LEMMA RequestFields ==
  ASSUME NEW r \in Requests
  PROVE  /\ r.pc = "minting" => r.key \in Keys
         /\ r.pc \in {"proposing", "voting", "voteLocked", "execLocked", "execCounting",
                      "execDecided"} => r.p \in Proposals
         /\ r.pc \in {"voting", "voteLocked"} => r.key \in Keys /\ r.support \in {"yes", "no"}
         /\ r.pc = "depositLocked" => r.amount \in DepositAmounts /\ r.read \in Nat
         /\ r.pc \in {"execCounting", "execDecided"} => r.read \in Nat
         /\ r.pc = "execDecided" => r.outcome \in {"rejected", "executed"}
  BY DEF Requests, Idle

\* Giving back the locks keeps the lock variables typed.
LEMMA ReleaseTyped ==
  ASSUME TypeOK, NEW c \in Clients, ReleaseLocks(c)
  PROVE  /\ proposalLock' \in [Proposals -> Clients \cup {None}]
         /\ daoLock' \in Clients \cup {None}
  BY DEF TypeOK, ReleaseLocks

\* A new value of one request keeps the requests typed.
LEMMA GotoTyped ==
  ASSUME TypeOK, NEW c \in Clients, NEW r \in Requests, Goto(c, r)
  PROVE  request' \in [Clients -> Requests]
  BY DEF TypeOK, Goto

LEMMA FinishTyped ==
  ASSUME TypeOK, NEW c \in Clients, Finish(c)
  PROVE  request' \in [Clients -> Requests]
  BY GotoTyped DEF Finish, Requests

\* One step keeps every variable in its type; the treasury stays natural
\* because the schema's CHECK refuses a negative balance.
LEMMA TypeStep == TypeOK /\ [Next]_vars => TypeOK'
<1> SUFFICES ASSUME TypeOK, [Next]_vars PROVE TypeOK'
  OBVIOUS
<1> USE DaoAssumption
<1>1. ASSUME NEW c \in Clients, Step(c) PROVE TypeOK'
  <2> request[c] \in Requests
    BY DEF TypeOK
  <2>1. CASE AddMember(c)
    BY <2>1, FinishTyped, RequestFields DEF TypeOK, AddMember, At, locks
  <2>2. CASE CreateProposal(c)
    BY <2>2, FinishTyped, RequestFields DEF TypeOK, CreateProposal, At, locks, Status
  <2>3. CASE VoteLocks(c)
    <3>1. [request[c] EXCEPT !.pc = "voteLocked"] \in Requests
      BY <2>3 DEF VoteLocks, At, Requests, Idle
    <3> QED
      BY <2>3, <3>1, RequestFields DEF TypeOK, VoteLocks, At, tables
  <2>4. CASE VoteCommits(c)
    BY <2>4, FinishTyped, ReleaseTyped, RequestFields DEF TypeOK, VoteCommits, At, Ballot
  <2>5. CASE DepositCommits(c)
    <3>1. request[c].amount \in Nat /\ request[c].read \in Nat
      BY <2>5, RequestFields DEF DepositCommits, At
    <3>2. treasury' \in Nat /\ deposited' \in Nat
      BY <2>5, <3>1 DEF DepositCommits, TypeOK
    <3> QED
      BY <2>5, <3>2, FinishTyped, ReleaseTyped DEF TypeOK, DepositCommits
  <2>6. CASE ExecLocksDao(c)
    <3>1. [pc |-> "execCounting", p |-> request[c].p, read |-> treasury] \in Requests
      BY <2>6, RequestFields DEF ExecLocksDao, At, Requests, TypeOK
    <3> QED
      BY <2>6, <3>1, GotoTyped DEF TypeOK, ExecLocksDao, tables
  <2>7. CASE ExecCounts(c)
    <3>1. Outcome(request[c].p, request[c].read) \in {"rejected", "executed"}
      BY DEF Outcome
    <3>2. [pc |-> "execDecided", p |-> request[c].p, read |-> request[c].read,
           outcome |-> Outcome(request[c].p, request[c].read)] \in Requests
      BY <2>7, <3>1, RequestFields DEF ExecCounts, At, Requests
    <3> QED
      BY <2>7, <3>2, GotoTyped DEF TypeOK, ExecCounts, tables, locks
  <2>8. CASE ExecRejects(c)
    BY <2>8, FinishTyped, ReleaseTyped, RequestFields DEF TypeOK, ExecRejects, At, Status
  <2>9. CASE ExecSpends(c)
    BY <2>9, FinishTyped, ReleaseTyped, RequestFields DEF TypeOK, ExecSpends, At, Status
  <2>10. CASE Abort(c)
    BY <2>10, FinishTyped, ReleaseTyped DEF TypeOK, Abort, tables
  <2> QED
    BY <1>1, <2>1, <2>2, <2>3, <2>4, <2>5, <2>6, <2>7, <2>8, <2>9, <2>10 DEF Step
<1>2. ASSUME NEW c \in Clients, NEW r \in Requests, NEW caller \in Keys, NEW keys,
             Authorise(c, caller, keys, r)
      PROVE  TypeOK'
  BY <1>2, GotoTyped DEF Authorise, TypeOK, tables, locks
<1>3. ASSUME NEW c \in Clients, Call(c) PROVE TypeOK'
  <2>1. ASSUME NEW caller \in Keys, NEW key \in Keys, Mint(c, caller, key) PROVE TypeOK'
    BY <2>1, <1>2 DEF Mint, Requests
  <2>2. ASSUME NEW caller \in Keys, NEW p \in Proposals, Propose(c, caller, p) PROVE TypeOK'
    BY <2>2, <1>2 DEF Propose, Requests
  <2>3. ASSUME NEW caller \in Keys, NEW p \in Proposals, NEW support \in {"yes", "no"},
               CastVote(c, caller, p, support)
        PROVE  TypeOK'
    BY <2>3, <1>2 DEF CastVote, Requests
  <2>4. ASSUME NEW amount \in DepositAmounts, DepositLocks(c, amount) PROVE TypeOK'
    <3>1. [pc |-> "depositLocked", amount |-> amount, read |-> treasury] \in Requests
      BY DEF TypeOK, Requests
    <3> QED
      BY <2>4, <3>1, GotoTyped DEF TypeOK, DepositLocks, tables
  <2>5. ASSUME NEW p \in Proposals, ExecLocksProposal(c, p) PROVE TypeOK'
    <3>1. [pc |-> "execLocked", p |-> p] \in Requests
      BY DEF Requests
    <3> QED
      BY <2>5, <3>1, GotoTyped DEF TypeOK, ExecLocksProposal, tables
  <2> QED
    BY <1>3, <2>1, <2>2, <2>3, <2>4, <2>5 DEF Call
<1>4. ASSUME NEW key \in Keys, RemoveMember(key) PROVE TypeOK'
  BY <1>4 DEF RemoveMember, TypeOK, locks
<1>5. ASSUME NEW p \in Proposals, DeadlinePasses(p) PROVE TypeOK'
  BY <1>5 DEF DeadlinePasses, TypeOK, locks
<1>6. CASE UNCHANGED vars
  BY <1>6 DEF TypeOK, vars
<1> QED
  BY <1>1, <1>3, <1>4, <1>5, <1>6 DEF Next

\* Every reachable state is well typed; in particular no sequence of deposits
\* and executions brings the treasury below zero.
THEOREM TypeCorrect == Spec => []TypeOK
<1>1. Init => TypeOK
  BY DaoAssumption DEF Init, TypeOK, Status, Ballot, Requests, Idle
<1> QED
  BY <1>1, TypeStep, PTL DEF Spec

-----------------------------------------------------------------------------
\* The row locks.

\* Whether the threshold is met depends on the ballots of that proposal alone.
LEMMA SameBallots ==
  ASSUME NEW p, votes'[p] = votes[p]
  PROVE  ThresholdMet(p) => ThresholdMet(p)'
  BY DEF ThresholdMet, Voters

\* What a step of client c may not do to the rows another client has locked; a
\* step of no client is one of None.
Respects(c) ==
  \A d \in Clients \ {c} :
    /\ request'[d] = request[d]
    /\ \A p \in Proposals :
         proposalLock[p] = d =>
           /\ proposalLock'[p] = d
           /\ status[p] = "active" => status'[p] = "active"
           /\ votes'[p] = votes[p]
    /\ daoLock = d => daoLock' = d /\ treasury' = treasury

\* Such a step leaves the other clients what their locks gave them.
LEMMA OthersHold ==
  ASSUME TypeOK, NEW c, Respects(c), NEW d \in Clients \ {c}, Holds(d)
  PROVE  Holds(d)'
<1>1. PICK r \in Requests : r = request[d] /\ r = request'[d]
  BY DEF TypeOK, Respects
<1>2. ASSUME r.pc \in {"voteLocked", "execLocked", "execCounting", "execDecided"}
      PROVE  /\ proposalLock'[r.p] = d
             /\ status'[r.p] = "active"
             /\ votes'[r.p] = votes[r.p]
  BY <1>1, <1>2, RequestFields DEF Holds, Respects
<1>3. ASSUME r.pc \in {"depositLocked", "execCounting", "execDecided"}
      PROVE  daoLock' = d /\ r.read = treasury'
  BY <1>1, <1>3 DEF Holds, Respects
<1>4. ASSUME r.pc = "execDecided", r.outcome = "executed"
      PROVE  ThresholdMet(r.p)'
  <2>1. ThresholdMet(r.p)
    BY <1>1, <1>4 DEF Holds
  <2> QED
    BY <1>2, <1>4, <2>1, SameBallots
<1> QED
  BY <1>1, <1>2, <1>3, <1>4 DEF Holds

\* A client that has finished holds nothing.
LEMMA FinishHolds ==
  ASSUME TypeOK, NEW c \in Clients, Finish(c)
  PROVE  Holds(c)'
  BY DEF TypeOK, Finish, Goto, Idle, Holds

\* One step keeps LockInv: the client that moves has the locks its new stage
\* needs, and leaves alone the rows that others have locked.
LEMMA LockStep == TypeOK /\ LockInv /\ [Next]_vars => LockInv'
<1> SUFFICES ASSUME TypeOK, LockInv, [Next]_vars PROVE LockInv'
  OBVIOUS
<1> USE DaoAssumption
<1>1. ASSUME NEW c \in Clients, Respects(c), Holds(c)' PROVE LockInv'
  BY <1>1, OthersHold DEF LockInv
<1>2. ASSUME NEW c \in Clients, Step(c) PROVE LockInv'
  <2> request[c] \in Requests
    BY DEF TypeOK
  <2> Holds(c)
    BY DEF LockInv
  <2>1. CASE AddMember(c)
    <3>1. Respects(c)
      BY <2>1 DEF AddMember, Respects, Finish, Goto, TypeOK, locks
    <3> QED
      BY <1>1, <2>1, <3>1, FinishHolds DEF AddMember
  <2>2. CASE CreateProposal(c)
    <3>1. Respects(c)
      BY <2>2, RequestFields DEF CreateProposal, At, Respects, Finish, Goto, TypeOK, locks
    <3> QED
      BY <1>1, <2>2, <3>1, FinishHolds DEF CreateProposal
  <2>3. CASE VoteLocks(c)
    <3>1. Respects(c)
      BY <2>3 DEF VoteLocks, Respects, TypeOK, tables
    <3>2. Holds(c)'
      BY <2>3, RequestFields DEF VoteLocks, At, Holds, TypeOK, tables, Requests, Idle
    <3> QED
      BY <1>1, <3>1, <3>2
  <2>4. CASE VoteCommits(c)
    <3>1. request[c].p \in Proposals /\ proposalLock[request[c].p] = c
      BY <2>4, RequestFields DEF VoteCommits, At, Holds
    <3>2. Respects(c)
      BY <2>4, <3>1 DEF VoteCommits, Respects, ReleaseLocks, Finish, Goto, TypeOK
    <3> QED
      BY <1>1, <2>4, <3>2, FinishHolds DEF VoteCommits
  <2>5. CASE DepositCommits(c)
    <3>1. daoLock = c
      BY <2>5 DEF DepositCommits, At, Holds
    <3>2. Respects(c)
      BY <2>5, <3>1 DEF DepositCommits, Respects, ReleaseLocks, Finish, Goto, TypeOK
    <3> QED
      BY <1>1, <2>5, <3>2, FinishHolds DEF DepositCommits
  <2>6. CASE ExecLocksDao(c)
    <3>1. Respects(c)
      BY <2>6 DEF ExecLocksDao, Respects, Goto, TypeOK, tables
    <3>2. Holds(c)'
      BY <2>6 DEF ExecLocksDao, At, Goto, Holds, TypeOK, tables
    <3> QED
      BY <1>1, <3>1, <3>2
  <2>7. CASE ExecCounts(c)
    <3>1. Respects(c)
      BY <2>7 DEF ExecCounts, Respects, Goto, TypeOK, tables, locks
    <3>2. Outcome(request[c].p, request[c].read) = "executed" => ThresholdMet(request[c].p)
      BY DEF Outcome
    <3>3. Holds(c)'
      BY <2>7, <3>2 DEF ExecCounts, At, Goto, Holds, TypeOK, tables, locks,
                        ThresholdMet, Voters
    <3> QED
      BY <1>1, <3>1, <3>3
  <2>8. CASE ExecRejects(c)
    <3>1. request[c].p \in Proposals /\ proposalLock[request[c].p] = c
      BY <2>8, RequestFields DEF ExecRejects, At, Holds
    <3>2. Respects(c)
      BY <2>8, <3>1 DEF ExecRejects, Respects, ReleaseLocks, Finish, Goto, TypeOK
    <3> QED
      BY <1>1, <2>8, <3>2, FinishHolds DEF ExecRejects
  <2>9. CASE ExecSpends(c)
    <3>1. /\ request[c].p \in Proposals
          /\ proposalLock[request[c].p] = c
          /\ daoLock = c
      BY <2>9, RequestFields DEF ExecSpends, At, Holds
    <3>2. Respects(c)
      BY <2>9, <3>1 DEF ExecSpends, Respects, ReleaseLocks, Finish, Goto, TypeOK
    <3> QED
      BY <1>1, <2>9, <3>2, FinishHolds DEF ExecSpends
  <2>10. CASE Abort(c)
    <3>1. Respects(c)
      BY <2>10 DEF Abort, Respects, ReleaseLocks, Finish, Goto, TypeOK, tables
    <3> QED
      BY <1>1, <2>10, <3>1, FinishHolds DEF Abort
  <2> QED
    BY <1>2, <2>1, <2>2, <2>3, <2>4, <2>5, <2>6, <2>7, <2>8, <2>9, <2>10 DEF Step
<1>3. ASSUME NEW c \in Clients, NEW r, r.pc \in {"minting", "proposing", "voting"},
             NEW caller \in Keys, NEW keys, Authorise(c, caller, keys, r)
      PROVE  LockInv'
  <2>1. Respects(c)
    BY <1>3 DEF Authorise, Respects, Goto, TypeOK, tables, locks
  <2>2. Holds(c)'
    BY <1>3 DEF Authorise, Goto, Holds, TypeOK
  <2> QED
    BY <1>1, <2>1, <2>2
<1>4. ASSUME NEW c \in Clients, Call(c) PROVE LockInv'
  <2>1. ASSUME NEW caller \in Keys, NEW key \in Keys, Mint(c, caller, key) PROVE LockInv'
    BY <2>1, <1>3 DEF Mint
  <2>2. ASSUME NEW caller \in Keys, NEW p \in Proposals, Propose(c, caller, p) PROVE LockInv'
    BY <2>2, <1>3 DEF Propose
  <2>3. ASSUME NEW caller \in Keys, NEW p \in Proposals, NEW support \in {"yes", "no"},
               CastVote(c, caller, p, support)
        PROVE  LockInv'
    BY <2>3, <1>3 DEF CastVote
  <2>4. ASSUME NEW amount \in DepositAmounts, DepositLocks(c, amount) PROVE LockInv'
    <3>1. Respects(c)
      BY <2>4 DEF DepositLocks, Respects, Goto, TypeOK, tables
    <3>2. Holds(c)'
      BY <2>4 DEF DepositLocks, Goto, Holds, TypeOK, tables
    <3> QED
      BY <1>1, <3>1, <3>2
  <2>5. ASSUME NEW p \in Proposals, ExecLocksProposal(c, p) PROVE LockInv'
    <3>1. Respects(c)
      BY <2>5 DEF ExecLocksProposal, Respects, Goto, TypeOK, tables
    <3>2. Holds(c)'
      BY <2>5 DEF ExecLocksProposal, Goto, Holds, TypeOK, tables
    <3> QED
      BY <1>1, <3>1, <3>2
  <2> QED
    BY <1>4, <2>1, <2>2, <2>3, <2>4, <2>5 DEF Call
<1>5. ASSUME Respects(None) PROVE LockInv'
  BY <1>5, OthersHold DEF LockInv
<1>6. ASSUME NEW key \in Keys, RemoveMember(key) PROVE LockInv'
  BY <1>5, <1>6 DEF RemoveMember, Respects, locks
<1>7. ASSUME NEW p \in Proposals, DeadlinePasses(p) PROVE LockInv'
  BY <1>5, <1>7 DEF DeadlinePasses, Respects, locks
<1>8. CASE UNCHANGED vars
  BY <1>5, <1>8 DEF vars, Respects
<1> QED
  BY <1>2, <1>4, <1>6, <1>7, <1>8 DEF Next

\* A transaction that has locked a row sees no change of it by anybody else
\* until it commits.
THEOREM LocksHold == Spec => []LockInv
<1>1. Init => LockInv
  BY DEF Init, LockInv, Holds, Idle
<1> QED
  BY <1>1, LockStep, TypeCorrect, PTL DEF Spec

-----------------------------------------------------------------------------
\* What the locks are for.

\* The only steps that book money, and what they do to the books.
LEMMA Bookings ==
  ASSUME TypeOK, LockInv, [Next]_vars
  PROVE  \/ \E a \in DepositAmounts :
              /\ treasury' = treasury + a
              /\ deposited' = deposited + a
              /\ UNCHANGED <<withdrawn, spends, status, votes>>
         \/ \E p \in Proposals :
              /\ status[p] = "active" /\ ThresholdMet(p)
              /\ Amount[p] <= treasury
              /\ status' = [status EXCEPT ![p] = "executed"]
              /\ treasury' = treasury - Amount[p]
              /\ withdrawn' = withdrawn + Amount[p]
              /\ spends' = [spends EXCEPT ![p] = IF p \in Spending THEN @ + 1 ELSE @]
              /\ UNCHANGED <<deposited, votes>>
         \/ /\ UNCHANGED <<treasury, deposited, withdrawn, spends>>
            /\ \A p \in Proposals :
                 /\ status'[p] = "executed" <=> status[p] = "executed"
                 /\ status[p] = "executed" => votes'[p] = votes[p]
<1> DEFINE Quiet ==
      /\ UNCHANGED <<treasury, deposited, withdrawn, spends>>
      /\ \A p \in Proposals :
           /\ status'[p] = "executed" <=> status[p] = "executed"
           /\ status[p] = "executed" => votes'[p] = votes[p]
<1> USE DaoAssumption
<1>1. ASSUME UNCHANGED tables PROVE Quiet
  BY <1>1 DEF tables
<1>2. ASSUME NEW c \in Clients, Step(c),
             ~DepositCommits(c), ~ExecSpends(c)
      PROVE  Quiet
  <2> request[c] \in Requests
    BY DEF TypeOK
  <2>1. CASE AddMember(c)
    BY <2>1 DEF AddMember
  <2>2. CASE CreateProposal(c)
    BY <2>2, RequestFields DEF CreateProposal, At, TypeOK
  <2>3. CASE VoteCommits(c)
    <3>1. request[c].p \in Proposals /\ status[request[c].p] = "active"
      BY <2>3, RequestFields DEF VoteCommits, At, LockInv, Holds
    <3> QED
      BY <2>3, <3>1 DEF VoteCommits, TypeOK
  <2>4. CASE ExecRejects(c)
    <3>1. request[c].p \in Proposals /\ status[request[c].p] = "active"
      BY <2>4, RequestFields DEF ExecRejects, At, LockInv, Holds
    <3> QED
      BY <2>4, <3>1 DEF ExecRejects, TypeOK
  <2>5. CASE UNCHANGED tables
    BY <2>5, <1>1
  <2> QED
    BY <1>2, <2>1, <2>2, <2>3, <2>4, <2>5
    DEF Step, VoteLocks, ExecLocksDao, ExecCounts, Abort
<1>3. ASSUME NEW c \in Clients, Call(c) PROVE UNCHANGED tables
  BY <1>3 DEF Call, Mint, Propose, CastVote, Authorise, DepositLocks, ExecLocksProposal
<1>4. ASSUME NEW c \in Clients, DepositCommits(c)
      PROVE  \E a \in DepositAmounts :
               /\ treasury' = treasury + a
               /\ deposited' = deposited + a
               /\ UNCHANGED <<withdrawn, spends, status, votes>>
  <2>1. request[c].amount \in DepositAmounts /\ request[c].read = treasury
    BY <1>4, RequestFields DEF DepositCommits, At, TypeOK, LockInv, Holds
  <2> QED
    BY <1>4, <2>1 DEF DepositCommits
<1>5. ASSUME NEW c \in Clients, ExecSpends(c)
      PROVE  \E p \in Proposals :
               /\ status[p] = "active" /\ ThresholdMet(p)
               /\ Amount[p] <= treasury
               /\ status' = [status EXCEPT ![p] = "executed"]
               /\ treasury' = treasury - Amount[p]
               /\ withdrawn' = withdrawn + Amount[p]
               /\ spends' = [spends EXCEPT ![p] = IF p \in Spending THEN @ + 1 ELSE @]
               /\ UNCHANGED <<deposited, votes>>
  <2>1. request[c].p \in Proposals
    BY <1>5, RequestFields DEF ExecSpends, At, TypeOK
  <2>2. /\ request[c].read = treasury
        /\ status[request[c].p] = "active"
        /\ ThresholdMet(request[c].p)
    BY <1>5 DEF ExecSpends, At, LockInv, Holds
  <2>3. Amount[request[c].p] \in Nat /\ treasury \in Nat
    BY <2>1 DEF TypeOK
  <2>4. Amount[request[c].p] <= treasury
    BY <1>5, <2>2, <2>3 DEF ExecSpends
  <2> QED
    BY <1>5, <2>1, <2>2, <2>4 DEF ExecSpends
<1>6. CASE \E key \in Keys : RemoveMember(key)
  BY <1>6 DEF RemoveMember
<1>7. CASE \E p \in Proposals : DeadlinePasses(p)
  BY <1>7 DEF DeadlinePasses
<1>8. CASE UNCHANGED vars
  BY <1>8 DEF vars
<1> QED
  BY <1>1, <1>2, <1>3, <1>4, <1>5, <1>6, <1>7, <1>8 DEF Next

\* The balance of the daos row is the sum of the deposits minus the sum of the
\* spends: no transaction overwrites what another has booked.
THEOREM BalancedAlways == Spec => []TreasuryBalanced
<1>1. Init => TreasuryBalanced
  BY DEF Init, TreasuryBalanced
<1>2. TypeOK /\ LockInv /\ TreasuryBalanced /\ [Next]_vars => TreasuryBalanced'
  <2> SUFFICES ASSUME TypeOK, LockInv, TreasuryBalanced, [Next]_vars
               PROVE  TreasuryBalanced'
    OBVIOUS
  <2>1. /\ treasury \in Nat /\ deposited \in Nat /\ withdrawn \in Nat
        /\ Amount \in [Proposals -> Nat] /\ DepositAmounts \subseteq Nat
    BY DaoAssumption DEF TypeOK
  <2> QED
    BY <2>1, Bookings DEF TreasuryBalanced
<1> QED
  BY <1>1, <1>2, TypeCorrect, LocksHold, PTL DEF Spec

\* An executed proposal has exactly one spend on the books, or none if it asks
\* for no money, and any other proposal has none.
THEOREM SpentOnceAlways == Spec => []SpentOnce
<1>1. Init => SpentOnce
  BY DEF Init, SpentOnce
<1>2. TypeOK /\ LockInv /\ SpentOnce /\ [Next]_vars => SpentOnce'
  <2> SUFFICES ASSUME TypeOK, LockInv, SpentOnce, [Next]_vars, NEW q \in Proposals
               PROVE  spends'[q] = IF status'[q] = "executed" /\ q \in Spending THEN 1 ELSE 0
    BY DEF SpentOnce
  <2>1. status \in [Proposals -> Status] /\ spends \in [Proposals -> Nat]
    BY DEF TypeOK
  <2>2. spends[q] = IF status[q] = "executed" /\ q \in Spending THEN 1 ELSE 0
    BY DEF SpentOnce
  <2> QED
    BY <2>1, <2>2, Bookings
<1> QED
  BY <1>1, <1>2, TypeCorrect, LocksHold, PTL DEF Spec

\* The yes votes recorded for an executed proposal still reach the threshold.
THEOREM ExecutedCarriedAlways == Spec => []ExecutedCarried
<1>1. Init => ExecutedCarried
  BY DEF Init, ExecutedCarried
<1>2. TypeOK /\ LockInv /\ ExecutedCarried /\ [Next]_vars => ExecutedCarried'
  <2> SUFFICES ASSUME TypeOK, LockInv, ExecutedCarried, [Next]_vars,
                      NEW q \in Proposals, status'[q] = "executed"
               PROVE  ThresholdMet(q)'
    BY DEF ExecutedCarried
  <2>1. status \in [Proposals -> Status]
    BY DEF TypeOK
  <2>2. ThresholdMet(q) /\ votes'[q] = votes[q]
    BY <2>1, Bookings DEF ExecutedCarried
  <2> QED
    BY <2>2, SameBallots
<1> QED
  BY <1>1, <1>2, TypeCorrect, LocksHold, PTL DEF Spec

-----------------------------------------------------------------------------
\* The tables, locks and transactions implement the ledger: a deposit and an
\* execution take effect at their commit, everything else is a stutter.
THEOREM ImplementsLedger == Spec => LedgerSpec
<1>1. Init => Ledger!Init
  BY DEF Init, Ledger!Init
<1>2. TypeOK /\ LockInv /\ [Next]_vars
        => [Ledger!Next]_<<treasury, {p \in Proposals : status[p] = "executed"}>>
  <2> SUFFICES ASSUME TypeOK, LockInv, [Next]_vars
               PROVE  [Ledger!Next]_<<treasury, {p \in Proposals : status[p] = "executed"}>>
    OBVIOUS
  <2> DEFINE spent == {p \in Proposals : status[p] = "executed"}
  <2>1. status \in [Proposals -> Status]
    BY DEF TypeOK
  <2>2. ASSUME NEW a \in DepositAmounts, treasury' = treasury + a, UNCHANGED status
        PROVE  Ledger!Next
    BY <2>2 DEF Ledger!Next, Ledger!Deposit
  <2>3. ASSUME NEW p \in Proposals, status[p] = "active", Amount[p] <= treasury,
               status' = [status EXCEPT ![p] = "executed"],
               treasury' = treasury - Amount[p]
        PROVE  Ledger!Next
    <3>1. p \notin spent /\ spent' = spent \cup {p}
      BY <2>1, <2>3
    <3> QED
      BY <2>3, <3>1 DEF Ledger!Next, Ledger!Spend
  <2>4. ASSUME UNCHANGED treasury,
               \A p \in Proposals : status'[p] = "executed" <=> status[p] = "executed"
        PROVE  UNCHANGED <<treasury, spent>>
    BY <2>4
  <2> QED
    BY <2>2, <2>3, <2>4, Bookings
<1> QED
  BY <1>1, <1>2, TypeCorrect, LocksHold, PTL DEF Spec, LedgerSpec, Ledger!Spec
=============================================================================
