---------------------------- MODULE MCGovernance ----------------------------
(***************************************************************************)
(* Three voters, so that a circle of delegations needs two intermediate    *)
(* steps and a delegatee may have two delegators, and one treasury spend.  *)
(* The balance 9 is above the cap of 4, the balance 1 below it.            *)
(***************************************************************************)
EXTENDS Governance, TLC

CONSTANTS v1, v2, v3, p1

MCVoters         == {v1, v2, v3}
MCProposals      == {p1}
MCAmount         == (p1 :> 2)
MCThreshold      == (p1 :> 60)
MCBalances       == {1, 9}
MCHoldings       == {9}
MCDepositAmounts == {1}

Symmetry == Permutations(MCVoters)
=============================================================================
