--------------------------- MODULE TreasuryLedger ---------------------------
(***************************************************************************)
(* What a DAO's treasury promises its members, without rows, locks or      *)
(* transactions: one balance, credited by deposits, debited at most once   *)
(* for each proposal and never below zero.                                 *)
(***************************************************************************)
EXTENDS Integers

CONSTANTS Proposals,
          Amount,         \* Amount[p]: the spend p asks for
          DepositAmounts  \* amounts that may be deposited

VARIABLES balance,
          spent           \* the proposals whose spend was booked

Init == balance = 0 /\ spent = {}

Deposit == \E a \in DepositAmounts : balance' = balance + a /\ UNCHANGED spent

Spend(p) ==
  /\ p \notin spent
  /\ Amount[p] <= balance
  /\ balance' = balance - Amount[p]
  /\ spent' = spent \cup {p}

Next == Deposit \/ \E p \in Proposals : Spend(p)

Spec == Init /\ [][Next]_<<balance, spent>>
=============================================================================
