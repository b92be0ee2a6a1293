---------------------------- MODULE MCDaoTreasury ----------------------------
(***************************************************************************)
(* Two keys, two proposals, two clients.  With deposits of 5 up to 10 and  *)
(* the amounts 4 and 10 the comparison of numerals goes both right and     *)
(* wrong: "4" < "5" and "10" = "10", but "4" > "10" and "10" < "5".        *)
(***************************************************************************)
EXTENDS DaoTreasury, TLC

CONSTANTS k1, k2, p1, p2, c1, c2

MCKeys           == {k1, k2}
MCProposals      == {p1, p2}
MCSpending       == {p1, p2}
MCClients        == {c1, c2}
MCAmount         == (p1 :> 4) @@ (p2 :> 10)
MCDepositAmounts == {5}

Symmetry == Permutations(MCClients) \cup Permutations(MCKeys)
=============================================================================
