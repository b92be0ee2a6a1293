------------------------------- MODULE Escrow -------------------------------
(***************************************************************************)
(* ManufacturingEscrow (src/src/manufacturing/escrows.ts): the map         *)
(* pendingEscrows and the operations on one escrow.  An operation that     *)
(* awaits a transaction is split at that await: CanRelease is what         *)
(* releaseMilestone tests before it, ReleaseMilestone what it writes after *)
(* it.  The module has no next-state relation of its own: Manufacturing    *)
(* composes these actions with the order service that calls them.          *)
(***************************************************************************)
EXTENDS Integers

CONSTANTS Orders,     \* purchase orders
          Escrows,    \* escrow identifiers createEscrow may draw
          None        \* the undefined of the TypeScript code

ASSUME EscrowAssumption == None \notin Escrows /\ None \notin Orders

VARIABLES escrow,     \* escrow[e]: the POEscrow stored under e
          paid        \* paid[e][i]: release transactions sent for milestone i of e

escrowVars == <<escrow, paid>>

\* createOrder always hands createEscrow three milestone amounts.
Milestones == 0..2

\* 'pending', 'manufacturing' and 'cancelled' are declared but never assigned.
EscrowStatus == {"absent", "funded", "milestone_1", "milestone_2",
                 "complete", "disputed", "refunded"}

EscrowTypeOK ==
  /\ escrow \in [Escrows -> [status : EscrowStatus,
                             milestonesCompleted : 0..3,
                             order : Orders \cup {None}]]
  /\ paid \in [Escrows -> [Milestones -> Nat]]

EscrowInit ==
  /\ escrow = [e \in Escrows |->
                 [status |-> "absent", milestonesCompleted |-> 0, order |-> None]]
  /\ paid = [e \in Escrows |-> [i \in Milestones |-> 0]]

Exists(e) == escrow[e].status # "absent"

\* The part of createEscrow that follows the simulated contract call.  The
\* milestone amounts are rounded down from the total, so its sum test passes.
CreateEscrow(e, o) ==
  /\ ~Exists(e)
  /\ escrow' = [escrow EXCEPT ![e] =
                  [status |-> "funded", milestonesCompleted |-> 0, order |-> o]]
  /\ UNCHANGED paid

\* A fault: a milestone may be released before the ones in front of it.
CanReleaseUnordered(e, i) == Exists(e) /\ i >= escrow[e].milestonesCompleted

\* releaseMilestone before its await: unknown escrow, invalid index, "already
\* released" and "Previous milestones must be released first" all throw.
CanRelease(e, i) ==
  /\ Exists(e)
  /\ i = escrow[e].milestonesCompleted

StatusAfter(n, status) ==
  CASE n = 3 -> "complete"
    [] n = 1 -> "milestone_1"
    [] n = 2 -> "milestone_2"
    [] OTHER -> status

\* releaseMilestone after its await: the transaction was sent, the counter
\* moves whatever it now holds, and the status follows the counter alone.
ReleaseMilestone(e, i) ==
  LET n == escrow[e].milestonesCompleted + 1 IN
  /\ paid' = [paid EXCEPT ![e][i] = @ + 1]
  /\ escrow' = [escrow EXCEPT ![e].milestonesCompleted = n,
                              ![e].status = StatusAfter(n, @)]

CanDispute(e) ==
  Exists(e) /\ escrow[e].status \notin {"disputed", "complete", "refunded"}

\* resolveDispute: an even split settles nothing, the status stays 'disputed'.
CanResolve(e, percent) == escrow[e].status = "disputed" /\ percent \in 0..100

StatusResolved(percent, status) ==
  CASE percent = 100 -> "refunded"
    [] percent = 0   -> "complete"
    [] OTHER         -> status

SetEscrowStatus(e, status) ==
  /\ escrow' = [escrow EXCEPT ![e].status = status]
  /\ UNCHANGED paid

RaiseEscrowDispute(e) == SetEscrowStatus(e, "disputed")

ResolveEscrowDispute(e, percent) ==
  SetEscrowStatus(e, StatusResolved(percent, escrow[e].status))

\* refundBuyer: no caller in the repository, an operator's entry point.
RefundBuyer(e) ==
  /\ Exists(e)
  /\ escrow[e].status \notin {"refunded", "complete"}
  /\ SetEscrowStatus(e, "refunded")
=============================================================================
