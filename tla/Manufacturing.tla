---------------------------- MODULE Manufacturing ----------------------------
(***************************************************************************)
(* ManufacturingOrders (src/src/manufacturing/orders.ts) driving the       *)
(* escrow and the tracking services and the passport mint.                 *)
(*                                                                         *)
(* The handlers are async functions on one thread: each is cut at its      *)
(* awaits and call[c] is the continuation of the invocation in slot c.     *)
(* An await on a transaction (escrow creation, release, mint) ends when a  *)
(* timer or the network answers; every other await only yields to the      *)
(* microtask queue, which drains before the next timer is served           *)
(* (MicrotasksDrained).  A call that throws before it writes anything is   *)
(* no step.                                                                *)
(***************************************************************************)
EXTENDS Escrow, Tracking, Sequences

CONSTANTS Callers,      \* slots for concurrent invocations
          Quantity,     \* items per order: one passport each
          Percents,     \* buyer shares an arbitrator may choose
          FieldStages   \* checkpoints reported outside the order service

ASSUME ManufacturingAssumption ==
  /\ Quantity \in Nat \ {0}
  /\ Percents \subseteq 0..100
  /\ FieldStages \subseteq Stages
  /\ None \notin Products

VARIABLES order,        \* order[o]: the ManufacturingOrder o
          minted,       \* minted[o]: passport transactions sent for o
          call          \* call[c]: where invocation c is suspended

vars == <<escrow, paid, record, verified, order, minted, call>>

OrderStatus == {"absent", "draft", "pending_approval", "approved", "funded",
                "in_production", "production_complete", "shipping", "delivered",
                "complete", "disputed", "cancelled", "refunded"}

\* The checkpoints each handler records for every product of the order.
Checkpoints == [start    |-> <<ProductionStart>>,
                progress |-> <<ManufacturingProgress>>,
                inspect  |-> <<QualityControl1>>,
                ship     |-> <<Packaging, Shipping>>,
                deliver  |-> <<DeliveryConfirmed, Completed>>]

\* Suspended in the microtask queue, respectively on a transaction.
MicroPCs == {"created", "tracked", "recorded", "minted", "released", "resolved"}
TimerPCs == {"creating", "minting", "releasing"}

Frame == [pc : {"idle"} \cup MicroPCs \cup TimerPCs,
          o  : Orders \cup {None},
          e  : Escrows \cup {None},
          p  : Products \cup {None},
          op : DOMAIN Checkpoints \cup {"none"},
          n  : Nat]

Idle == [pc |-> "idle", o |-> None, e |-> None, p |-> None, op |-> "none", n |-> 0]

NewOrder(status) ==
  [status |-> status, escrowId |-> None, tracking |-> <<>>,
   completed |-> [i \in Milestones |-> FALSE], passports |-> 0]

Init ==
  /\ EscrowInit
  /\ TrackingInit
  /\ order = [o \in Orders |-> NewOrder("absent")]
  /\ minted = [o \in Orders |-> 0]
  /\ call = [c \in Callers |-> Idle]

Free(c) == call[c].pc = "idle"
MicrotasksDrained == \A c \in Callers : call[c].pc \notin MicroPCs

Return(c) == call' = [call EXCEPT ![c] = Idle]
SetStatus(o, status) == order' = [order EXCEPT ![o].status = status]

-----------------------------------------------------------------------------
\* Synchronous handlers: createOrder, submitOrder, approveOrder, cancelOrder.

Advance(o, from, to) ==
  /\ order[o].status \in from
  /\ SetStatus(o, to)
  /\ UNCHANGED <<escrowVars, trackingVars, minted, call>>

CreateOrder(o)  == Advance(o, {"absent"}, "draft")
SubmitOrder(o)  == Advance(o, {"draft"}, "pending_approval")
ApproveOrder(o) == Advance(o, {"pending_approval"}, "approved")
CancelOrder(o)  == Advance(o, {"draft", "pending_approval"}, "cancelled")

-----------------------------------------------------------------------------
\* The loop "for (const trackingId of order.trackingIds)" of five handlers.
\* Segment runs from position n to the next await: it records one checkpoint,
\* or throws and ends the call, or leaves the loop.  Leaving it ends the call
\* except in confirmDelivery, which goes on to mint.

Segment(c, o, op, n) ==
  LET stages == Checkpoints[op]
      ids    == order[o].tracking
      k      == (n \div Len(stages)) + 1
      stage  == stages[(n % Len(stages)) + 1]
  IN \/ /\ k > Len(ids)
        /\ call' = [call EXCEPT ![c] =
                      IF op = "deliver" THEN [Idle EXCEPT !.pc = "minting", !.o = o]
                                        ELSE Idle]
        /\ UNCHANGED trackingVars
     \/ /\ k <= Len(ids)
        /\ CanRecord(ids[k], stage)
        /\ RecordCheckpoint(ids[k], stage)
        /\ call' = [call EXCEPT ![c] =
                      [Idle EXCEPT !.pc = "recorded", !.o = o, !.op = op, !.n = n + 1]]
     \/ /\ k <= Len(ids)
        /\ ~CanRecord(ids[k], stage)
        /\ Return(c)
        /\ UNCHANGED trackingVars

ResumeLoop(c) ==
  /\ call[c].pc = "recorded"
  /\ Segment(c, call[c].o, call[c].op, call[c].n)
  /\ UNCHANGED <<escrowVars, order, minted>>

\* A handler that tests the status, moves it, and enters its loop.
StatusThenLoop(c, o, from, to, op) ==
  /\ Free(c)
  /\ order[o].status \in from
  /\ SetStatus(o, to)
  /\ Segment(c, o, op, 0)
  /\ UNCHANGED <<escrowVars, minted>>

StartProduction(c, o) == StatusThenLoop(c, o, {"funded"}, "in_production", "start")
ReportProgress(c, o) ==
  StatusThenLoop(c, o, {"in_production"}, "in_production", "progress")
ReportShipping(c, o) ==
  StatusThenLoop(c, o, {"production_complete"}, "shipping", "ship")

\* A fault: a second confirmation is let through.
ConfirmDeliveryAgain(c, o) ==
  StatusThenLoop(c, o, {"shipping", "production_complete", "delivered"},
                 "delivered", "deliver")

ConfirmDelivery(c, o) ==
  StatusThenLoop(c, o, {"shipping", "production_complete"}, "delivered", "deliver")

-----------------------------------------------------------------------------
\* fundOrder: two awaits and, between them, writes that test nothing again.

FundOrder(c, o) ==
  /\ Free(c)
  /\ order[o].status = "approved"
  /\ call' = [call EXCEPT ![c] = [Idle EXCEPT !.pc = "creating", !.o = o]]
  /\ UNCHANGED <<escrowVars, trackingVars, order, minted>>

\* Identifiers are opaque: any unused one stands for the one that is drawn.
FreshEscrow  == CHOOSE e \in Escrows : ~Exists(e)
FreshProduct == CHOOSE p \in Products : ~record[p].known

EscrowCreated(c, e) ==
  /\ call[c].pc = "creating"
  /\ MicrotasksDrained
  /\ e = FreshEscrow
  /\ CreateEscrow(e, call[c].o)
  /\ call' = [call EXCEPT ![c].pc = "created", ![c].e = e]
  /\ UNCHANGED <<trackingVars, order, minted>>

\* The identifier hashes the order and the millisecond: it is fresh, or the one
\* a concurrent fundOrder of the same order drew in the same millisecond.
DrawnFor(o) ==
  {p \in Products : \/ \E k \in 1..Len(order[o].tracking) : order[o].tracking[k] = p
                    \/ \E c \in Callers : call[c].o = o /\ call[c].p = p}

FundTracked(c, p) ==
  LET o == call[c].o IN
  /\ call[c].pc = "created"
  /\ (~record[p].known /\ p = FreshProduct) \/ p \in DrawnFor(o)
  /\ order' = [order EXCEPT ![o].escrowId = call[c].e, ![o].status = "funded"]
  /\ InitializeTracking(p)
  /\ call' = [call EXCEPT ![c].pc = "tracked", ![c].p = p]
  /\ UNCHANGED <<escrowVars, minted>>

FundReturns(c) ==
  /\ call[c].pc = "tracked"
  /\ order' = [order EXCEPT ![call[c].o].tracking = Append(@, call[c].p)]
  /\ Return(c)
  /\ UNCHANGED <<escrowVars, trackingVars, minted>>

-----------------------------------------------------------------------------
\* completeMilestone.  Settled is its tail, after the release if there is one:
\* it moves the status whatever it has become since the call was made.  The
\* argument ord is the order's record as the segment has left it so far.

Settled(c, o, i, ord) ==
  LET status == CASE i = 0 -> ord.status
                  [] i = 1 -> "production_complete"
                  [] i = 2 -> "complete"
  IN /\ order' = [order EXCEPT ![o] = [ord EXCEPT !.status = status]]
     /\ IF i = 1 THEN Segment(c, o, "inspect", 0)
                 ELSE Return(c) /\ UNCHANGED trackingVars

\* A fault: the milestone is not marked, so a second call may pass its test.
Unmarked(ord, i) == ord

Mark(ord, i) == [ord EXCEPT !.completed[i] = TRUE]

\* A fault: a release that throws is caught and the call goes on.
CompleteRegardless(c, o, i, ord) ==
  LET e == ord.escrowId IN
  IF e # None /\ CanRelease(e, i)
  THEN /\ order' = [order EXCEPT ![o] = Mark(ord, i)]
       /\ call' = [call EXCEPT ![c] = [Idle EXCEPT !.pc = "releasing", !.o = o, !.e = e, !.n = i]]
       /\ UNCHANGED trackingVars
  ELSE Settled(c, o, i, Mark(ord, i))

\* The part before the await: mark the milestone, then release its payment; an
\* order without escrow has none, and a release that throws leaves the mark.
Complete(c, o, i, ord) ==
  LET e == ord.escrowId IN
  \/ /\ e = None
     /\ Settled(c, o, i, Mark(ord, i))
  \/ /\ e # None
     /\ order' = [order EXCEPT ![o] = Mark(ord, i)]
     /\ call' = [call EXCEPT ![c] =
                   IF CanRelease(e, i)
                   THEN [Idle EXCEPT !.pc = "releasing", !.o = o, !.e = e, !.n = i]
                   ELSE Idle]
     /\ UNCHANGED trackingVars

CompleteMilestone(c, o, i) ==
  /\ Free(c)
  /\ order[o].status # "absent"
  /\ ~order[o].completed[i]
  /\ Complete(c, o, i, order[o])
  /\ UNCHANGED <<escrowVars, minted>>

ReleaseSent(c) ==
  /\ call[c].pc = "releasing"
  /\ MicrotasksDrained
  /\ ReleaseMilestone(call[c].e, call[c].n)
  /\ call' = [call EXCEPT ![c].pc = "released"]
  /\ UNCHANGED <<trackingVars, order, minted>>

MilestoneReleased(c) ==
  /\ call[c].pc = "released"
  /\ Settled(c, call[c].o, call[c].n, order[call[c].o])
  /\ UNCHANGED <<escrowVars, minted>>

-----------------------------------------------------------------------------
\* The end of confirmDelivery: one mint after the other, then milestone 2.

PassportMinted(c) ==
  /\ call[c].pc = "minting"
  /\ MicrotasksDrained
  /\ minted' = [minted EXCEPT ![call[c].o] = @ + 1]
  /\ call' = [call EXCEPT ![c].pc = "minted", ![c].n = @ + 1]
  /\ UNCHANGED <<escrowVars, trackingVars, order>>

MintNext(c) ==
  /\ call[c].pc = "minted"
  /\ call[c].n < Quantity
  /\ call' = [call EXCEPT ![c].pc = "minting"]
  /\ UNCHANGED <<escrowVars, trackingVars, order, minted>>

\* passportTokenIds is assigned, then completeMilestone(orderId, 2) is entered;
\* it throws if that milestone was already completed.
Delivered(c) ==
  LET o   == call[c].o
      ord == [order[o] EXCEPT !.passports = Quantity]
  IN /\ call[c].pc = "minted"
     /\ call[c].n = Quantity
     /\ \/ /\ order[o].completed[2]
           /\ order' = [order EXCEPT ![o] = ord]
           /\ Return(c)
           /\ UNCHANGED trackingVars
        \/ /\ ~order[o].completed[2]
           /\ Complete(c, o, 2, ord)
     /\ UNCHANGED <<escrowVars, minted>>

-----------------------------------------------------------------------------
\* Disputes.  The order is marked before the escrow is asked, and keeps the
\* mark when the escrow refuses.

RaiseDispute(o) ==
  LET e == order[o].escrowId IN
  /\ order[o].status \notin {"absent", "complete", "cancelled"}
  /\ SetStatus(o, "disputed")
  /\ IF e # None /\ CanDispute(e) THEN RaiseEscrowDispute(e) ELSE UNCHANGED escrowVars
  /\ UNCHANGED <<trackingVars, minted, call>>

OrderResolved(o, percent) ==
  SetStatus(o, CASE percent = 100 -> "refunded"
                 [] percent = 0   -> "complete"
                 [] OTHER         -> order[o].status)

ResolveDispute(c, o, percent) ==
  LET e == order[o].escrowId IN
  /\ Free(c)
  /\ order[o].status = "disputed"
  /\ \/ /\ e = None
        /\ OrderResolved(o, percent)
        /\ UNCHANGED <<escrowVars, call>>
     \/ /\ e # None
        /\ CanResolve(e, percent)
        /\ ResolveEscrowDispute(e, percent)
        /\ call' = [call EXCEPT ![c] =
                      [Idle EXCEPT !.pc = "resolved", !.o = o, !.n = percent]]
        /\ UNCHANGED order
  /\ UNCHANGED <<trackingVars, minted>>

DisputeResolved(c) ==
  /\ call[c].pc = "resolved"
  /\ OrderResolved(call[c].o, call[c].n)
  /\ Return(c)
  /\ UNCHANGED <<escrowVars, trackingVars, minted>>

-----------------------------------------------------------------------------
\* Entry points of the two services used beside the order service.

Refund(e) ==
  /\ RefundBuyer(e)
  /\ UNCHANGED <<trackingVars, order, minted, call>>

FieldCheckpoint(p, stage) ==
  /\ CanRecord(p, stage)
  /\ RecordCheckpoint(p, stage)
  /\ UNCHANGED <<escrowVars, order, minted, call>>

Register(v) ==
  /\ RegisterActor(v)
  /\ UNCHANGED <<escrowVars, order, minted, call>>

-----------------------------------------------------------------------------
Invoke(c, o) ==
  \/ StartProduction(c, o)
  \/ ReportProgress(c, o)
  \/ ReportShipping(c, o)
  \/ ConfirmDelivery(c, o)
  \/ FundOrder(c, o)
  \/ \E i \in Milestones : CompleteMilestone(c, o, i)
  \/ \E percent \in Percents : ResolveDispute(c, o, percent)

Resume(c) ==
  \/ ResumeLoop(c)
  \/ \E e \in Escrows : EscrowCreated(c, e)
  \/ \E p \in Products : FundTracked(c, p)
  \/ FundReturns(c)
  \/ ReleaseSent(c)
  \/ MilestoneReleased(c)
  \/ PassportMinted(c)
  \/ MintNext(c)
  \/ Delivered(c)
  \/ DisputeResolved(c)

Next ==
  \/ \E o \in Orders : \/ CreateOrder(o)
                       \/ SubmitOrder(o)
                       \/ ApproveOrder(o)
                       \/ CancelOrder(o)
                       \/ RaiseDispute(o)
  \/ \E c \in Callers : Resume(c)
  \/ \E c \in Callers, o \in Orders : Invoke(c, o)
  \/ \E e \in Escrows : Refund(e)
  \/ \E p \in Products, stage \in FieldStages : FieldCheckpoint(p, stage)
  \/ \E v \in BOOLEAN : Register(v)

Spec == Init /\ [][Next]_vars

-----------------------------------------------------------------------------
TypeOK ==
  /\ EscrowTypeOK
  /\ TrackingTypeOK
  /\ order \in [Orders -> [status : OrderStatus,
                           escrowId : Escrows \cup {None},
                           tracking : Seq(Products),
                           completed : [Milestones -> BOOLEAN],
                           passports : {0, Quantity}]]
  /\ minted \in [Orders -> Nat]
  /\ call \in [Callers -> Frame]

\* Each milestone of an order is paid by at most one release transaction, over
\* all escrows the order ever had: the mark that completeMilestone sets before
\* its await shuts out a second call, including the one confirmDelivery makes.
Paid(o, i) == {e \in Escrows : escrow[e].order = o /\ paid[e][i] > 0}

PaidOnce ==
  /\ \A e \in Escrows, i \in Milestones : paid[e][i] <= 1
  /\ \A o \in Orders, i \in Milestones : \A e, f \in Paid(o, i) : e = f

\* The counter and the transactions agree: an escrow has paid exactly the first
\* milestonesCompleted milestones, one each, so getReleasedAmount is what left
\* it.  releaseMilestone tests the counter 100 ms before it moves it.
CounterMatchesPayments ==
  \A e \in Escrows :
    /\ escrow[e].milestonesCompleted <= 3
    /\ \A i \in Milestones :
         paid[e][i] = IF i < escrow[e].milestonesCompleted THEN 1 ELSE 0

\* An order never has more passports minted than items, however often it is
\* disputed, funded twice, or its delivery confirmed while a mint is awaited.
PassportsMatchItems == \A o \in Orders : minted[o] <= Quantity

\* An order with an escrow becomes complete only when an escrow of it has paid all
\* three milestones, or by an arbitrator's award to the manufacturer, although the
\* status is written after the release was awaited and meanwhile the order may
\* have been disputed, refunded or funded again.
CompletedIsPaid ==
  [][\A o \in Orders :
       order[o].status # "complete" /\ order'[o].status = "complete" /\ order[o].escrowId # None
       => \/ \E e \in Escrows : escrow[e].order = o /\ escrow[e].milestonesCompleted = 3
          \/ \E c \in Callers : call[c].pc = "resolved" /\ call[c].o = o /\ call[c].n = 0]_vars

\* Funds that went back to the buyer are not paid to the manufacturer as well:
\* no release is sent from a refunded escrow.
NoReleaseAfterRefund ==
  [][\A e \in Escrows : escrow[e].status = "refunded" => paid'[e] = paid[e]]_vars

\* "Complete milestone and release payment": the step that marks a milestone of
\* an order with an escrow sends its release.
MarkedIsReleased ==
  [][\A o \in Orders, i \in Milestones :
       ~order[o].completed[i] /\ order'[o].completed[i] /\ order[o].escrowId # None
       => \E c \in Callers : /\ call'[c].pc = "releasing"
                             /\ call'[c].o = o
                             /\ call'[c].n = i]_vars
=============================================================================
