-------------------------- MODULE ManufacturingProofs --------------------------
(***************************************************************************)
(* Payments and passports of Manufacturing, for every set of orders,       *)
(* escrows, products and invocations and every number of items.            *)
(***************************************************************************)
EXTENDS Manufacturing, TLAPS

\* What an invocation that is suspended holds.
FrameSound(f) ==
  /\ f.pc # "idle" => f.o \in Orders
  /\ f.pc = "recorded" => f.op \in DOMAIN Checkpoints
  /\ f.pc \in {"created", "tracked", "releasing", "released"} => f.e \in Escrows
  /\ f.pc = "tracked" => f.p \in Products
  /\ f.pc \in {"releasing", "released"} => f.n \in Milestones

CallsSound == \A c \in Callers : FrameSound(call[c])

Shape == TypeOK /\ CallsSound

\* An escrow that has not been created is empty; one that an order or a
\* suspended invocation names is an escrow of that order.
EscrowsOwned ==
  /\ \A e \in Escrows : ~Exists(e) => escrow[e].milestonesCompleted = 0
  /\ \A o \in Orders : order[o].escrowId # None =>
       Exists(order[o].escrowId) /\ escrow[order[o].escrowId].order = o
  /\ \A c \in Callers : call[c].pc \in {"created", "releasing"} =>
       Exists(call[c].e) /\ escrow[call[c].e].order = call[c].o

Completing(c, o, i) ==
  call[c].pc \in {"releasing", "released"} /\ call[c].o = o /\ call[c].n = i

\* A milestone is completed by one invocation at most, which has marked it.
CompletedByOne ==
  \A o \in Orders, i \in Milestones :
    /\ \A c \in Callers : Completing(c, o, i) => order[o].completed[i]
    /\ \A c, d \in Callers : Completing(c, o, i) /\ Completing(d, o, i) => c = d

PaidFor(e, o, i) == escrow[e].order = o /\ paid[e][i] > 0

\* A release that is awaited is of the escrow's next milestone, which nobody
\* has paid, and what is paid is marked.
ReleasesNext ==
  \A c \in Callers : call[c].pc = "releasing" =>
    /\ call[c].n = escrow[call[c].e].milestonesCompleted
    /\ \A e \in Escrows : ~PaidFor(e, call[c].o, call[c].n)
PaidIsMarked ==
  \A o \in Orders, i \in Milestones, e \in Escrows :
    PaidFor(e, o, i) => order[o].completed[i]

PaymentInv ==
  /\ EscrowsOwned
  /\ CompletedByOne
  /\ ReleasesNext
  /\ PaidIsMarked
  /\ CounterMatchesPayments
  /\ PaidOnce

\* An invocation of confirmDelivery that has not returned.
Delivering(c, o) ==
  /\ call[c].o = o
  /\ \/ call[c].pc = "recorded" /\ call[c].op = "deliver"
     \/ call[c].pc \in {"minting", "minted"}

Deliverable(o) == order[o].status \in {"production_complete", "shipping"}

\* Milestone 1 has not been completed, or its completion has not returned.
InProduction(o) ==
  ~order[o].completed[1] \/ \E c \in Callers : Completing(c, o, 1)

\* confirmDelivery runs once: production is completed once, and no delivery
\* begins before that.
DeliveredOnce ==
  \A o \in Orders :
    /\ InProduction(o) => ~Deliverable(o)
    /\ InProduction(o) \/ Deliverable(o) =>
         minted[o] = 0 /\ \A c \in Callers : ~Delivering(c, o)
    /\ \A c, d \in Callers : Delivering(c, o) /\ Delivering(d, o) => c = d

\* The invocation that mints counts what it has minted.
MintsCounted ==
  /\ \A c \in Callers, o \in Orders : Delivering(c, o) =>
       minted[o] = IF call[c].pc = "recorded" THEN 0 ELSE call[c].n
  /\ \A c \in Callers : call[c].pc = "minting" => call[c].n < Quantity

DeliveryInv ==
  /\ DeliveredOnce
  /\ MintsCounted
  /\ PassportsMatchItems

IInv == Shape /\ PaymentInv /\ DeliveryInv
-----------------------------------------------------------------------------
\* The loop over the checkpoints of an order.  Whatever it records, it ends in
\* one of three frames.
LEMMA CheckpointStages ==
  ASSUME NEW op \in DOMAIN Checkpoints, NEW n \in Nat
  PROVE  Checkpoints[op][(n % Len(Checkpoints[op])) + 1] \in Stages
<1>1. CASE op = "start"
  BY <1>1 DEF Checkpoints, Stages, ProductionStart
<1>2. CASE op = "progress"
  BY <1>2 DEF Checkpoints, Stages, ManufacturingProgress
<1>3. CASE op = "inspect"
  BY <1>3 DEF Checkpoints, Stages, QualityControl1
<1>4. CASE op = "ship"
  BY <1>4 DEF Checkpoints, Stages, Packaging, Shipping
<1>5. CASE op = "deliver"
  BY <1>5 DEF Checkpoints, Stages, DeliveryConfirmed, Completed
<1> QED
  BY <1>1, <1>2, <1>3, <1>4, <1>5 DEF Checkpoints

LEMMA CheckpointLengths ==
  ASSUME NEW op \in DOMAIN Checkpoints
  PROVE  Len(Checkpoints[op]) \in {1, 2}
  BY DEF Checkpoints

LEMMA RecordTyped ==
  ASSUME TrackingTypeOK, NEW p \in Products, NEW stage \in Stages, RecordCheckpoint(p, stage)
  PROVE  TrackingTypeOK'
<1>1. record' = [record EXCEPT ![p] = [record[p] EXCEPT !.stage = stage,
                    !.isComplete = record[p].isComplete \/ stage = Completed]]
  BY DEF RecordCheckpoint, TrackingTypeOK
<1> QED
  BY <1>1 DEF RecordCheckpoint, TrackingTypeOK

SegmentFrame(o, op, f) ==
  \/ f = Idle
  \/ op = "deliver" /\ f = [Idle EXCEPT !.pc = "minting", !.o = o]
  \/ \E m \in Nat : f = [Idle EXCEPT !.pc = "recorded", !.o = o, !.op = op, !.n = m]

LEMMA SegmentPC ==
  ASSUME NEW o, NEW op, NEW f, SegmentFrame(o, op, f)
  PROVE  /\ f.pc \in {"idle", "minting", "recorded"}
         /\ f.pc = "minting" => op = "deliver" /\ f.o = o /\ f.n = 0
         /\ f.pc = "recorded" => f.op = op /\ f.o = o
<1>1. CASE f = Idle
  BY <1>1 DEF Idle
<1>2. CASE op = "deliver" /\ f = [Idle EXCEPT !.pc = "minting", !.o = o]
  BY <1>2 DEF Idle
<1>3. ASSUME NEW m \in Nat, f = [Idle EXCEPT !.pc = "recorded", !.o = o, !.op = op, !.n = m]
      PROVE  f.pc = "recorded" /\ f.op = op /\ f.o = o
  BY <1>3 DEF Idle
<1> QED
  BY <1>1, <1>2, <1>3 DEF SegmentFrame

LEMMA SegmentFramed ==
  ASSUME Shape, NEW c \in Callers, NEW o \in Orders, NEW op \in DOMAIN Checkpoints,
         NEW n \in Nat, Segment(c, o, op, n)
  PROVE  /\ TrackingTypeOK'
         /\ \E f \in Frame : SegmentFrame(o, op, f) /\ call' = [call EXCEPT ![c] = f]
<1> DEFINE stages == Checkpoints[op]
           ids == order[o].tracking
           k == (n \div Len(stages)) + 1
           stage == stages[(n % Len(stages)) + 1]
<1>1. stage \in Stages /\ k \in Nat \ {0} /\ TrackingTypeOK /\ ids \in Seq(Products)
  <2>1. stage \in Stages
    BY CheckpointStages
  <2>2. k \in Nat \ {0}
    <3>1. Len(stages) \in {1, 2}
      BY CheckpointLengths
    <3>2. n \div 1 \in Nat /\ n \div 2 \in Nat
      OBVIOUS
    <3> HIDE DEF stages
    <3>3. k = (n \div 1) + 1 \/ k = (n \div 2) + 1
      BY <3>1
    <3> HIDE DEF k
    <3> QED
      BY <3>2, <3>3
  <2>3. TrackingTypeOK /\ ids \in Seq(Products)
    BY DEF Shape, TypeOK
  <2> QED
    BY <2>1, <2>2, <2>3
<1>2. Idle \in Frame /\ [Idle EXCEPT !.pc = "minting", !.o = o] \in Frame
      /\ \A m \in Nat : [Idle EXCEPT !.pc = "recorded", !.o = o, !.op = op, !.n = m] \in Frame
  BY DEF Idle, Frame, MicroPCs, TimerPCs
<1>3. ASSUME k > Len(ids),
             call' = [call EXCEPT ![c] =
                        IF op = "deliver" THEN [Idle EXCEPT !.pc = "minting", !.o = o] ELSE Idle],
             UNCHANGED trackingVars
      PROVE  /\ TrackingTypeOK'
             /\ \E f \in Frame : SegmentFrame(o, op, f) /\ call' = [call EXCEPT ![c] = f]
  <2>1. TrackingTypeOK'
    BY <1>1, <1>3 DEF trackingVars, TrackingTypeOK
  <2>2. CASE op = "deliver"
    BY <1>2, <1>3, <2>1, <2>2 DEF SegmentFrame
  <2>3. CASE op # "deliver"
    BY <1>2, <1>3, <2>1, <2>3 DEF SegmentFrame
  <2> QED
    BY <2>2, <2>3
<1>4. ASSUME k <= Len(ids), CanRecord(ids[k], stage), RecordCheckpoint(ids[k], stage),
             call' = [call EXCEPT ![c] =
                        [Idle EXCEPT !.pc = "recorded", !.o = o, !.op = op, !.n = n + 1]]
      PROVE  /\ TrackingTypeOK'
             /\ \E f \in Frame : SegmentFrame(o, op, f) /\ call' = [call EXCEPT ![c] = f]
  <2>1. ids[k] \in Products
    <3> HIDE DEF ids, k
    <3>1. Len(ids) \in Nat /\ k \in 1..Len(ids)
      BY <1>1, <1>4
    <3> QED
      BY <1>1, <3>1
  <2>2. TrackingTypeOK'
    <3> HIDE DEF ids, k, stage
    <3> QED
      BY <1>1, <1>4, <2>1, RecordTyped
  <2>3. n + 1 \in Nat
    OBVIOUS
  <2> QED
    BY <1>2, <1>4, <2>2, <2>3 DEF SegmentFrame
<1>5. ASSUME Return(c), UNCHANGED trackingVars
      PROVE  /\ TrackingTypeOK'
             /\ \E f \in Frame : SegmentFrame(o, op, f) /\ call' = [call EXCEPT ![c] = f]
  BY <1>1, <1>2, <1>5 DEF Return, trackingVars, TrackingTypeOK, SegmentFrame
<1> QED
  BY <1>3, <1>4, <1>5 DEF Segment

-----------------------------------------------------------------------------
\* Types.  The pieces of the state that a handler may write, one lemma each.
LEMMA IdleSound == Idle \in Frame /\ FrameSound(Idle)
  BY DEF Idle, Frame, FrameSound

LEMMA CallSet ==
  ASSUME Shape, NEW c \in Callers, NEW f \in Frame, FrameSound(f), call' = [call EXCEPT ![c] = f]
  PROVE  call' \in [Callers -> Frame] /\ CallsSound'
<1>1. call \in [Callers -> Frame] /\ CallsSound
  BY DEF Shape, TypeOK
<1>2. call' \in [Callers -> Frame]
  BY <1>1
<1>3. \A d \in Callers : FrameSound(call'[d])
  BY <1>1 DEF CallsSound
<1> QED
  BY <1>2, <1>3 DEF CallsSound, FrameSound

LEMMA CallKept ==
  ASSUME Shape, UNCHANGED call
  PROVE  call' \in [Callers -> Frame] /\ CallsSound'
  BY DEF Shape, TypeOK, CallsSound, FrameSound

LEMMA Returned ==
  ASSUME Shape, NEW c \in Callers, Return(c)
  PROVE  call' \in [Callers -> Frame] /\ CallsSound'
  BY IdleSound, CallSet DEF Return

LEMMA SegmentSound ==
  ASSUME NEW o \in Orders, NEW op \in DOMAIN Checkpoints, NEW f, SegmentFrame(o, op, f)
  PROVE  FrameSound(f)
<1>1. CASE f = Idle
  BY <1>1, IdleSound
<1>2. CASE f = [Idle EXCEPT !.pc = "minting", !.o = o]
  BY <1>2 DEF FrameSound, Idle
<1>3. ASSUME NEW m \in Nat, f = [Idle EXCEPT !.pc = "recorded", !.o = o, !.op = op, !.n = m]
      PROVE  FrameSound(f)
  BY <1>3 DEF FrameSound, Idle
<1> QED
  BY <1>1, <1>2, <1>3 DEF SegmentFrame

LEMMA SegmentTyped ==
  ASSUME Shape, NEW c \in Callers, NEW o \in Orders, NEW op \in DOMAIN Checkpoints,
         NEW n \in Nat, Segment(c, o, op, n)
  PROVE  call' \in [Callers -> Frame] /\ CallsSound' /\ TrackingTypeOK'
<1>1. PICK f \in Frame : SegmentFrame(o, op, f) /\ call' = [call EXCEPT ![c] = f]
  BY SegmentFramed
<1>2. FrameSound(f)
  BY <1>1, SegmentSound
<1> QED
  BY <1>1, <1>2, CallSet, SegmentFramed

OrderType == [status : OrderStatus, escrowId : Escrows \cup {None}, tracking : Seq(Products),
              completed : [Milestones -> BOOLEAN], passports : {0, Quantity}]
OrderTyped == order \in [Orders -> OrderType]

LEMMA OrdersTyped == Shape => OrderTyped
  BY DEF Shape, TypeOK, OrderTyped, OrderType

LEMMA ShapeParts ==
  EscrowTypeOK' /\ TrackingTypeOK' /\ OrderTyped' /\ minted' \in [Orders -> Nat]
    /\ call' \in [Callers -> Frame] /\ CallsSound' => Shape'
  BY DEF Shape, TypeOK, OrderTyped, OrderType

LEMMA StatusSet ==
  ASSUME Shape, NEW o \in Orders, NEW s \in OrderStatus, SetStatus(o, s)
  PROVE  OrderTyped'
  BY OrdersTyped DEF SetStatus, OrderTyped, OrderType

LEMMA EscrowKept == Shape /\ UNCHANGED escrowVars => EscrowTypeOK'
  BY DEF Shape, TypeOK, EscrowTypeOK, escrowVars
LEMMA RecordsKept == Shape /\ UNCHANGED trackingVars => TrackingTypeOK'
  BY DEF Shape, TypeOK, TrackingTypeOK, trackingVars
LEMMA OrderKept == Shape /\ UNCHANGED order => OrderTyped'
  BY OrdersTyped DEF OrderTyped
LEMMA MintedKept == Shape /\ UNCHANGED minted => minted' \in [Orders -> Nat]
  BY DEF Shape, TypeOK

LEMMA EscrowSet ==
  ASSUME Shape, NEW e \in Escrows, NEW s \in EscrowStatus, SetEscrowStatus(e, s)
  PROVE  EscrowTypeOK'
  BY DEF Shape, TypeOK, EscrowTypeOK, SetEscrowStatus

LEMMA AdvanceTyped ==
  ASSUME Shape, NEW o \in Orders, NEW from, NEW to \in OrderStatus, Advance(o, from, to)
  PROVE  Shape'
  BY StatusSet, EscrowKept, RecordsKept, MintedKept, CallKept, ShapeParts DEF Advance

LEMMA LoopTyped ==
  ASSUME Shape, NEW c \in Callers, NEW o \in Orders, NEW from, NEW to \in OrderStatus,
         NEW op \in DOMAIN Checkpoints, StatusThenLoop(c, o, from, to, op)
  PROVE  Shape'
<1>1. Segment(c, o, op, 0)
  BY DEF StatusThenLoop
<1>2. call' \in [Callers -> Frame] /\ CallsSound' /\ TrackingTypeOK'
  BY <1>1, SegmentTyped
<1> QED
  BY <1>2, StatusSet, EscrowKept, MintedKept, ShapeParts DEF StatusThenLoop

LEMMA SettledTyped ==
  ASSUME Shape, NEW c \in Callers, NEW o \in Orders, NEW i \in Milestones,
         NEW ord \in OrderType, Settled(c, o, i, ord)
  PROVE  OrderTyped' /\ TrackingTypeOK' /\ call' \in [Callers -> Frame] /\ CallsSound'
<1> DEFINE status == CASE i = 0 -> ord.status [] i = 1 -> "production_complete" [] i = 2 -> "complete"
<1>1. status \in OrderStatus
  <2>1. i \in {0, 1, 2}
    BY DEF Milestones
  <2> QED
    BY <2>1 DEF OrderType, OrderStatus
<1>2. order' = [order EXCEPT ![o] = [ord EXCEPT !.status = status]]
  BY DEF Settled
<1>3. OrderTyped'
  <2> HIDE DEF status
  <2> QED
    BY <1>1, <1>2, OrdersTyped DEF OrderTyped, OrderType
<1>4. CASE i = 1
  <2>1. Segment(c, o, "inspect", 0) /\ "inspect" \in DOMAIN Checkpoints
    BY <1>4 DEF Settled, Checkpoints
  <2> QED
    BY <1>3, <2>1, SegmentTyped
<1>5. CASE i # 1
  BY <1>3, <1>5, Returned, RecordsKept DEF Settled
<1> QED
  BY <1>4, <1>5

LEMMA MarkTyped ==
  ASSUME NEW ord \in OrderType, NEW i \in Milestones
  PROVE  Mark(ord, i) \in OrderType
  BY DEF Mark, OrderType

LEMMA CompleteTyped ==
  ASSUME Shape, NEW c \in Callers, NEW o \in Orders, NEW i \in Milestones,
         NEW ord \in OrderType, Complete(c, o, i, ord)
  PROVE  OrderTyped' /\ TrackingTypeOK' /\ call' \in [Callers -> Frame] /\ CallsSound'
<1> DEFINE e == ord.escrowId
           f == IF CanRelease(e, i) THEN [Idle EXCEPT !.pc = "releasing", !.o = o, !.e = e, !.n = i]
                ELSE Idle
<1>1. CASE e = None /\ Settled(c, o, i, Mark(ord, i))
  BY <1>1, MarkTyped, SettledTyped
<1>2. CASE /\ e # None
           /\ order' = [order EXCEPT ![o] = Mark(ord, i)]
           /\ call' = [call EXCEPT ![c] = f]
           /\ UNCHANGED trackingVars
  <2>1. OrderTyped'
    BY <1>2, MarkTyped, OrdersTyped DEF OrderTyped
  <2>2. e \in Escrows /\ i \in Nat
    BY <1>2 DEF OrderType, Milestones
  <2>3. f \in Frame /\ FrameSound(f)
    <3>1. [Idle EXCEPT !.pc = "releasing", !.o = o, !.e = e, !.n = i] \in Frame
      BY <2>2 DEF Idle, Frame, TimerPCs
    <3>2. FrameSound([Idle EXCEPT !.pc = "releasing", !.o = o, !.e = e, !.n = i])
      BY <2>2 DEF Idle, FrameSound
    <3> QED
      BY <3>1, <3>2, IdleSound
  <2> QED
    BY <1>2, <2>1, <2>3, CallSet, RecordsKept
<1> QED
  BY <1>1, <1>2 DEF Complete

LEMMA InvokeTyped ==
  ASSUME Shape, NEW c \in Callers, NEW o \in Orders, Invoke(c, o)
  PROVE  Shape'
<1> USE DEF OrderStatus
<1>1. CASE StartProduction(c, o)
  BY <1>1, LoopTyped DEF StartProduction, Checkpoints
<1>2. CASE ReportProgress(c, o)
  BY <1>2, LoopTyped DEF ReportProgress, Checkpoints
<1>3. CASE ReportShipping(c, o)
  BY <1>3, LoopTyped DEF ReportShipping, Checkpoints
<1>4. CASE ConfirmDelivery(c, o)
  BY <1>4, LoopTyped DEF ConfirmDelivery, Checkpoints
<1>5. CASE FundOrder(c, o)
  <2> DEFINE f == [Idle EXCEPT !.pc = "creating", !.o = o]
  <2>1. f \in Frame /\ FrameSound(f)
    BY DEF Idle, Frame, TimerPCs, FrameSound
  <2>2. call' \in [Callers -> Frame] /\ CallsSound'
    BY <1>5, <2>1, CallSet DEF FundOrder
  <2> QED
    BY <1>5, <2>2, EscrowKept, RecordsKept, OrderKept, MintedKept, ShapeParts DEF FundOrder
<1>6. ASSUME NEW i \in Milestones, CompleteMilestone(c, o, i)
      PROVE  Shape'
  <2>1. order[o] \in OrderType /\ Complete(c, o, i, order[o])
    BY <1>6, OrdersTyped DEF OrderTyped, CompleteMilestone
  <2> QED
    BY <1>6, <2>1, CompleteTyped, EscrowKept, MintedKept, ShapeParts DEF CompleteMilestone
<1>7. ASSUME NEW percent \in Percents, ResolveDispute(c, o, percent)
      PROVE  Shape'
  <2> DEFINE e == order[o].escrowId
             f == [Idle EXCEPT !.pc = "resolved", !.o = o, !.n = percent]
  <2>1. CASE e = None
    <3>1. OrderTyped'
      BY <1>7, <2>1, StatusSet, OrdersTyped DEF ResolveDispute, OrderResolved, OrderTyped, OrderType
    <3> QED
      BY <1>7, <2>1, <3>1, EscrowKept, RecordsKept, MintedKept, CallKept, ShapeParts
      DEF ResolveDispute
  <2>2. CASE e # None
    <3>1. e \in Escrows /\ escrow[e].status \in EscrowStatus
      BY <2>2, OrdersTyped DEF OrderTyped, OrderType, Shape, TypeOK, EscrowTypeOK
    <3>2. StatusResolved(percent, escrow[e].status) \in EscrowStatus
      BY <3>1 DEF StatusResolved, EscrowStatus
    <3>3. EscrowTypeOK'
      BY <1>7, <2>2, <3>1, <3>2, EscrowSet DEF ResolveDispute, ResolveEscrowDispute
    <3>4. f \in Frame /\ FrameSound(f)
      <4>1. percent \in Nat
        BY ManufacturingAssumption
      <4>2. f \in Frame
        BY <4>1 DEF Idle, Frame, MicroPCs
      <4>3. FrameSound(f)
        BY DEF Idle, FrameSound
      <4> QED
        BY <4>2, <4>3
    <3>5. call' \in [Callers -> Frame] /\ CallsSound'
      BY <1>7, <2>2, <3>4, CallSet DEF ResolveDispute
    <3> QED
      BY <1>7, <2>2, <3>3, <3>5, RecordsKept, OrderKept, MintedKept, ShapeParts
      DEF ResolveDispute
  <2> QED
    BY <2>1, <2>2
<1> QED
  BY <1>1, <1>2, <1>3, <1>4, <1>5, <1>6, <1>7 DEF Invoke

\* A suspended invocation is a frame of the kind its position says.
LEMMA FrameOf ==
  ASSUME Shape, NEW c \in Callers, call[c].pc # "idle"
  PROVE  /\ call[c] \in Frame /\ call[c].o \in Orders /\ order[call[c].o] \in OrderType
         /\ call[c].pc = "recorded" => call[c].op \in DOMAIN Checkpoints /\ call[c].n \in Nat
         /\ call[c].pc \in {"created", "tracked", "releasing", "released"} => call[c].e \in Escrows
         /\ call[c].pc = "tracked" => call[c].p \in Products
         /\ call[c].pc \in {"releasing", "released"} => call[c].n \in Milestones
<1>1. call[c] \in Frame /\ FrameSound(call[c])
  BY DEF Shape, TypeOK, CallsSound
<1>2. call[c].n \in Nat
  BY <1>1 DEF Frame
<1> QED
  BY <1>1, <1>2, OrdersTyped DEF FrameSound, OrderTyped

LEMMA ResumeTyped ==
  ASSUME Shape, ReleasesNext, NEW c \in Callers, Resume(c)
  PROVE  Shape'
<1> DEFINE o == call[c].o
<1>1. CASE ResumeLoop(c)
  <2>1. call[c].op \in DOMAIN Checkpoints /\ call[c].n \in Nat /\ o \in Orders
    BY <1>1, FrameOf DEF ResumeLoop
  <2>2. call' \in [Callers -> Frame] /\ CallsSound' /\ TrackingTypeOK'
    BY <1>1, <2>1, SegmentTyped DEF ResumeLoop
  <2> QED
    BY <1>1, <2>2, EscrowKept, OrderKept, MintedKept, ShapeParts DEF ResumeLoop
<1>2. ASSUME NEW e \in Escrows, EscrowCreated(c, e)
      PROVE  Shape'
  <2> DEFINE f == [call[c] EXCEPT !.pc = "created", !.e = e]
  <2>1. call[c] \in Frame /\ o \in Orders
    BY <1>2, FrameOf DEF EscrowCreated
  <2>2. f \in Frame /\ FrameSound(f)
    BY <2>1 DEF Frame, MicroPCs, FrameSound
  <2>3. call' = [call EXCEPT ![c] = f]
    BY <1>2 DEF EscrowCreated, Shape, TypeOK
  <2>4. EscrowTypeOK'
    BY <1>2, <2>1 DEF EscrowCreated, CreateEscrow, Shape, TypeOK, EscrowTypeOK, EscrowStatus
  <2> QED
    BY <1>2, <2>2, <2>3, <2>4, CallSet, RecordsKept, OrderKept, MintedKept, ShapeParts
    DEF EscrowCreated
<1>3. ASSUME NEW p \in Products, FundTracked(c, p)
      PROVE  Shape'
  <2> DEFINE f == [call[c] EXCEPT !.pc = "tracked", !.p = p]
  <2>1. call[c] \in Frame /\ o \in Orders /\ call[c].e \in Escrows
    BY <1>3, FrameOf DEF FundTracked
  <2>2. f \in Frame /\ FrameSound(f)
    BY <2>1 DEF Frame, MicroPCs, FrameSound
  <2>3. call' = [call EXCEPT ![c] = f]
    BY <1>3 DEF FundTracked, Shape, TypeOK
  <2>4. OrderTyped'
    <3> DEFINE ord == [order[o] EXCEPT !.escrowId = call[c].e, !.status = "funded"]
    <3>1. order[o] \in OrderType /\ order \in [Orders -> OrderType]
      BY <2>1, OrdersTyped DEF OrderTyped
    <3>2. ord \in OrderType
      BY <2>1, <3>1 DEF OrderType, OrderStatus
    <3>3. order' = [order EXCEPT ![o] = ord]
      BY <1>3, <3>1 DEF FundTracked
    <3> QED
      BY <3>1, <3>2, <3>3 DEF OrderTyped
  <2>5. TrackingTypeOK'
    BY <1>3 DEF FundTracked, InitializeTracking, Shape, TypeOK, TrackingTypeOK, Stages
  <2> QED
    BY <1>3, <2>2, <2>3, <2>4, <2>5, CallSet, EscrowKept, MintedKept, ShapeParts DEF FundTracked
<1>4. CASE FundReturns(c)
  <2>1. o \in Orders /\ call[c].p \in Products
    BY <1>4, FrameOf DEF FundReturns
  <2>2. Append(order[o].tracking, call[c].p) \in Seq(Products)
    BY <2>1, OrdersTyped DEF OrderTyped, OrderType
  <2>3. OrderTyped'
    BY <1>4, <2>1, <2>2, OrdersTyped DEF FundReturns, OrderTyped, OrderType
  <2> QED
    BY <1>4, <2>3, Returned, EscrowKept, RecordsKept, MintedKept, ShapeParts DEF FundReturns
<1>5. CASE ReleaseSent(c)
  <2> DEFINE f == [call[c] EXCEPT !.pc = "released"]
             e == call[c].e
  <2>1. /\ call[c] \in Frame /\ o \in Orders /\ e \in Escrows /\ call[c].n \in Milestones
    BY <1>5, FrameOf DEF ReleaseSent
  <2>2. f \in Frame /\ FrameSound(f)
    BY <2>1 DEF Frame, MicroPCs, FrameSound
  <2>3. call' = [call EXCEPT ![c] = f]
    BY <1>5 DEF ReleaseSent, Shape, TypeOK
  <2>4. EscrowTypeOK'
    <3>1. escrow[e] \in [status : EscrowStatus, milestonesCompleted : 0..3,
                         order : Orders \cup {None}]
      BY <2>1 DEF Shape, TypeOK, EscrowTypeOK
    <3>2. escrow[e].milestonesCompleted + 1 \in 0..3
      BY <1>5, <2>1, <3>1 DEF ReleasesNext, ReleaseSent, Milestones
    <3>3. StatusAfter(escrow[e].milestonesCompleted + 1, escrow[e].status) \in EscrowStatus
      BY <3>1 DEF StatusAfter, EscrowStatus
    <3>4. escrow' = [escrow EXCEPT ![e] =
                       [escrow[e] EXCEPT !.milestonesCompleted = escrow[e].milestonesCompleted + 1,
                          !.status = StatusAfter(escrow[e].milestonesCompleted + 1, escrow[e].status)]]
      BY <1>5, <2>1 DEF ReleaseSent, ReleaseMilestone, Shape, TypeOK, EscrowTypeOK
    <3>5. paid' \in [Escrows -> [Milestones -> Nat]]
      BY <1>5, <2>1 DEF ReleaseSent, ReleaseMilestone, Shape, TypeOK, EscrowTypeOK
    <3> QED
      BY <2>1, <3>1, <3>2, <3>3, <3>4, <3>5 DEF Shape, TypeOK, EscrowTypeOK
  <2> QED
    BY <1>5, <2>2, <2>3, <2>4, CallSet, RecordsKept, OrderKept, MintedKept, ShapeParts
    DEF ReleaseSent
<1>6. CASE MilestoneReleased(c)
  <2>1. o \in Orders /\ call[c].n \in Milestones /\ order[o] \in OrderType
    BY <1>6, FrameOf DEF MilestoneReleased
  <2> QED
    BY <1>6, <2>1, SettledTyped, EscrowKept, MintedKept, ShapeParts DEF MilestoneReleased
<1>7. CASE PassportMinted(c)
  <2> DEFINE f == [call[c] EXCEPT !.pc = "minted", !.n = call[c].n + 1]
  <2>1. call[c] \in Frame /\ o \in Orders
    BY <1>7, FrameOf DEF PassportMinted
  <2>2. f \in Frame /\ FrameSound(f)
    <3>1. call[c].n + 1 \in Nat
      BY <2>1 DEF Frame
    <3>2. f \in Frame
      BY <2>1, <3>1 DEF Frame, MicroPCs
    <3>3. FrameSound(f)
      BY <2>1 DEF Frame, FrameSound
    <3> QED
      BY <3>2, <3>3
  <2>3. call' = [call EXCEPT ![c] = f]
    BY <1>7 DEF PassportMinted, Shape, TypeOK
  <2>4. minted' \in [Orders -> Nat]
    BY <1>7, <2>1 DEF PassportMinted, Shape, TypeOK
  <2> QED
    BY <1>7, <2>2, <2>3, <2>4, CallSet, EscrowKept, RecordsKept, OrderKept, ShapeParts
    DEF PassportMinted
<1>8. CASE MintNext(c)
  <2> DEFINE f == [call[c] EXCEPT !.pc = "minting"]
  <2>1. call[c] \in Frame /\ o \in Orders
    BY <1>8, FrameOf DEF MintNext
  <2>2. f \in Frame /\ FrameSound(f)
    BY <2>1 DEF Frame, TimerPCs, FrameSound
  <2>3. call' = [call EXCEPT ![c] = f]
    BY <1>8 DEF MintNext, Shape, TypeOK
  <2> QED
    BY <1>8, <2>2, <2>3, CallSet, EscrowKept, RecordsKept, OrderKept, MintedKept, ShapeParts
    DEF MintNext
<1>9. CASE Delivered(c)
  <2> DEFINE ord == [order[o] EXCEPT !.passports = Quantity]
  <2>1. o \in Orders /\ ord \in OrderType
    BY <1>9, FrameOf DEF Delivered, OrderType
  <2>2. CASE order' = [order EXCEPT ![o] = ord] /\ Return(c) /\ UNCHANGED trackingVars
    <3>1. OrderTyped'
      BY <2>1, <2>2, OrdersTyped DEF OrderTyped
    <3> QED
      BY <1>9, <2>2, <3>1, Returned, EscrowKept, RecordsKept, MintedKept, ShapeParts DEF Delivered
  <2>3. CASE Complete(c, o, 2, ord)
    <3>1. 2 \in Milestones
      BY DEF Milestones
    <3> QED
      BY <1>9, <2>1, <2>3, <3>1, CompleteTyped, EscrowKept, MintedKept, ShapeParts DEF Delivered
  <2> QED
    BY <1>9, <2>2, <2>3 DEF Delivered
<1>10. CASE DisputeResolved(c)
  <2>1. o \in Orders
    BY <1>10, FrameOf DEF DisputeResolved
  <2>2. OrderTyped'
    BY <1>10, <2>1, StatusSet, OrdersTyped
    DEF DisputeResolved, OrderResolved, OrderTyped, OrderType, OrderStatus
  <2> QED
    BY <1>10, <2>2, Returned, EscrowKept, RecordsKept, MintedKept, ShapeParts DEF DisputeResolved
<1> QED
  BY <1>1, <1>2, <1>3, <1>4, <1>5, <1>6, <1>7, <1>8, <1>9, <1>10 DEF Resume

LEMMA ShapeStep == Shape /\ ReleasesNext /\ [Next]_vars => Shape'
<1> SUFFICES ASSUME Shape, ReleasesNext, [Next]_vars PROVE Shape'
  OBVIOUS
<1> USE DEF OrderStatus
<1>1. ASSUME NEW o \in Orders,
             CreateOrder(o) \/ SubmitOrder(o) \/ ApproveOrder(o) \/ CancelOrder(o)
      PROVE  Shape'
  BY <1>1, AdvanceTyped DEF CreateOrder, SubmitOrder, ApproveOrder, CancelOrder
<1>2. ASSUME NEW o \in Orders, RaiseDispute(o)
      PROVE  Shape'
  <2>1. OrderTyped'
    BY <1>2, StatusSet DEF RaiseDispute
  <2>2. EscrowTypeOK'
    <3>1. order[o].escrowId \in Escrows \cup {None}
      BY OrdersTyped DEF OrderTyped, OrderType
    <3> QED
      BY <1>2, <3>1, EscrowSet, EscrowKept DEF RaiseDispute, RaiseEscrowDispute, EscrowStatus
  <2> QED
    BY <1>2, <2>1, <2>2, RecordsKept, MintedKept, CallKept, ShapeParts DEF RaiseDispute
<1>3. ASSUME NEW e \in Escrows, Refund(e)
      PROVE  Shape'
  BY <1>3, EscrowSet, RecordsKept, OrderKept, MintedKept, CallKept, ShapeParts
  DEF Refund, RefundBuyer, EscrowStatus
<1>4. ASSUME NEW p \in Products, NEW stage \in FieldStages, FieldCheckpoint(p, stage)
      PROVE  Shape'
  <2>1. stage \in Stages /\ TrackingTypeOK
    BY ManufacturingAssumption DEF Shape, TypeOK
  <2>2. TrackingTypeOK'
    BY <1>4, <2>1, RecordTyped DEF FieldCheckpoint
  <2> QED
    BY <1>4, <2>2, EscrowKept, OrderKept, MintedKept, CallKept, ShapeParts DEF FieldCheckpoint
<1>5. ASSUME NEW v \in BOOLEAN, Register(v)
      PROVE  Shape'
  <2>1. TrackingTypeOK'
    BY <1>5 DEF Register, RegisterActor, Shape, TypeOK, TrackingTypeOK
  <2> QED
    BY <1>5, <2>1, EscrowKept, OrderKept, MintedKept, CallKept, ShapeParts DEF Register
<1>6. CASE UNCHANGED vars
  BY <1>6, EscrowKept, RecordsKept, OrderKept, MintedKept, CallKept, ShapeParts
  DEF vars, escrowVars, trackingVars
<1> QED
  BY <1>1, <1>2, <1>3, <1>4, <1>5, <1>6, InvokeTyped, ResumeTyped DEF Next

-----------------------------------------------------------------------------
\* What the tail of a completion does to its order and its own invocation.
Recording(f) == f = Idle \/ (f.pc = "recorded" /\ f.op = "inspect")

LEMMA IdleRecords == Recording(Idle)
  BY DEF Recording

LEMMA SettledEffect ==
  ASSUME Shape, NEW c \in Callers, NEW o \in Orders, NEW i \in Milestones,
         NEW ord \in OrderType, Settled(c, o, i, ord)
  PROVE  \E s \in OrderStatus, f \in Frame :
           /\ order' = [order EXCEPT ![o] = [ord EXCEPT !.status = s]]
           /\ call' = [call EXCEPT ![c] = f]
           /\ Recording(f)
           /\ s = ord.status \/ s = "complete" \/ i = 1
<1> DEFINE s == CASE i = 0 -> ord.status [] i = 1 -> "production_complete" [] i = 2 -> "complete"
<1>1. i \in {0, 1, 2}
  BY DEF Milestones
<1>2. s \in OrderStatus /\ (s = ord.status \/ s = "complete" \/ i = 1)
  BY <1>1 DEF OrderType, OrderStatus
<1>3. order' = [order EXCEPT ![o] = [ord EXCEPT !.status = s]]
  BY DEF Settled
<1>4. \E f \in Frame : Recording(f) /\ call' = [call EXCEPT ![c] = f]
  <2>1. CASE i = 1
    <3>1. Segment(c, o, "inspect", 0) /\ "inspect" \in DOMAIN Checkpoints
      BY <2>1 DEF Settled, Checkpoints
    <3>2. PICK f \in Frame : SegmentFrame(o, "inspect", f) /\ call' = [call EXCEPT ![c] = f]
      BY <3>1, SegmentFramed
    <3>3. Recording(f)
      <4>1. ASSUME NEW m \in Nat,
                   f = [Idle EXCEPT !.pc = "recorded", !.o = o, !.op = "inspect", !.n = m]
            PROVE  f.pc = "recorded" /\ f.op = "inspect"
        BY <4>1 DEF Idle
      <4> QED
        BY <3>2, <4>1 DEF SegmentFrame, Recording
    <3> QED
      BY <3>2, <3>3
  <2>2. CASE i # 1
    <3>1. call' = [call EXCEPT ![c] = Idle]
      BY <2>2 DEF Settled, Return
    <3> QED
      BY <3>1, IdleSound, IdleRecords
  <2> QED
    BY <2>1, <2>2
<1> HIDE DEF s
<1> QED
  BY <1>2, <1>3, <1>4

\* The invocation that awaits the release of milestone i.
Releasing(f, o, i, e) ==
  /\ f = [Idle EXCEPT !.pc = "releasing", !.o = o, !.e = e, !.n = i]
  /\ e \in Escrows /\ CanRelease(e, i)

LEMMA CompleteEffect ==
  ASSUME Shape, NEW c \in Callers, NEW o \in Orders, NEW i \in Milestones,
         NEW ord \in OrderType, Complete(c, o, i, ord)
  PROVE  \E s \in OrderStatus, f \in Frame :
           /\ order' = [order EXCEPT ![o] = [Mark(ord, i) EXCEPT !.status = s]]
           /\ call' = [call EXCEPT ![c] = f]
           /\ \/ Recording(f) /\ (s = ord.status \/ s = "complete" \/ i = 1)
              \/ Releasing(f, o, i, ord.escrowId) /\ s = ord.status
<1>1. Mark(ord, i) \in OrderType /\ Mark(ord, i).status = ord.status
  BY MarkTyped DEF Mark, OrderType
<1>2. CASE ord.escrowId = None /\ Settled(c, o, i, Mark(ord, i))
  <2>1. PICK s \in OrderStatus, f \in Frame :
           /\ order' = [order EXCEPT ![o] = [Mark(ord, i) EXCEPT !.status = s]]
           /\ call' = [call EXCEPT ![c] = f]
           /\ Recording(f)
           /\ s = Mark(ord, i).status \/ s = "complete" \/ i = 1
    BY <1>1, <1>2, SettledEffect
  <2> QED
    BY <1>1, <2>1
<1>3. CASE /\ ord.escrowId # None
           /\ order' = [order EXCEPT ![o] = Mark(ord, i)]
           /\ call' = [call EXCEPT ![c] =
                 IF CanRelease(ord.escrowId, i)
                 THEN [Idle EXCEPT !.pc = "releasing", !.o = o, !.e = ord.escrowId, !.n = i]
                 ELSE Idle]
  <2> DEFINE r == [Idle EXCEPT !.pc = "releasing", !.o = o, !.e = ord.escrowId, !.n = i]
  <2>1. ord.escrowId \in Escrows /\ ord.status \in OrderStatus
    BY <1>3 DEF OrderType
  <2>2. Mark(ord, i) = [Mark(ord, i) EXCEPT !.status = ord.status]
    BY <1>1 DEF OrderType
  <2>3. r \in Frame
    <3>1. i \in Nat
      BY DEF Milestones
    <3> QED
      BY <2>1, <3>1 DEF Idle, Frame, TimerPCs
  <2>4. CASE CanRelease(ord.escrowId, i)
    <3>1. Releasing(r, o, i, ord.escrowId) /\ call' = [call EXCEPT ![c] = r]
      BY <1>3, <2>1, <2>4 DEF Releasing
    <3> HIDE DEF r
    <3> QED
      BY <1>3, <2>1, <2>2, <2>3, <3>1
  <2>5. CASE ~CanRelease(ord.escrowId, i)
    <3>1. call' = [call EXCEPT ![c] = Idle]
      BY <1>3, <2>5
    <3> QED
      BY <1>3, <2>1, <2>2, <3>1, IdleSound, IdleRecords
  <2> QED
    BY <2>4, <2>5
<1> QED
  BY <1>2, <1>3 DEF Complete

-----------------------------------------------------------------------------
\* Payments.  Most steps change nothing that PaymentInv speaks of, unless they
\* end an invocation.
Awaiting == {"created", "releasing", "released"}

EscrowQuiet ==
  /\ UNCHANGED paid
  /\ \A e \in Escrows :
       /\ escrow'[e].order = escrow[e].order
       /\ escrow'[e].milestonesCompleted = escrow[e].milestonesCompleted
       /\ escrow'[e].status = "absent" <=> escrow[e].status = "absent"
OrderQuiet ==
  \A o \in Orders :
    /\ order'[o].escrowId = order[o].escrowId
    /\ order'[o].completed = order[o].completed
CallQuiet == \A c \in Callers : call'[c].pc \in Awaiting => call'[c] = call[c]

PaymentQuiet == EscrowQuiet /\ OrderQuiet /\ CallQuiet

LEMMA QuietPayment ==
  ASSUME Shape, PaymentInv, PaymentQuiet
  PROVE  PaymentInv'
<1> USE DEF PaymentInv
<1>1. \A o \in Orders, i \in Milestones, e \in Escrows : PaidFor(e, o, i)' <=> PaidFor(e, o, i)
  BY DEF PaymentQuiet, EscrowQuiet, OrderQuiet, CallQuiet, PaidFor
<1>2. \A c \in Callers, o \in Orders, i \in Milestones :
        Completing(c, o, i)' => Completing(c, o, i)
  BY DEF PaymentQuiet, EscrowQuiet, OrderQuiet, CallQuiet, Completing, Awaiting
<1>3. \A c \in Callers : call'[c].pc \in {"created", "releasing"} => call'[c] = call[c]
  BY DEF PaymentQuiet, EscrowQuiet, OrderQuiet, CallQuiet, Awaiting
<1>4. \A c \in Callers : call'[c].pc \in {"created", "releasing"} => call'[c].e \in Escrows
  <2>1. \A c \in Callers : call[c].pc \in {"created", "releasing"} => call[c].e \in Escrows
    BY FrameOf
  <2> QED
    BY <1>3, <2>1
<1>5. \A o \in Orders : order[o].escrowId \in Escrows \cup {None}
  BY OrdersTyped DEF OrderTyped, OrderType
<1>6. EscrowsOwned'
  BY <1>3, <1>4, <1>5 DEF PaymentQuiet, EscrowQuiet, OrderQuiet, CallQuiet, EscrowsOwned, Exists
<1>7. CompletedByOne'
  BY <1>2 DEF PaymentQuiet, EscrowQuiet, OrderQuiet, CallQuiet, CompletedByOne
<1>8. ReleasesNext'
  <2> SUFFICES ASSUME NEW c \in Callers, call'[c].pc = "releasing"
               PROVE  /\ call'[c].n = escrow'[call'[c].e].milestonesCompleted
                      /\ \A e \in Escrows : ~(/\ escrow'[e].order = call'[c].o
                                               /\ paid'[e][call'[c].n] > 0)
    BY DEF ReleasesNext, PaidFor
  <2>1. call'[c] = call[c] /\ call[c].pc = "releasing"
    BY <1>3
  <2>2. call[c].o \in Orders /\ call[c].n \in Milestones /\ call[c].e \in Escrows
    BY <2>1, FrameOf
  <2> QED
    BY <2>1, <2>2 DEF PaymentQuiet, EscrowQuiet, OrderQuiet, CallQuiet, ReleasesNext, PaidFor
<1>9. PaidIsMarked'
  BY <1>1 DEF PaymentQuiet, EscrowQuiet, OrderQuiet, CallQuiet, PaidIsMarked
<1>10. CounterMatchesPayments'
  BY DEF PaymentQuiet, EscrowQuiet, OrderQuiet, CallQuiet, CounterMatchesPayments
<1>11. PaidOnce'
  BY DEF PaymentQuiet, EscrowQuiet, OrderQuiet, CallQuiet, PaidOnce, Paid
<1> QED
  BY <1>6, <1>7, <1>8, <1>9, <1>10, <1>11

\* The step that marks a milestone.  Nobody has paid it, because what is paid
\* is marked, and nobody else is completing it, for the same reason.
LEMMA MarkPayment ==
  ASSUME Shape, Shape', PaymentInv, UNCHANGED escrowVars,
         NEW c \in Callers, NEW o \in Orders, NEW i \in Milestones, ~order[o].completed[i],
         NEW ord \in OrderType, ord.escrowId = order[o].escrowId,
         ord.completed = order[o].completed,
         NEW s \in OrderStatus, NEW f \in Frame,
         order' = [order EXCEPT ![o] = [Mark(ord, i) EXCEPT !.status = s]],
         call' = [call EXCEPT ![c] = f],
         Recording(f) \/ Releasing(f, o, i, ord.escrowId)
  PROVE  PaymentInv'
<1> USE DEF PaymentInv
<1>1. \A q \in Orders, j \in Milestones, e \in Escrows : PaidFor(e, q, j)' <=> PaidFor(e, q, j)
  BY DEF escrowVars, PaidFor
<1>2. \A d \in Callers : d # c => call'[d] = call[d]
  BY DEF Shape, TypeOK
<1>3. call'[c] = f
  BY DEF Shape, TypeOK
<1>4. \A q \in Orders : order'[q].escrowId = order[q].escrowId
  BY OrdersTyped DEF OrderTyped, OrderType, Mark
<1>5. \A q \in Orders, j \in Milestones :
        order'[q].completed[j] <=> (order[q].completed[j] \/ (q = o /\ j = i))
  <2>1. order'[o].completed = [ord.completed EXCEPT ![i] = TRUE]
    BY OrdersTyped DEF OrderTyped, OrderType, Mark
  <2>2. \A q \in Orders : q # o => order'[q] = order[q]
    BY OrdersTyped DEF OrderTyped
  <2>3. \A q \in Orders : order[q].completed \in [Milestones -> BOOLEAN]
    BY OrdersTyped DEF OrderTyped, OrderType
  <2> QED
    BY <2>1, <2>2, <2>3
<1>6. f.pc \in Awaiting => /\ f.pc = "releasing" /\ f.o = o /\ f.n = i
                           /\ f.e = order[o].escrowId /\ f.e \in Escrows /\ CanRelease(f.e, i)
  <2>1. CASE Recording(f)
    BY <2>1 DEF Recording, Awaiting, Idle
  <2>2. CASE Releasing(f, o, i, ord.escrowId)
    BY <2>2 DEF Releasing, Idle
  <2> QED
    BY <2>1, <2>2
<1>7. \A d \in Callers : ~Completing(d, o, i)
  BY DEF CompletedByOne
<1>8. EscrowsOwned'
  BY <1>2, <1>3, <1>4, <1>6, EscrowAssumption DEF EscrowsOwned, Exists, escrowVars, Awaiting
<1>9. CompletedByOne'
  <2>1. \A d \in Callers, q \in Orders, j \in Milestones :
          Completing(d, q, j)' => IF d = c THEN q = o /\ j = i ELSE Completing(d, q, j)
    BY <1>2, <1>3, <1>6 DEF Completing, Awaiting
  <2> QED
    BY <1>5, <1>7, <2>1 DEF CompletedByOne
<1>10. ReleasesNext'
  <2> SUFFICES ASSUME NEW d \in Callers, call'[d].pc = "releasing"
               PROVE  /\ call'[d].n = escrow'[call'[d].e].milestonesCompleted
                      /\ \A e \in Escrows : ~(/\ escrow'[e].order = call'[d].o
                                               /\ paid'[e][call'[d].n] > 0)
    BY DEF ReleasesNext, PaidFor
  <2>1. CASE d = c
    <3>1. \A e \in Escrows : ~PaidFor(e, o, i)
      BY DEF PaidIsMarked
    <3> QED
      BY <1>3, <1>6, <2>1, <3>1 DEF Awaiting, CanRelease, PaidFor, escrowVars
  <2>2. CASE d # c
    <3>1. call'[d] = call[d] /\ call[d].pc = "releasing"
      BY <1>2, <2>2
    <3>2. call[d].o \in Orders /\ call[d].n \in Milestones
      BY <3>1, FrameOf
    <3> QED
      BY <3>1, <3>2 DEF ReleasesNext, PaidFor, escrowVars
  <2> QED
    BY <2>1, <2>2
<1>11. PaidIsMarked'
  BY <1>1, <1>5 DEF PaidIsMarked
<1>12. CounterMatchesPayments' /\ PaidOnce'
  BY DEF CounterMatchesPayments, PaidOnce, Paid, escrowVars
<1> QED
  BY <1>8, <1>9, <1>10, <1>11, <1>12

\* A created escrow was empty, and no other invocation or order names it.
LEMMA CreatedPayment ==
  ASSUME Shape, PaymentInv, NEW c \in Callers, NEW e \in Escrows, EscrowCreated(c, e)
  PROVE  PaymentInv'
<1> USE DEF PaymentInv
<1> DEFINE o == call[c].o
<1>1. /\ ~Exists(e) /\ UNCHANGED <<paid, order>>
      /\ escrow' = [escrow EXCEPT ![e] =
                      [status |-> "funded", milestonesCompleted |-> 0, order |-> o]]
  BY DEF EscrowCreated, CreateEscrow
<1>2. o \in Orders
  BY FrameOf DEF EscrowCreated
<1>3. escrow' \in [Escrows -> [status : EscrowStatus, milestonesCompleted : 0..3,
                               order : Orders \cup {None}]]
  BY <1>1, <1>2 DEF Shape, TypeOK, EscrowTypeOK, EscrowStatus
<1>4. \A x \in Escrows : x # e => escrow'[x] = escrow[x]
  BY <1>1, <1>3 DEF Shape, TypeOK, EscrowTypeOK
<1>5. escrow'[e] = [status |-> "funded", milestonesCompleted |-> 0, order |-> o]
  BY <1>1, <1>3 DEF Shape, TypeOK, EscrowTypeOK
<1>6. /\ call'[c].pc = "created" /\ call'[c].e = e /\ call'[c].o = o
      /\ \A d \in Callers : d # c => call'[d] = call[d]
  BY DEF EscrowCreated, Shape, TypeOK, Frame
<1>7. escrow[e].milestonesCompleted = 0 /\ \A i \in Milestones : paid[e][i] = 0
  <2>1. escrow[e].milestonesCompleted = 0
    BY <1>1 DEF EscrowsOwned
  <2> QED
    BY <2>1 DEF CounterMatchesPayments, Milestones
<1>8. \A q \in Orders, i \in Milestones, x \in Escrows : PaidFor(x, q, i)' <=> PaidFor(x, q, i)
  BY <1>1, <1>4, <1>7 DEF PaidFor
<1>9. \A q \in Orders : order[q].escrowId # None => order[q].escrowId \in Escrows \ {e}
  BY <1>1, OrdersTyped DEF EscrowsOwned, OrderTyped, OrderType
<1>10. \A d \in Callers : d # c /\ call'[d].pc \in {"created", "releasing"} =>
         call'[d] = call[d] /\ call[d].e \in Escrows \ {e}
  BY <1>1, <1>6, FrameOf DEF EscrowsOwned
<1>11. EscrowsOwned'
  BY <1>1, <1>4, <1>5, <1>6, <1>9, <1>10 DEF EscrowsOwned, Exists
<1>12. CompletedByOne'
  <2>1. \A d \in Callers, q \in Orders, i \in Milestones :
          Completing(d, q, i)' => Completing(d, q, i)
    BY <1>6 DEF Completing
  <2> QED
    BY <1>1, <2>1 DEF CompletedByOne
<1>13. ReleasesNext'
  <2> SUFFICES ASSUME NEW d \in Callers, call'[d].pc = "releasing"
               PROVE  /\ call'[d].n = escrow'[call'[d].e].milestonesCompleted
                      /\ \A x \in Escrows : ~(/\ escrow'[x].order = call'[d].o
                                              /\ paid'[x][call'[d].n] > 0)
    BY DEF ReleasesNext, PaidFor
  <2>1. call'[d] = call[d] /\ call[d].e \in Escrows \ {e}
    BY <1>6, <1>10
  <2>2. call[d].o \in Orders /\ call[d].n \in Milestones
    BY <2>1, FrameOf
  <2> QED
    BY <1>4, <1>8, <2>1, <2>2 DEF ReleasesNext, PaidFor
<1>14. PaidIsMarked'
  BY <1>1, <1>8 DEF PaidIsMarked
<1>15. CounterMatchesPayments'
  BY <1>1, <1>4, <1>5, <1>7 DEF CounterMatchesPayments
<1>16. PaidOnce'
  BY <1>1, <1>8 DEF PaidOnce, Paid, PaidFor
<1> QED
  BY <1>11, <1>12, <1>13, <1>14, <1>15, <1>16

LEMMA TrackedPayment ==
  ASSUME Shape, PaymentInv, NEW c \in Callers, NEW p \in Products, FundTracked(c, p)
  PROVE  PaymentInv'
<1> USE DEF PaymentInv
<1> DEFINE o == call[c].o
<1>1. o \in Orders /\ call[c].e \in Escrows /\ call[c].pc = "created"
  BY FrameOf DEF FundTracked
<1>2. UNCHANGED <<escrow, paid>>
  BY DEF FundTracked, escrowVars
<1>3. /\ call'[c].pc = "tracked"
      /\ \A d \in Callers : d # c => call'[d] = call[d]
  BY DEF FundTracked, Shape, TypeOK, Frame
<1>4. \A q \in Orders :
        /\ order'[q].completed = order[q].completed
        /\ order'[q].escrowId = IF q = o THEN call[c].e ELSE order[q].escrowId
  BY OrdersTyped DEF FundTracked, OrderTyped, OrderType
<1>5. EscrowsOwned'
  BY <1>1, <1>2, <1>3, <1>4 DEF EscrowsOwned, Exists
<1>6. CompletedByOne'
  <2>1. \A d \in Callers, q \in Orders, i \in Milestones :
          Completing(d, q, i)' => Completing(d, q, i)
    BY <1>3 DEF Completing
  <2> QED
    BY <1>4, <2>1 DEF CompletedByOne
<1>7. ReleasesNext'
  BY <1>2, <1>3 DEF ReleasesNext, PaidFor
<1>8. PaidIsMarked' /\ CounterMatchesPayments' /\ PaidOnce'
  BY <1>2, <1>4 DEF PaidIsMarked, PaidFor, CounterMatchesPayments, PaidOnce, Paid
<1> QED
  BY <1>5, <1>6, <1>7, <1>8

\* The release that is sent is the only one awaited for its escrow: another
\* one would complete the same milestone of the same order.
LEMMA SentPayment ==
  ASSUME Shape, PaymentInv, NEW c \in Callers, ReleaseSent(c)
  PROVE  PaymentInv'
<1> USE DEF PaymentInv
<1> DEFINE o == call[c].o
           e == call[c].e
           i == call[c].n
<1>1. o \in Orders /\ e \in Escrows /\ i \in Milestones /\ call[c].pc = "releasing"
  BY FrameOf DEF ReleaseSent
<1>2. Exists(e) /\ escrow[e].order = o /\ i = escrow[e].milestonesCompleted
  BY <1>1 DEF EscrowsOwned, ReleasesNext
<1>3. /\ call'[c].pc = "released" /\ call'[c].o = o /\ call'[c].n = i
      /\ \A d \in Callers : d # c => call'[d] = call[d]
  BY DEF ReleaseSent, Shape, TypeOK, Frame
<1>4. UNCHANGED order
  BY DEF ReleaseSent
<1>5. escrow \in [Escrows -> [status : EscrowStatus, milestonesCompleted : 0..3,
                              order : Orders \cup {None}]]
      /\ paid \in [Escrows -> [Milestones -> Nat]]
  BY DEF Shape, TypeOK, EscrowTypeOK
<1>6. /\ \A x \in Escrows : x # e => escrow'[x] = escrow[x] /\ paid'[x] = paid[x]
      /\ escrow'[e].order = o /\ escrow'[e].milestonesCompleted = i + 1
      /\ escrow'[e].status # "absent"
  <2>1. StatusAfter(i + 1, escrow[e].status) # "absent"
    BY <1>2 DEF StatusAfter, Exists
  <2> QED
    BY <1>1, <1>2, <1>5, <2>1 DEF ReleaseSent, ReleaseMilestone
<1>7. \A j \in Milestones : paid'[e][j] = IF j = i THEN paid[e][j] + 1 ELSE paid[e][j]
  BY <1>1, <1>5 DEF ReleaseSent, ReleaseMilestone
<1>8. \A x \in Escrows, q \in Orders, j \in Milestones :
        PaidFor(x, q, j)' <=> PaidFor(x, q, j) \/ (x = e /\ q = o /\ j = i)
  BY <1>1, <1>2, <1>5, <1>6, <1>7 DEF PaidFor
<1>9. \A d \in Callers : Completing(d, o, i) => d = c
  BY <1>1 DEF CompletedByOne, Completing
<1>10. \A d \in Callers : d # c /\ call[d].pc = "releasing" => call[d].e # e
  <2> SUFFICES ASSUME NEW d \in Callers, d # c, call[d].pc = "releasing", call[d].e = e
               PROVE  FALSE
    OBVIOUS
  <2>1. call[d].o = o /\ call[d].n = i
    BY <1>1, <1>2 DEF EscrowsOwned, ReleasesNext
  <2> QED
    BY <1>9, <2>1 DEF Completing
<1>11. EscrowsOwned'
  <2>1. \A x \in Escrows : /\ escrow'[x].status = "absent" => x # e
                           /\ escrow'[x].status = "absent" <=> escrow[x].status = "absent"
                           /\ escrow'[x].order = escrow[x].order
    BY <1>2, <1>6 DEF Exists
  <2>2. \A x \in Escrows : ~Exists(x)' => escrow'[x].milestonesCompleted = 0
    BY <1>6, <2>1 DEF EscrowsOwned, Exists
  <2>3. \A q \in Orders : order[q].escrowId # None =>
          order[q].escrowId \in Escrows /\ escrow'[order[q].escrowId].status # "absent"
            /\ escrow'[order[q].escrowId].order = q
    BY <2>1, OrdersTyped DEF EscrowsOwned, Exists, OrderTyped, OrderType
  <2>4. \A d \in Callers : call'[d].pc \in {"created", "releasing"} =>
          escrow'[call'[d].e].status # "absent" /\ escrow'[call'[d].e].order = call'[d].o
    <3> SUFFICES ASSUME NEW d \in Callers, call'[d].pc \in {"created", "releasing"}
                 PROVE  escrow'[call'[d].e].status # "absent"
                        /\ escrow'[call'[d].e].order = call'[d].o
      OBVIOUS
    <3>1. call'[d] = call[d] /\ call[d].e \in Escrows
      BY <1>3, FrameOf
    <3> QED
      BY <2>1, <3>1 DEF EscrowsOwned, Exists
  <2> QED
    BY <1>4, <2>2, <2>3, <2>4 DEF EscrowsOwned, Exists
<1>12. CompletedByOne'
  <2>1. \A d \in Callers, q \in Orders, j \in Milestones :
          Completing(d, q, j)' => Completing(d, q, j)
    BY <1>1, <1>3 DEF Completing
  <2> QED
    BY <1>4, <2>1 DEF CompletedByOne
<1>13. ReleasesNext'
  <2> SUFFICES ASSUME NEW d \in Callers, call'[d].pc = "releasing"
               PROVE  /\ call'[d].n = escrow'[call'[d].e].milestonesCompleted
                      /\ \A x \in Escrows : ~(/\ escrow'[x].order = call'[d].o
                                              /\ paid'[x][call'[d].n] > 0)
    BY DEF ReleasesNext, PaidFor
  <2>1. d # c /\ call'[d] = call[d] /\ call[d].pc = "releasing"
    BY <1>3
  <2>2. call[d].e \in Escrows \ {e} /\ call[d].o \in Orders /\ call[d].n \in Milestones
    BY <1>10, <2>1, FrameOf
  <2>3. call[d].o # o \/ call[d].n # i
    BY <1>9, <2>1 DEF Completing
  <2>4. \A x \in Escrows : ~PaidFor(x, call[d].o, call[d].n)'
    BY <1>8, <2>1, <2>2, <2>3 DEF ReleasesNext
  <2> QED
    BY <1>6, <2>1, <2>2, <2>4 DEF ReleasesNext, PaidFor
<1>14. PaidIsMarked'
  <2>1. order[o].completed[i]
    BY <1>1 DEF CompletedByOne, Completing
  <2> QED
    BY <1>4, <1>8, <2>1 DEF PaidIsMarked
<1>15. CounterMatchesPayments'
  <2> SUFFICES ASSUME NEW x \in Escrows
               PROVE  /\ escrow'[x].milestonesCompleted <= 3
                      /\ \A j \in Milestones :
                           paid'[x][j] = IF j < escrow'[x].milestonesCompleted THEN 1 ELSE 0
    BY DEF CounterMatchesPayments
  <2>1. CASE x # e
    BY <1>6, <2>1 DEF CounterMatchesPayments
  <2>2. CASE x = e
    BY <1>1, <1>2, <1>6, <1>7, <2>2 DEF CounterMatchesPayments, Milestones
  <2> QED
    BY <2>1, <2>2
<1>16. PaidOnce'
  <2>1. \A x \in Escrows, j \in Milestones : paid'[x][j] <= 1
    BY <1>15 DEF CounterMatchesPayments
  <2>2. \A q \in Orders, j \in Milestones, x, y \in Escrows :
          PaidFor(x, q, j) /\ PaidFor(y, q, j) => x = y
    BY DEF PaidOnce, Paid, PaidFor
  <2>3. \A x \in Escrows : ~PaidFor(x, o, i)
    BY <1>1 DEF ReleasesNext
  <2>4. \A q \in Orders, j \in Milestones, x, y \in Escrows :
          PaidFor(x, q, j)' /\ PaidFor(y, q, j)' => x = y
    BY <1>8, <2>2, <2>3
  <2> QED
    BY <2>1, <2>4 DEF PaidOnce, Paid, PaidFor
<1> QED
  BY <1>11, <1>12, <1>13, <1>14, <1>15, <1>16

LEMMA QuietParts ==
  ASSUME Shape
  PROVE  /\ UNCHANGED escrowVars => EscrowQuiet
         /\ \A e \in Escrows, s \in EscrowStatus \ {"absent"} :
              Exists(e) /\ SetEscrowStatus(e, s) => EscrowQuiet
         /\ UNCHANGED order => OrderQuiet
         /\ \A o \in Orders, s \in OrderStatus : SetStatus(o, s) => OrderQuiet
         /\ UNCHANGED call => CallQuiet
         /\ \A c \in Callers : Return(c) => CallQuiet
<1> USE DEF Shape, TypeOK, EscrowTypeOK
<1>1. UNCHANGED escrowVars => EscrowQuiet
  BY DEF escrowVars, EscrowQuiet
<1>2. \A e \in Escrows, s \in EscrowStatus \ {"absent"} :
        Exists(e) /\ SetEscrowStatus(e, s) => EscrowQuiet
  BY DEF SetEscrowStatus, EscrowQuiet, Exists
<1>3. UNCHANGED order => OrderQuiet
  BY DEF OrderQuiet
<1>4. \A o \in Orders, s \in OrderStatus : SetStatus(o, s) => OrderQuiet
  BY DEF SetStatus, OrderQuiet
<1>5. UNCHANGED call => CallQuiet
  BY DEF CallQuiet
<1>6. \A c \in Callers : Return(c) => CallQuiet
  BY DEF Return, CallQuiet, Idle, Awaiting
<1> QED
  BY <1>1, <1>2, <1>3, <1>4, <1>5, <1>6

LEMMA FrameQuiet ==
  ASSUME Shape, NEW c \in Callers, NEW f, f.pc \notin Awaiting, call' = [call EXCEPT ![c] = f]
  PROVE  CallQuiet
  BY DEF Shape, TypeOK, CallQuiet

LEMMA SegmentQuiet ==
  ASSUME Shape, NEW c \in Callers, NEW o \in Orders, NEW op \in DOMAIN Checkpoints,
         NEW n \in Nat, Segment(c, o, op, n)
  PROVE  CallQuiet
<1>1. PICK f \in Frame : SegmentFrame(o, op, f) /\ call' = [call EXCEPT ![c] = f]
  BY SegmentFramed
<1>2. f.pc \in {"idle", "minting", "recorded"}
  BY <1>1, SegmentPC
<1> QED
  BY <1>1, <1>2, FrameQuiet DEF Awaiting

LEMMA LoopQuiet ==
  ASSUME Shape, NEW c \in Callers, NEW o \in Orders, NEW from, NEW to \in OrderStatus,
         NEW op \in DOMAIN Checkpoints, StatusThenLoop(c, o, from, to, op)
  PROVE  PaymentQuiet
<1>1. SetStatus(o, to) /\ Segment(c, o, op, 0) /\ UNCHANGED escrowVars
  BY DEF StatusThenLoop
<1> QED
  BY <1>1, QuietParts, SegmentQuiet DEF PaymentQuiet

LEMMA InvokePayment ==
  ASSUME Shape, Shape', PaymentInv, NEW c \in Callers, NEW o \in Orders, Invoke(c, o)
  PROVE  PaymentInv'
<1> USE DEF OrderStatus
<1>1. CASE StartProduction(c, o) \/ ReportProgress(c, o) \/ ReportShipping(c, o)
             \/ ConfirmDelivery(c, o)
  <2>1. PaymentQuiet
    BY <1>1, LoopQuiet
    DEF StartProduction, ReportProgress, ReportShipping, ConfirmDelivery, Checkpoints
  <2> QED
    BY <2>1, QuietPayment
<1>2. CASE FundOrder(c, o)
  <2>1. CallQuiet
    BY <1>2, FrameQuiet DEF FundOrder, Idle, Awaiting
  <2> QED
    BY <1>2, <2>1, QuietParts, QuietPayment DEF FundOrder, PaymentQuiet
<1>3. ASSUME NEW i \in Milestones, CompleteMilestone(c, o, i)
      PROVE  PaymentInv'
  <2>1. /\ order[o] \in OrderType /\ Complete(c, o, i, order[o])
        /\ UNCHANGED escrowVars /\ ~order[o].completed[i]
    BY <1>3, OrdersTyped DEF OrderTyped, CompleteMilestone
  <2>2. PICK s \in OrderStatus, f \in Frame :
          /\ order' = [order EXCEPT ![o] = [Mark(order[o], i) EXCEPT !.status = s]]
          /\ call' = [call EXCEPT ![c] = f]
          /\ Recording(f) \/ Releasing(f, o, i, order[o].escrowId)
    BY <2>1, CompleteEffect
  <2> QED
    BY <2>1, <2>2, MarkPayment
<1>4. ASSUME NEW percent \in Percents, ResolveDispute(c, o, percent)
      PROVE  PaymentInv'
  <2> DEFINE e == order[o].escrowId
  <2>1. CASE e = None
    <3>1. OrderQuiet
      BY <1>4, <2>1, QuietParts, OrdersTyped
      DEF ResolveDispute, OrderResolved, OrderTyped, OrderType
    <3> QED
      BY <1>4, <2>1, <3>1, QuietParts, QuietPayment DEF ResolveDispute, PaymentQuiet
  <2>2. CASE e # None
    <3>1. e \in Escrows /\ escrow[e].status = "disputed"
      BY <1>4, <2>2, OrdersTyped DEF OrderTyped, OrderType, ResolveDispute, CanResolve
    <3>2. StatusResolved(percent, escrow[e].status) \in EscrowStatus \ {"absent"}
      BY <3>1 DEF StatusResolved, EscrowStatus
    <3>3. EscrowQuiet
      BY <1>4, <2>2, <3>1, <3>2, QuietParts DEF ResolveDispute, ResolveEscrowDispute, Exists
    <3>4. CallQuiet
      BY <1>4, <2>2, FrameQuiet DEF ResolveDispute, Idle, Awaiting
    <3> QED
      BY <1>4, <2>2, <3>3, <3>4, QuietParts, QuietPayment DEF ResolveDispute, PaymentQuiet
  <2> QED
    BY <2>1, <2>2
<1> QED
  BY <1>1, <1>2, <1>3, <1>4 DEF Invoke

LEMMA ResumePayment ==
  ASSUME Shape, Shape', PaymentInv, NEW c \in Callers, Resume(c)
  PROVE  PaymentInv'
<1> DEFINE o == call[c].o
<1>1. CASE ResumeLoop(c)
  <2>1. call[c].op \in DOMAIN Checkpoints /\ call[c].n \in Nat /\ o \in Orders
    BY <1>1, FrameOf DEF ResumeLoop
  <2>2. CallQuiet
    BY <1>1, <2>1, SegmentQuiet DEF ResumeLoop
  <2> QED
    BY <1>1, <2>2, QuietParts, QuietPayment DEF ResumeLoop, PaymentQuiet
<1>2. CASE FundReturns(c)
  <2>1. OrderQuiet
    BY <1>2, OrdersTyped DEF FundReturns, OrderQuiet, OrderTyped, OrderType
  <2> QED
    BY <1>2, <2>1, QuietParts, QuietPayment DEF FundReturns, PaymentQuiet
<1>3. CASE MilestoneReleased(c)
  <2>1. o \in Orders /\ call[c].n \in Milestones /\ order[o] \in OrderType
    BY <1>3, FrameOf DEF MilestoneReleased
  <2>2. PICK s \in OrderStatus, f \in Frame :
          /\ order' = [order EXCEPT ![o] = [order[o] EXCEPT !.status = s]]
          /\ call' = [call EXCEPT ![c] = f]
          /\ Recording(f)
    BY <1>3, <2>1, SettledEffect DEF MilestoneReleased
  <2>3. OrderQuiet
    BY <2>1, <2>2, OrdersTyped DEF OrderQuiet, OrderTyped, OrderType
  <2>4. f.pc \notin Awaiting
    BY <2>2 DEF Recording, Idle, Awaiting
  <2> QED
    BY <1>3, <2>2, <2>3, <2>4, FrameQuiet, QuietParts, QuietPayment
    DEF MilestoneReleased, PaymentQuiet
<1>4. CASE PassportMinted(c) \/ MintNext(c)
  <2>1. CallQuiet
    BY <1>4 DEF PassportMinted, MintNext, CallQuiet, Awaiting, Shape, TypeOK, Frame
  <2> QED
    BY <1>4, <2>1, QuietParts, QuietPayment DEF PassportMinted, MintNext, PaymentQuiet
<1>5. CASE Delivered(c)
  <2> DEFINE ord == [order[o] EXCEPT !.passports = Quantity]
  <2>1. o \in Orders /\ ord \in OrderType /\ ord.escrowId = order[o].escrowId
        /\ ord.completed = order[o].completed /\ UNCHANGED escrowVars
    BY <1>5, FrameOf DEF Delivered, OrderType
  <2>2. CASE order' = [order EXCEPT ![o] = ord] /\ Return(c)
    <3>1. OrderQuiet
      BY <2>1, <2>2, OrdersTyped DEF OrderQuiet, OrderTyped
    <3> QED
      BY <2>1, <2>2, <3>1, QuietParts, QuietPayment DEF PaymentQuiet
  <2>3. CASE ~order[o].completed[2] /\ Complete(c, o, 2, ord)
    <3>1. 2 \in Milestones
      BY DEF Milestones
    <3>2. PICK s \in OrderStatus, f \in Frame :
            /\ order' = [order EXCEPT ![o] = [Mark(ord, 2) EXCEPT !.status = s]]
            /\ call' = [call EXCEPT ![c] = f]
            /\ Recording(f) \/ Releasing(f, o, 2, ord.escrowId)
      <4> HIDE DEF ord, o
      <4> QED
        BY <2>1, <2>3, <3>1, CompleteEffect
    <3> HIDE DEF ord, o
    <3> QED
      BY <2>1, <2>3, <3>1, <3>2, MarkPayment
  <2> QED
    BY <1>5, <2>2, <2>3 DEF Delivered
<1>6. CASE DisputeResolved(c)
  <2>1. o \in Orders
    BY <1>6, FrameOf DEF DisputeResolved
  <2>2. OrderQuiet
    BY <1>6, <2>1, QuietParts, OrdersTyped
    DEF DisputeResolved, OrderResolved, OrderTyped, OrderType, OrderStatus
  <2> QED
    BY <1>6, <2>2, QuietParts, QuietPayment DEF DisputeResolved, PaymentQuiet
<1> QED
  BY <1>1, <1>2, <1>3, <1>4, <1>5, <1>6, CreatedPayment, TrackedPayment, SentPayment DEF Resume

LEMMA PaymentStep == Shape /\ Shape' /\ PaymentInv /\ [Next]_vars => PaymentInv'
<1> SUFFICES ASSUME Shape, Shape', PaymentInv, [Next]_vars PROVE PaymentInv'
  OBVIOUS
<1>1. ASSUME NEW o \in Orders,
             CreateOrder(o) \/ SubmitOrder(o) \/ ApproveOrder(o) \/ CancelOrder(o)
      PROVE  PaymentInv'
  BY <1>1, QuietParts, QuietPayment
  DEF CreateOrder, SubmitOrder, ApproveOrder, CancelOrder, Advance, PaymentQuiet, OrderStatus
<1>2. ASSUME NEW o \in Orders, RaiseDispute(o)
      PROVE  PaymentInv'
  <2>1. order[o].escrowId \in Escrows \cup {None}
    BY OrdersTyped DEF OrderTyped, OrderType
  <2>2. EscrowQuiet
    BY <1>2, <2>1, QuietParts DEF RaiseDispute, RaiseEscrowDispute, CanDispute, EscrowStatus
  <2> QED
    BY <1>2, <2>2, QuietParts, QuietPayment DEF RaiseDispute, PaymentQuiet, OrderStatus
<1>3. ASSUME NEW e \in Escrows, Refund(e)
      PROVE  PaymentInv'
  BY <1>3, QuietParts, QuietPayment DEF Refund, RefundBuyer, EscrowStatus, PaymentQuiet
<1>4. CASE UNCHANGED <<escrow, paid, order, call>>
  BY <1>4, QuietParts, QuietPayment DEF escrowVars, PaymentQuiet
<1> QED
  BY <1>1, <1>2, <1>3, <1>4, InvokePayment, ResumePayment
  DEF Next, FieldCheckpoint, Register, vars, escrowVars

-----------------------------------------------------------------------------
\* Deliveries.  A step is quiet when it mints nothing, begins and advances no
\* delivery, and lets an order become deliverable only by ending its production.
DeliveryFrame(f) ==
  (f.pc = "recorded" /\ f.op = "deliver") \/ f.pc \in {"minting", "minted"}

CallerQuiet == \A c \in Callers : DeliveryFrame(call'[c]) => call'[c] = call[c]

ProductionQuiet ==
  \A o \in Orders :
    /\ InProduction(o)' => InProduction(o)
    /\ Deliverable(o)' => Deliverable(o) \/ (InProduction(o) /\ ~InProduction(o)')

DeliveryQuiet == UNCHANGED minted /\ CallerQuiet /\ ProductionQuiet

LEMMA QuietDelivery ==
  ASSUME Shape, DeliveryInv, DeliveryQuiet
  PROVE  DeliveryInv'
<1> USE DEF DeliveryInv, DeliveryQuiet
<1>1. \A c \in Callers, o \in Orders :
        Delivering(c, o)' => Delivering(c, o) /\ call'[c] = call[c]
  BY DEF CallerQuiet, DeliveryFrame, Delivering
<1>2. DeliveredOnce'
  <2> SUFFICES ASSUME NEW o \in Orders
               PROVE  /\ InProduction(o)' => ~Deliverable(o)'
                      /\ InProduction(o)' \/ Deliverable(o)' =>
                           minted'[o] = 0 /\ \A c \in Callers : ~Delivering(c, o)'
                      /\ \A c, d \in Callers : Delivering(c, o)' /\ Delivering(d, o)' => c = d
    BY DEF DeliveredOnce
  <2>1. InProduction(o)' => ~Deliverable(o)'
    BY DEF DeliveredOnce, ProductionQuiet
  <2>2. InProduction(o)' \/ Deliverable(o)' => InProduction(o) \/ Deliverable(o)
    BY DEF ProductionQuiet
  <2> QED
    BY <1>1, <2>1, <2>2 DEF DeliveredOnce
<1>3. MintsCounted'
  <2>1. \A c \in Callers, o \in Orders : Delivering(c, o)' =>
          minted'[o] = IF call'[c].pc = "recorded" THEN 0 ELSE call'[c].n
    BY <1>1 DEF MintsCounted
  <2>2. \A c \in Callers : call'[c].pc = "minting" => call'[c].n < Quantity
    BY DEF MintsCounted, CallerQuiet, DeliveryFrame
  <2> QED
    BY <2>1, <2>2 DEF MintsCounted
<1>4. PassportsMatchItems'
  BY DEF PassportsMatchItems
<1> QED
  BY <1>2, <1>3, <1>4

\* The invocation of confirmDelivery for order o goes on, and it is the only one.
LEMMA OnlyDelivery ==
  ASSUME Shape, Shape', DeliveryInv, NEW c \in Callers, NEW o \in Orders, NEW m \in Nat,
         \A d \in Callers : d # c => ~Delivering(d, o),
         ~DeliveryFrame(call[c]) \/ call[c].o = o,
         \A q \in Orders : InProduction(q)' => InProduction(q),
         \A q \in Orders : Deliverable(q)' => Deliverable(q) /\ q # o,
         ~InProduction(o), m <= Quantity,
         minted' = [minted EXCEPT ![o] = m],
         NEW f, call' = [call EXCEPT ![c] = f],
         DeliveryFrame(f) => f.o = o /\ m = (IF f.pc = "recorded" THEN 0 ELSE f.n),
         f.pc = "minting" => f.n < Quantity
  PROVE  DeliveryInv'
<1> USE DEF DeliveryInv
<1>1. call'[c] = f /\ \A d \in Callers : d # c => call'[d] = call[d]
  BY DEF Shape, TypeOK
<1>2. minted'[o] = m /\ \A q \in Orders : q # o => minted'[q] = minted[q]
  BY DEF Shape, TypeOK
<1>3. \A d \in Callers, q \in Orders :
        Delivering(d, q)' => IF d = c THEN q = o /\ DeliveryFrame(f)
                                      ELSE q # o /\ Delivering(d, q)
  <2> SUFFICES ASSUME NEW d \in Callers, NEW q \in Orders, Delivering(d, q)'
               PROVE  IF d = c THEN q = o /\ DeliveryFrame(f)
                                ELSE q # o /\ Delivering(d, q)
    OBVIOUS
  <2>1. CASE d = c
    BY <1>1, <2>1 DEF Delivering, DeliveryFrame
  <2>2. CASE d # c
    <3>1. Delivering(d, q)
      BY <1>1, <2>2 DEF Delivering
    <3> QED
      BY <2>2, <3>1
  <2> QED
    BY <2>1, <2>2
<1>4. DeliveredOnce'
  <2> SUFFICES ASSUME NEW q \in Orders
               PROVE  /\ InProduction(q)' => ~Deliverable(q)'
                      /\ InProduction(q)' \/ Deliverable(q)' =>
                           minted'[q] = 0 /\ \A d \in Callers : ~Delivering(d, q)'
                      /\ \A d, e \in Callers : Delivering(d, q)' /\ Delivering(e, q)' => d = e
    BY DEF DeliveredOnce
  <2>1. InProduction(q)' => ~Deliverable(q)'
    BY DEF DeliveredOnce
  <2>2. ASSUME InProduction(q)' \/ Deliverable(q)'
        PROVE  minted'[q] = 0 /\ \A d \in Callers : ~Delivering(d, q)'
    <3>1. q # o /\ (InProduction(q) \/ Deliverable(q))
      BY <2>2
    <3>2. minted[q] = 0 /\ \A d \in Callers : ~Delivering(d, q)
      BY <3>1 DEF DeliveredOnce
    <3> QED
      BY <1>2, <1>3, <3>1, <3>2
  <2>3. \A d, e \in Callers : Delivering(d, q)' /\ Delivering(e, q)' => d = e
    BY <1>3 DEF DeliveredOnce
  <2> QED
    BY <2>1, <2>2, <2>3
<1>5. MintsCounted'
  <2>1. ASSUME NEW d \in Callers, NEW q \in Orders, Delivering(d, q)'
        PROVE  minted'[q] = IF call'[d].pc = "recorded" THEN 0 ELSE call'[d].n
    <3>1. CASE d = c
      BY <1>1, <1>2, <1>3, <2>1, <3>1
    <3>2. CASE d # c
      BY <1>1, <1>2, <1>3, <2>1, <3>2 DEF MintsCounted
    <3> QED
      BY <3>1, <3>2
  <2>2. \A d \in Callers : call'[d].pc = "minting" => call'[d].n < Quantity
    BY <1>1 DEF MintsCounted
  <2> QED
    BY <2>1, <2>2 DEF MintsCounted
<1>6. PassportsMatchItems'
  BY <1>2 DEF PassportsMatchItems
<1> QED
  BY <1>4, <1>5, <1>6

CompletionQuiet ==
  \A c \in Callers, o \in Orders : Completing(c, o, 1)' => Completing(c, o, 1)

LEMMA ProductionGoesOn ==
  ASSUME OrderQuiet, CompletionQuiet
  PROVE  \A o \in Orders : InProduction(o)' => InProduction(o)
  BY DEF OrderQuiet, CompletionQuiet, InProduction

LEMMA CallQuietCompletes ==
  ASSUME CallQuiet
  PROVE  CompletionQuiet
  BY DEF CallQuiet, CompletionQuiet, Completing, Awaiting

\* An invocation that enters a frame outside the delivery disturbs none.
LEMMA CallerSet ==
  ASSUME Shape, NEW c \in Callers, NEW f, ~DeliveryFrame(f), call' = [call EXCEPT ![c] = f]
  PROVE  CallerQuiet
  BY DEF Shape, TypeOK, CallerQuiet

LEMMA CallerReturns ==
  ASSUME Shape, NEW c \in Callers, Return(c)
  PROVE  CallerQuiet /\ CompletionQuiet
<1>1. ~DeliveryFrame(Idle)
  BY DEF DeliveryFrame, Idle
<1> QED
  BY <1>1, CallerSet, QuietParts, CallQuietCompletes DEF Return

\* A status that is set where the order was not deliverable, or is none of the two.
LEMMA StatusDelivers ==
  ASSUME Shape, NEW o \in Orders, NEW s \in OrderStatus, SetStatus(o, s),
         s \in {"production_complete", "shipping"} => Deliverable(o)
  PROVE  \A q \in Orders : Deliverable(q)' => Deliverable(q)
<1>1. \A q \in Orders : order'[q].status = IF q = o THEN s ELSE order[q].status
  BY OrdersTyped DEF SetStatus, OrderTyped, OrderType
<1> QED
  BY <1>1 DEF Deliverable

LEMMA StatusQuiet ==
  ASSUME Shape, CompletionQuiet, NEW o \in Orders, NEW s \in OrderStatus, SetStatus(o, s),
         s \in {"production_complete", "shipping"} => Deliverable(o)
  PROVE  ProductionQuiet
  BY StatusDelivers, QuietParts, ProductionGoesOn DEF ProductionQuiet

LEMMA OrdersUnchanged ==
  ASSUME UNCHANGED order, CompletionQuiet
  PROVE  ProductionQuiet
  BY DEF CompletionQuiet, InProduction, Deliverable, ProductionQuiet

LEMMA LoopDelivery ==
  ASSUME Shape, DeliveryInv, NEW c \in Callers, NEW o \in Orders, NEW from, NEW to \in OrderStatus,
         NEW op \in DOMAIN Checkpoints \ {"deliver"}, StatusThenLoop(c, o, from, to, op),
         to \in {"production_complete", "shipping"} => Deliverable(o)
  PROVE  DeliveryInv'
<1>1. Segment(c, o, op, 0) /\ SetStatus(o, to) /\ UNCHANGED minted
  BY DEF StatusThenLoop
<1>2. PICK f \in Frame : SegmentFrame(o, op, f) /\ call' = [call EXCEPT ![c] = f]
  BY <1>1, SegmentFramed
<1>3. ~DeliveryFrame(f) /\ f.pc \notin Awaiting
  BY <1>2, SegmentPC DEF DeliveryFrame, Awaiting
<1>4. CallerQuiet /\ CompletionQuiet
  BY <1>2, <1>3, CallerSet, FrameQuiet, CallQuietCompletes
<1> QED
  BY <1>1, <1>4, StatusQuiet, QuietDelivery DEF DeliveryQuiet

\* The step that marks a milestone, which may be the end of the production.
LEMMA MarkDelivery ==
  ASSUME Shape, CompletedByOne, NEW c \in Callers, NEW o \in Orders, NEW i \in Milestones,
         ~order[o].completed[i],
         NEW ord \in OrderType, ord.completed = order[o].completed, ord.status = order[o].status,
         NEW s \in OrderStatus, NEW f \in Frame,
         order' = [order EXCEPT ![o] = [Mark(ord, i) EXCEPT !.status = s]],
         call' = [call EXCEPT ![c] = f],
         \/ Recording(f) /\ (s = ord.status \/ s = "complete" \/ i = 1)
         \/ Releasing(f, o, i, ord.escrowId) /\ s = ord.status
  PROVE  CallerQuiet /\ ProductionQuiet
<1>1. /\ call'[c] = f
      /\ \A d \in Callers : d # c => call'[d] = call[d]
  BY DEF Shape, TypeOK
<1>2. /\ order'[o].status = s
      /\ order'[o].completed = [order[o].completed EXCEPT ![i] = TRUE]
      /\ \A q \in Orders : q # o => order'[q] = order[q]
  BY OrdersTyped DEF OrderTyped, OrderType, Mark
<1>3. 1 \in Milestones /\ order[o].completed \in [Milestones -> BOOLEAN]
  BY OrdersTyped DEF Milestones, OrderTyped, OrderType
<1>4. ~DeliveryFrame(f) /\ (f.pc \in {"releasing", "released"} => f.o = o /\ f.n = i /\ s = ord.status)
  <2>1. CASE Recording(f) /\ (s = ord.status \/ s = "complete" \/ i = 1)
    BY <2>1 DEF Recording, DeliveryFrame, Idle
  <2>2. CASE Releasing(f, o, i, ord.escrowId) /\ s = ord.status
    BY <2>2 DEF Releasing, DeliveryFrame, Idle
  <2> QED
    BY <2>1, <2>2
<1>5. CallerQuiet
  BY <1>4, CallerSet
<1>6. \A d \in Callers, q \in Orders :
        Completing(d, q, 1)' => IF d = c THEN q = o /\ i = 1 /\ s = ord.status
                                         ELSE Completing(d, q, 1)
  BY <1>1, <1>4 DEF Completing
<1>7. i = 1 => \A d \in Callers : ~Completing(d, o, 1)
  BY DEF CompletedByOne
<1>8. \A q \in Orders : InProduction(q)' => InProduction(q)
  BY <1>2, <1>3, <1>6 DEF InProduction
<1>9. \A q \in Orders : Deliverable(q)' => Deliverable(q) \/ (InProduction(q) /\ ~InProduction(q)')
  <2> SUFFICES ASSUME NEW q \in Orders, Deliverable(q)', ~Deliverable(q)
               PROVE  InProduction(q) /\ ~InProduction(q)'
    OBVIOUS
  <2>1. q = o /\ s # ord.status /\ s # "complete"
    BY <1>2 DEF Deliverable
  <2>2. i = 1
    BY <2>1
  <2>3. \A d \in Callers : ~Completing(d, o, 1)'
    BY <1>6, <1>7, <2>1, <2>2
  <2> QED
    BY <1>2, <1>3, <2>1, <2>2, <2>3 DEF InProduction
<1> QED
  BY <1>5, <1>8, <1>9 DEF ProductionQuiet

\* confirmDelivery begins where production is over and nothing was delivered.
LEMMA ConfirmedDelivery ==
  ASSUME Shape, Shape', DeliveryInv, NEW c \in Callers, NEW o \in Orders, ConfirmDelivery(c, o)
  PROVE  DeliveryInv'
<1> USE DEF DeliveryInv
<1>1. /\ Deliverable(o) /\ SetStatus(o, "delivered") /\ Segment(c, o, "deliver", 0)
      /\ call[c].pc = "idle" /\ UNCHANGED minted
  BY DEF ConfirmDelivery, StatusThenLoop, Deliverable, Free
<1>2. "deliver" \in DOMAIN Checkpoints /\ "delivered" \in OrderStatus
  BY DEF Checkpoints, OrderStatus
<1>3. PICK f \in Frame : SegmentFrame(o, "deliver", f) /\ call' = [call EXCEPT ![c] = f]
  BY <1>1, <1>2, SegmentFramed
<1>4. /\ f.pc \in {"idle", "minting", "recorded"}
      /\ f.pc = "minting" => f.o = o /\ f.n = 0
      /\ f.pc = "recorded" => f.o = o
  BY <1>3, SegmentPC
<1>5. ~InProduction(o) /\ minted[o] = 0 /\ \A d \in Callers : ~Delivering(d, o)
  BY <1>1 DEF DeliveredOnce
<1>6. \A q \in Orders : order'[q].status = IF q = o THEN "delivered" ELSE order[q].status
  BY <1>1, OrdersTyped DEF SetStatus, OrderTyped, OrderType
<1>7. \A q \in Orders : Deliverable(q)' => Deliverable(q) /\ q # o
  BY <1>6 DEF Deliverable
<1>8. CompletionQuiet
  BY <1>3, <1>4, FrameQuiet, CallQuietCompletes DEF Awaiting
<1>9. \A q \in Orders : InProduction(q)' => InProduction(q)
  BY <1>1, <1>2, <1>8, QuietParts, ProductionGoesOn
<1>10. minted' = [minted EXCEPT ![o] = 0] /\ 0 < Quantity
  BY <1>1, <1>5, ManufacturingAssumption DEF Shape, TypeOK
<1>11. DeliveryFrame(f) => f.o = o /\ 0 = (IF f.pc = "recorded" THEN 0 ELSE f.n)
  BY <1>4 DEF DeliveryFrame
<1>12. ~DeliveryFrame(call[c])
  BY <1>1 DEF DeliveryFrame
<1>13. 0 \in Nat /\ 0 <= Quantity /\ (f.pc = "minting" => f.n < Quantity)
  BY <1>4, <1>10, ManufacturingAssumption
<1>14. \A d \in Callers : d # c => ~Delivering(d, o)
  BY <1>5
<1>15. call' = [call EXCEPT ![c] = f]
  BY <1>3
<1> HIDE DEF DeliveryInv
<1> QED
  BY <1>5, <1>7, <1>9, <1>10, <1>11, <1>12, <1>13, <1>14, <1>15, OnlyDelivery

LEMMA InvokeDelivery ==
  ASSUME Shape, Shape', CompletedByOne, DeliveryInv, NEW c \in Callers, NEW o \in Orders,
         Invoke(c, o)
  PROVE  DeliveryInv'
<1>1. CASE StartProduction(c, o)
  BY <1>1, LoopDelivery DEF StartProduction, Checkpoints, OrderStatus
<1>2. CASE ReportProgress(c, o)
  BY <1>2, LoopDelivery DEF ReportProgress, Checkpoints, OrderStatus
<1>3. CASE ReportShipping(c, o)
  <2>1. Deliverable(o)
    BY <1>3 DEF ReportShipping, StatusThenLoop, Deliverable
  <2> QED
    BY <1>3, <2>1, LoopDelivery DEF ReportShipping, Checkpoints, OrderStatus
<1>4. CASE FundOrder(c, o)
  <2>1. CallerQuiet /\ CompletionQuiet
    BY <1>4, CallerSet, FrameQuiet, CallQuietCompletes
    DEF FundOrder, Idle, DeliveryFrame, Awaiting
  <2> QED
    BY <1>4, <2>1, OrdersUnchanged, QuietDelivery DEF FundOrder, DeliveryQuiet
<1>5. ASSUME NEW i \in Milestones, CompleteMilestone(c, o, i)
      PROVE  DeliveryInv'
  <2>1. /\ order[o] \in OrderType /\ Complete(c, o, i, order[o])
        /\ ~order[o].completed[i] /\ UNCHANGED minted
    BY <1>5, OrdersTyped DEF OrderTyped, CompleteMilestone
  <2>2. PICK s \in OrderStatus, f \in Frame :
          /\ order' = [order EXCEPT ![o] = [Mark(order[o], i) EXCEPT !.status = s]]
          /\ call' = [call EXCEPT ![c] = f]
          /\ \/ Recording(f) /\ (s = order[o].status \/ s = "complete" \/ i = 1)
             \/ Releasing(f, o, i, order[o].escrowId) /\ s = order[o].status
    BY <2>1, CompleteEffect
  <2>3. CallerQuiet /\ ProductionQuiet
    BY <2>1, <2>2, MarkDelivery
  <2> QED
    BY <2>1, <2>3, QuietDelivery DEF DeliveryQuiet
<1>6. ASSUME NEW percent \in Percents, ResolveDispute(c, o, percent)
      PROVE  DeliveryInv'
  <2>1. CASE order[o].escrowId = None
    <3>1. CallerQuiet /\ CompletionQuiet /\ UNCHANGED minted
      BY <1>6, <2>1 DEF ResolveDispute, CallerQuiet, CompletionQuiet, Completing
    <3>2. ProductionQuiet
      <4>1. PICK s \in OrderStatus : SetStatus(o, s) /\ s \notin {"production_complete", "shipping"}
        BY <1>6, <2>1 DEF ResolveDispute, OrderResolved, OrderStatus
      <4> QED
        BY <3>1, <4>1, StatusQuiet
    <3> QED
      BY <3>1, <3>2, QuietDelivery DEF DeliveryQuiet
  <2>2. CASE order[o].escrowId # None
    <3>1. CallerQuiet /\ CompletionQuiet
      BY <1>6, <2>2, CallerSet, FrameQuiet, CallQuietCompletes
      DEF ResolveDispute, Idle, DeliveryFrame, Awaiting
    <3> QED
      BY <1>6, <2>2, <3>1, OrdersUnchanged, QuietDelivery DEF ResolveDispute, DeliveryQuiet
  <2> QED
    BY <2>1, <2>2
<1> QED
  BY <1>1, <1>2, <1>3, <1>4, <1>5, <1>6, ConfirmedDelivery DEF Invoke

\* The three steps of confirmDelivery after its first segment.
LEMMA DeliveryGoesOn ==
  ASSUME Shape, Shape', DeliveryInv, NEW c \in Callers, NEW o \in Orders, Delivering(c, o),
         UNCHANGED order, NEW f, call' = [call EXCEPT ![c] = f],
         f.pc \notin Awaiting, NEW m \in Nat, m <= Quantity, minted' = [minted EXCEPT ![o] = m],
         DeliveryFrame(f) => f.o = o /\ m = (IF f.pc = "recorded" THEN 0 ELSE f.n),
         f.pc = "minting" => f.n < Quantity
  PROVE  DeliveryInv'
<1>1. ~InProduction(o) /\ ~Deliverable(o) /\ \A d \in Callers : d # c => ~Delivering(d, o)
  BY DEF DeliveryInv, DeliveredOnce
<1>2. CompletionQuiet
  BY FrameQuiet, CallQuietCompletes
<1>3. \A q \in Orders : InProduction(q)' => InProduction(q)
  BY <1>2, QuietParts, ProductionGoesOn
<1>4. \A q \in Orders : Deliverable(q)' => Deliverable(q) /\ q # o
  BY <1>1 DEF Deliverable
<1>5. ~DeliveryFrame(call[c]) \/ call[c].o = o
  BY DEF Delivering
<1> QED
  BY <1>1, <1>3, <1>4, <1>5, OnlyDelivery

LEMMA LoopGoesOn ==
  ASSUME Shape, Shape', DeliveryInv, NEW c \in Callers, ResumeLoop(c)
  PROVE  DeliveryInv'
<1> DEFINE o == call[c].o
           op == call[c].op
<1>1. /\ op \in DOMAIN Checkpoints /\ call[c].n \in Nat /\ o \in Orders /\ call[c].pc = "recorded"
      /\ Segment(c, o, op, call[c].n) /\ UNCHANGED <<order, minted>>
  BY FrameOf DEF ResumeLoop
<1>2. PICK f \in Frame : SegmentFrame(o, op, f) /\ call' = [call EXCEPT ![c] = f]
  BY <1>1, SegmentFramed
<1>3. /\ f.pc \in {"idle", "minting", "recorded"}
      /\ f.pc = "minting" => op = "deliver" /\ f.o = o /\ f.n = 0
      /\ f.pc = "recorded" => f.op = op /\ f.o = o
  BY <1>2, SegmentPC
<1>4. CASE op = "deliver"
  <2>1. Delivering(c, o) /\ minted[o] = 0
    BY <1>1, <1>4 DEF Delivering, DeliveryInv, MintsCounted
  <2>2. minted' = [minted EXCEPT ![o] = 0] /\ 0 < Quantity /\ 0 \in Nat /\ 0 <= Quantity
    BY <1>1, <2>1, ManufacturingAssumption DEF Shape, TypeOK
  <2>3. DeliveryFrame(f) => f.o = o /\ 0 = (IF f.pc = "recorded" THEN 0 ELSE f.n)
    BY <1>3 DEF DeliveryFrame
  <2>4. f.pc \notin Awaiting /\ (f.pc = "minting" => f.n < Quantity)
    BY <1>3, <2>2 DEF Awaiting
  <2>5. call' = [call EXCEPT ![c] = f]
    BY <1>2
  <2> HIDE DEF o, op
  <2> QED
    BY <1>1, <2>1, <2>2, <2>3, <2>4, <2>5, DeliveryGoesOn
<1>5. CASE op # "deliver"
  <2>1. ~DeliveryFrame(f) /\ f.pc \notin Awaiting
    BY <1>3, <1>5 DEF DeliveryFrame, Awaiting
  <2>2. CallerQuiet /\ CompletionQuiet
    BY <1>2, <2>1, CallerSet, FrameQuiet, CallQuietCompletes
  <2> QED
    BY <1>1, <2>2, OrdersUnchanged, QuietDelivery DEF DeliveryQuiet
<1> QED
  BY <1>4, <1>5

\* The release of milestone 1 ends the production: no other invocation is
\* completing it.
LEMMA ReleasedDelivery ==
  ASSUME Shape, CompletedByOne, DeliveryInv, NEW c \in Callers, MilestoneReleased(c)
  PROVE  DeliveryInv'
<1> DEFINE o == call[c].o
           i == call[c].n
<1>1. o \in Orders /\ i \in Milestones /\ order[o] \in OrderType /\ call[c].pc = "released"
  BY FrameOf DEF MilestoneReleased
<1>2. PICK s \in OrderStatus, f \in Frame :
        /\ order' = [order EXCEPT ![o] = [order[o] EXCEPT !.status = s]]
        /\ call' = [call EXCEPT ![c] = f]
        /\ Recording(f)
        /\ s = order[o].status \/ s = "complete" \/ i = 1
  BY <1>1, SettledEffect DEF MilestoneReleased
<1>3. ~DeliveryFrame(f) /\ f.pc \notin Awaiting
  BY <1>2 DEF Recording, DeliveryFrame, Awaiting, Idle
<1>4. CallerQuiet /\ CompletionQuiet
  BY <1>2, <1>3, CallerSet, FrameQuiet, CallQuietCompletes
<1>5. OrderQuiet
  BY <1>1, <1>2, OrdersTyped DEF OrderQuiet, OrderTyped, OrderType
<1>6. \A q \in Orders : order'[q].status = IF q = o THEN s ELSE order[q].status
  BY <1>1, <1>2, OrdersTyped DEF OrderTyped, OrderType
<1>7. ASSUME NEW q \in Orders, Deliverable(q)', ~Deliverable(q)
      PROVE  InProduction(q) /\ ~InProduction(q)'
  <2>1. q = o /\ i = 1
    BY <1>2, <1>6, <1>7 DEF Deliverable
  <2>2. Completing(c, q, 1) /\ order[q].completed[1] /\ 1 \in Milestones
    BY <1>1, <2>1 DEF Completing, CompletedByOne
  <2>3. \A d \in Callers : Completing(d, q, 1)' => d = c
    BY <1>4, <2>2 DEF CompletionQuiet, CompletedByOne
  <2>4. call'[c] = f
    BY <1>2 DEF Shape, TypeOK
  <2>5. \A d \in Callers : ~Completing(d, q, 1)'
    BY <1>3, <2>3, <2>4 DEF Completing, Awaiting
  <2>6. InProduction(q) /\ ~InProduction(q)'
    BY <1>5, <2>2, <2>5 DEF OrderQuiet, InProduction
  <2> QED
    BY <2>6
<1>8. ProductionQuiet
  BY <1>4, <1>5, <1>7, ProductionGoesOn DEF ProductionQuiet
<1> QED
  BY <1>4, <1>8, QuietDelivery DEF MilestoneReleased, DeliveryQuiet

LEMMA ResumeDelivery ==
  ASSUME Shape, Shape', CompletedByOne, DeliveryInv, NEW c \in Callers, Resume(c)
  PROVE  DeliveryInv'
<1> DEFINE o == call[c].o
<1>1. ASSUME NEW e \in Escrows, EscrowCreated(c, e)
      PROVE  DeliveryInv'
  <2>1. CallerQuiet /\ CompletionQuiet
    BY <1>1 DEF EscrowCreated, CallerQuiet, CompletionQuiet, DeliveryFrame, Completing,
                Shape, TypeOK, Frame
  <2> QED
    BY <1>1, <2>1, OrdersUnchanged, QuietDelivery DEF EscrowCreated, DeliveryQuiet
<1>2. ASSUME NEW p \in Products, FundTracked(c, p)
      PROVE  DeliveryInv'
  <2>1. CallerQuiet /\ CompletionQuiet
    BY <1>2 DEF FundTracked, CallerQuiet, CompletionQuiet, DeliveryFrame, Completing,
                Shape, TypeOK, Frame
  <2>2. \A q \in Orders : /\ order'[q].completed = order[q].completed
                          /\ order'[q].status \in {order[q].status, "funded"}
    BY <1>2, OrdersTyped DEF FundTracked, OrderTyped, OrderType
  <2>3. ProductionQuiet
    BY <2>1, <2>2 DEF ProductionQuiet, InProduction, CompletionQuiet, Deliverable
  <2> QED
    BY <1>2, <2>1, <2>3, QuietDelivery DEF FundTracked, DeliveryQuiet
<1>3. CASE FundReturns(c)
  <2>1. \A q \in Orders : /\ order'[q].completed = order[q].completed
                          /\ order'[q].status = order[q].status
    BY <1>3, OrdersTyped DEF FundReturns, OrderTyped, OrderType
  <2>2. CallerQuiet /\ CompletionQuiet
    BY <1>3, CallerReturns DEF FundReturns
  <2>3. ProductionQuiet
    BY <2>1, <2>2 DEF ProductionQuiet, InProduction, CompletionQuiet, Deliverable
  <2> QED
    BY <1>3, <2>2, <2>3, QuietDelivery DEF FundReturns, DeliveryQuiet
<1>4. CASE ReleaseSent(c)
  <2>1. CallerQuiet /\ CompletionQuiet
    BY <1>4 DEF ReleaseSent, CallerQuiet, CompletionQuiet, DeliveryFrame, Completing,
                Shape, TypeOK, Frame
  <2> QED
    BY <1>4, <2>1, OrdersUnchanged, QuietDelivery DEF ReleaseSent, DeliveryQuiet
<1>5. CASE PassportMinted(c)
  <2> DEFINE n == call[c].n
             f == [call[c] EXCEPT !.pc = "minted", !.n = n + 1]
  <2>1. o \in Orders /\ call[c] \in Frame /\ n \in Nat /\ call[c].pc = "minting"
    BY <1>5, FrameOf DEF PassportMinted, Frame
  <2>2. Delivering(c, o) /\ minted[o] = n /\ n < Quantity
    BY <2>1 DEF Delivering, DeliveryInv, MintsCounted
  <2>3. call' = [call EXCEPT ![c] = f] /\ minted' = [minted EXCEPT ![o] = n + 1] /\ UNCHANGED order
    BY <1>5, <2>1, <2>2 DEF PassportMinted, Shape, TypeOK
  <2>4. f.pc = "minted" /\ f.o = o /\ f.n = n + 1
    BY <2>1 DEF Frame
  <2>5. n + 1 \in Nat /\ n + 1 <= Quantity
    BY <2>1, <2>2, ManufacturingAssumption
  <2> HIDE DEF f, o, n
  <2>6. f.pc \notin Awaiting /\ f.pc # "minting" /\ f.pc # "recorded"
    BY <2>4 DEF Awaiting
  <2> QED
    BY <2>1, <2>2, <2>3, <2>4, <2>5, <2>6, DeliveryGoesOn
<1>6. CASE MintNext(c)
  <2> DEFINE n == call[c].n
             f == [call[c] EXCEPT !.pc = "minting"]
  <2>1. /\ o \in Orders /\ call[c] \in Frame /\ n \in Nat /\ call[c].pc = "minted"
        /\ n < Quantity
    BY <1>6, FrameOf DEF MintNext, Frame
  <2>2. Delivering(c, o) /\ minted[o] = n
    BY <2>1 DEF Delivering, DeliveryInv, MintsCounted
  <2>3. call' = [call EXCEPT ![c] = f] /\ minted' = [minted EXCEPT ![o] = n] /\ UNCHANGED order
    BY <1>6, <2>1, <2>2 DEF MintNext, Shape, TypeOK
  <2>4. f.pc = "minting" /\ f.o = o /\ f.n = n /\ n <= Quantity
    BY <2>1, ManufacturingAssumption DEF Frame
  <2> HIDE DEF f, o, n
  <2>5. f.pc \notin Awaiting /\ f.pc # "recorded" /\ f.n < Quantity
    BY <2>1, <2>4 DEF Awaiting
  <2> QED
    BY <2>1, <2>2, <2>3, <2>4, <2>5, DeliveryGoesOn
<1>7. CASE Delivered(c)
  <2> DEFINE ord == [order[o] EXCEPT !.passports = Quantity]
  <2>1. o \in Orders /\ ord \in OrderType /\ ord.status = order[o].status
        /\ ord.completed = order[o].completed /\ UNCHANGED minted
    BY <1>7, FrameOf DEF Delivered, OrderType
  <2>2. CASE order' = [order EXCEPT ![o] = ord] /\ Return(c)
    <3>1. \A q \in Orders : /\ order'[q].completed = order[q].completed
                            /\ order'[q].status = order[q].status
      BY <2>1, <2>2, OrdersTyped DEF OrderTyped
    <3>2. CallerQuiet /\ CompletionQuiet
      BY <2>2, CallerReturns
    <3>3. ProductionQuiet
      BY <3>1, <3>2 DEF ProductionQuiet, InProduction, CompletionQuiet, Deliverable
    <3> QED
      BY <2>1, <3>2, <3>3, QuietDelivery DEF DeliveryQuiet
  <2>3. CASE ~order[o].completed[2] /\ Complete(c, o, 2, ord)
    <3> HIDE DEF ord, o
    <3>1. 2 \in Milestones
      BY DEF Milestones
    <3>2. PICK s \in OrderStatus, f \in Frame :
            /\ order' = [order EXCEPT ![o] = [Mark(ord, 2) EXCEPT !.status = s]]
            /\ call' = [call EXCEPT ![c] = f]
            /\ \/ Recording(f) /\ (s = ord.status \/ s = "complete" \/ 2 = 1)
               \/ Releasing(f, o, 2, ord.escrowId) /\ s = ord.status
      BY <2>1, <2>3, <3>1, CompleteEffect
    <3>3. CallerQuiet /\ ProductionQuiet
      BY <2>1, <2>3, <3>1, <3>2, MarkDelivery
    <3> QED
      BY <2>1, <3>3, QuietDelivery DEF DeliveryQuiet
  <2> QED
    BY <1>7, <2>1, <2>2, <2>3 DEF Delivered
<1>8. CASE DisputeResolved(c)
  <2>1. o \in Orders
    BY <1>8, FrameOf DEF DisputeResolved
  <2>2. CallerQuiet /\ CompletionQuiet
    BY <1>8, CallerReturns DEF DisputeResolved
  <2>3. \A q \in Orders : /\ order'[q].completed = order[q].completed
                          /\ order'[q].status \in {order[q].status, "refunded", "complete"}
    BY <1>8, <2>1, OrdersTyped DEF DisputeResolved, OrderResolved, SetStatus, OrderTyped, OrderType
  <2>4. ProductionQuiet
    BY <2>2, <2>3 DEF ProductionQuiet, InProduction, CompletionQuiet, Deliverable
  <2> QED
    BY <1>8, <2>2, <2>4, QuietDelivery DEF DisputeResolved, DeliveryQuiet
<1> QED
  BY <1>1, <1>2, <1>3, <1>4, <1>5, <1>6, <1>7, <1>8, LoopGoesOn, ReleasedDelivery DEF Resume

LEMMA DeliveryStep == Shape /\ Shape' /\ CompletedByOne /\ DeliveryInv /\ [Next]_vars => DeliveryInv'
<1> SUFFICES ASSUME Shape, Shape', CompletedByOne, DeliveryInv, [Next]_vars PROVE DeliveryInv'
  OBVIOUS
<1>1. ASSUME NEW o \in Orders,
             \/ CreateOrder(o) \/ SubmitOrder(o) \/ ApproveOrder(o) \/ CancelOrder(o)
             \/ RaiseDispute(o)
      PROVE  DeliveryInv'
  <2>1. UNCHANGED <<minted, call>>
    BY <1>1 DEF CreateOrder, SubmitOrder, ApproveOrder, CancelOrder, Advance, RaiseDispute
  <2>2. CallerQuiet /\ CompletionQuiet
    BY <2>1 DEF CallerQuiet, CompletionQuiet, Completing
  <2>3. ProductionQuiet
    BY <1>1, <2>2, StatusQuiet
    DEF CreateOrder, SubmitOrder, ApproveOrder, CancelOrder, Advance, RaiseDispute, OrderStatus
  <2> QED
    BY <2>1, <2>2, <2>3, QuietDelivery DEF DeliveryQuiet
<1>2. CASE UNCHANGED <<order, minted, call>>
  <2>1. CallerQuiet /\ CompletionQuiet
    BY <1>2 DEF CallerQuiet, CompletionQuiet, Completing
  <2> QED
    BY <1>2, <2>1, OrdersUnchanged, QuietDelivery DEF DeliveryQuiet
<1> QED
  BY <1>1, <1>2, InvokeDelivery, ResumeDelivery
  DEF Next, Refund, FieldCheckpoint, Register, vars

-----------------------------------------------------------------------------
LEMMA InitInv == Init => IInv
<1> SUFFICES ASSUME Init PROVE IInv
  OBVIOUS
<1> USE DEF Init, EscrowInit, TrackingInit, NewOrder
<1>1. \A c \in Callers : call[c] = Idle
  OBVIOUS
<1>2. Shape
  <2>1. EscrowTypeOK /\ TrackingTypeOK
    <3>1. EscrowTypeOK
      BY DEF EscrowTypeOK, EscrowStatus, Milestones
    <3>2. TrackingTypeOK
      <4>1. 0 \in Stages
        BY DEF Stages
      <4> QED
        BY <4>1 DEF TrackingTypeOK
    <3> QED
      BY <3>1, <3>2
  <2>2. order \in [Orders -> OrderType]
    BY DEF OrderType, OrderStatus
  <2>3. minted \in [Orders -> Nat]
    OBVIOUS
  <2>4. call \in [Callers -> Frame] /\ CallsSound
    BY IdleSound DEF CallsSound
  <2> QED
    BY <2>1, <2>2, <2>3, <2>4 DEF Shape, TypeOK, OrderType
<1>3. \A c \in Callers : call[c].pc = "idle"
  BY <1>1 DEF Idle
<1>4. PaymentInv
  BY <1>3 DEF PaymentInv, EscrowsOwned, CompletedByOne, Completing, ReleasesNext, PaidIsMarked,
              PaidFor, CounterMatchesPayments, PaidOnce, Paid, Milestones
<1>5. DeliveryInv
  BY <1>3, ManufacturingAssumption
  DEF DeliveryInv, DeliveredOnce, MintsCounted, PassportsMatchItems, Delivering, Deliverable
<1> QED
  BY <1>2, <1>4, <1>5 DEF IInv

LEMMA StepInv == IInv /\ [Next]_vars => IInv'
  BY ShapeStep, PaymentStep, DeliveryStep DEF IInv, PaymentInv

LEMMA Invariant == Spec => []IInv
  BY InitInv, StepInv, PTL DEF Spec

\* Every order, escrow, tracking record and suspended invocation stays of its type.
THEOREM TypeCorrect == Spec => []TypeOK
<1>1. IInv => TypeOK
  BY DEF IInv, Shape
<1> QED
  BY <1>1, Invariant, PTL

\* completeMilestone marks the milestone before it awaits the release, so no
\* milestone of an order is paid by two transactions.
THEOREM PaidOnceAlways == Spec => []PaidOnce
<1>1. IInv => PaidOnce
  BY DEF IInv, PaymentInv
<1> QED
  BY <1>1, Invariant, PTL

\* releaseMilestone tests the counter before its await and moves it after it:
\* the counter says all the same which milestones were paid.
THEOREM CounterMatchesAlways == Spec => []CounterMatchesPayments
<1>1. IInv => CounterMatchesPayments
  BY DEF IInv, PaymentInv
<1> QED
  BY <1>1, Invariant, PTL

\* confirmDelivery runs once for an order and mints no more than its items.
THEOREM PassportsMatchAlways == Spec => []PassportsMatchItems
<1>1. IInv => PassportsMatchItems
  BY DEF IInv, DeliveryInv
<1> QED
  BY <1>1, Invariant, PTL

-----------------------------------------------------------------------------
\* Completed orders.  An invocation that has released a milestone has paid it,
\* and what is paid stays paid.
ReleasedPaid ==
  \A c \in Callers :
    call[c].pc = "released" => PaidFor(call[c].e, call[c].o, call[c].n)

LEMMA PaidStays ==
  ASSUME Shape, PaymentInv, [Next]_vars, NEW e \in Escrows, NEW o \in Orders,
         NEW i \in Milestones, PaidFor(e, o, i)
  PROVE  PaidFor(e, o, i)'
<1> USE DEF PaymentInv
<1>1. EscrowTypeOK
  BY DEF Shape, TypeOK
<1>2. CASE UNCHANGED escrowVars
  BY <1>2 DEF PaidFor, escrowVars
<1>3. ASSUME NEW x \in Escrows, NEW s, SetEscrowStatus(x, s)
      PROVE  PaidFor(e, o, i)'
  BY <1>1, <1>3 DEF PaidFor, SetEscrowStatus, EscrowTypeOK
<1>4. ASSUME NEW c \in Callers, NEW x \in Escrows, EscrowCreated(c, x)
      PROVE  PaidFor(e, o, i)'
  <2>1. ~Exists(x) /\ UNCHANGED paid
        /\ escrow' = [escrow EXCEPT ![x] =
                        [status |-> "funded", milestonesCompleted |-> 0, order |-> call[c].o]]
    BY <1>4 DEF EscrowCreated, CreateEscrow
  <2>2. paid[x][i] = 0
    <3>1. escrow[x].milestonesCompleted = 0
      BY <2>1 DEF EscrowsOwned
    <3> QED
      BY <3>1 DEF CounterMatchesPayments, Milestones
  <2> QED
    BY <1>1, <2>1, <2>2 DEF PaidFor, EscrowTypeOK
<1>5. ASSUME NEW c \in Callers, ReleaseSent(c)
      PROVE  PaidFor(e, o, i)'
  <2>1. call[c].e \in Escrows /\ call[c].n \in Milestones
    BY <1>5, FrameOf DEF ReleaseSent
  <2>2. escrow'[e].order = escrow[e].order
    BY <1>1, <1>5, <2>1 DEF ReleaseSent, ReleaseMilestone, EscrowTypeOK
  <2>3. paid'[e][i] \in {paid[e][i], paid[e][i] + 1} /\ paid[e][i] \in Nat
    BY <1>1, <1>5, <2>1 DEF ReleaseSent, ReleaseMilestone, EscrowTypeOK
  <2> QED
    BY <2>2, <2>3 DEF PaidFor
<1>6. ASSUME NEW c \in Callers, NEW q \in Orders, Invoke(c, q)
      PROVE  PaidFor(e, o, i)'
  <2>1. UNCHANGED escrowVars \/ \E x \in Escrows : \E s : SetEscrowStatus(x, s)
    <3>1. ASSUME NEW percent \in Percents, ResolveDispute(c, q, percent)
          PROVE  UNCHANGED escrowVars \/ \E x \in Escrows : \E s : SetEscrowStatus(x, s)
      <4>1. order[q].escrowId \in Escrows \cup {None}
        BY OrdersTyped DEF OrderTyped, OrderType
      <4> QED
        BY <3>1, <4>1 DEF ResolveDispute, ResolveEscrowDispute
    <3> QED
      BY <1>6, <3>1
      DEF Invoke, StartProduction, ReportProgress, ReportShipping, ConfirmDelivery,
          StatusThenLoop, FundOrder, CompleteMilestone
  <2> QED
    BY <1>2, <1>3, <2>1
<1>7. ASSUME NEW c \in Callers, Resume(c)
      PROVE  PaidFor(e, o, i)'
  BY <1>2, <1>4, <1>5, <1>7
  DEF Resume, ResumeLoop, FundTracked, FundReturns, MilestoneReleased, PassportMinted, MintNext,
      Delivered, DisputeResolved
<1>8. ASSUME NEW q \in Orders, RaiseDispute(q)
      PROVE  PaidFor(e, o, i)'
  <2>1. order[q].escrowId \in Escrows \cup {None}
    BY OrdersTyped DEF OrderTyped, OrderType
  <2> QED
    BY <1>2, <1>3, <1>8, <2>1 DEF RaiseDispute, RaiseEscrowDispute
<1>9. ASSUME NEW x \in Escrows, Refund(x)
      PROVE  PaidFor(e, o, i)'
  BY <1>3, <1>9 DEF Refund, RefundBuyer
<1> QED
  BY <1>2, <1>6, <1>7, <1>8, <1>9
  DEF Next, vars, escrowVars, CreateOrder, SubmitOrder, ApproveOrder, CancelOrder, Advance,
      FieldCheckpoint, Register

\* Only the step that sends a release makes an invocation a released one.
LEMMA ReleasedBefore ==
  ASSUME Shape, [Next]_vars, NEW d \in Callers, call'[d].pc = "released"
  PROVE  call'[d] = call[d] \/ ReleaseSent(d)
<1>1. call \in [Callers -> Frame]
  BY DEF Shape, TypeOK
<1>2. ASSUME CallQuiet
      PROVE  call'[d] = call[d]
  BY <1>2 DEF CallQuiet, Awaiting
<1>3. ASSUME NEW c \in Callers, NEW f, f.pc # "released", call' = [call EXCEPT ![c] = f]
      PROVE  call'[d] = call[d]
  BY <1>1, <1>3
<1>4. ASSUME NEW c \in Callers, NEW o \in Orders, NEW i \in Milestones, NEW ord \in OrderType,
             Complete(c, o, i, ord)
      PROVE  call'[d] = call[d]
  <2>1. PICK f \in Frame : /\ call' = [call EXCEPT ![c] = f]
                           /\ Recording(f) \/ Releasing(f, o, i, ord.escrowId)
    BY <1>4, CompleteEffect
  <2>2. Recording(f) => f.pc # "released"
    BY DEF Recording, Idle
  <2>3. Releasing(f, o, i, ord.escrowId) => f.pc = "releasing"
    BY DEF Releasing, Idle
  <2> QED
    BY <1>3, <2>1, <2>2, <2>3
<1>5. ASSUME NEW c \in Callers, NEW o \in Orders, Invoke(c, o)
      PROVE  call'[d] = call[d]
  <2>1. CASE StartProduction(c, o) \/ ReportProgress(c, o) \/ ReportShipping(c, o)
               \/ ConfirmDelivery(c, o)
    <3>1. PaymentQuiet
      BY <2>1, LoopQuiet
      DEF StartProduction, ReportProgress, ReportShipping, ConfirmDelivery, Checkpoints,
          OrderStatus
    <3> QED
      BY <1>2, <3>1 DEF PaymentQuiet
  <2>2. ASSUME NEW i \in Milestones, CompleteMilestone(c, o, i)
        PROVE  call'[d] = call[d]
    BY <1>4, <2>2, OrdersTyped DEF CompleteMilestone, OrderTyped
  <2>3. CASE FundOrder(c, o) \/ \E percent \in Percents : ResolveDispute(c, o, percent)
    BY <1>3, <2>3 DEF FundOrder, ResolveDispute, Idle
  <2> QED
    BY <1>5, <2>1, <2>2, <2>3 DEF Invoke
<1>6. ASSUME NEW c \in Callers, Resume(c), ~ReleaseSent(d)
      PROVE  call'[d] = call[d]
  <2>1. CASE ResumeLoop(c)
    <3>1. call[c].op \in DOMAIN Checkpoints /\ call[c].n \in Nat /\ call[c].o \in Orders
      BY <2>1, FrameOf DEF ResumeLoop
    <3> QED
      BY <1>2, <2>1, <3>1, SegmentQuiet DEF ResumeLoop
  <2>2. CASE MilestoneReleased(c)
    <3>1. call[c].o \in Orders /\ call[c].n \in Milestones /\ order[call[c].o] \in OrderType
      BY <2>2, FrameOf DEF MilestoneReleased
    <3>2. PICK f \in Frame : call' = [call EXCEPT ![c] = f] /\ Recording(f)
      BY <2>2, <3>1, SettledEffect DEF MilestoneReleased
    <3>3. f.pc # "released"
      BY <3>2 DEF Recording, Idle
    <3> QED
      BY <1>3, <3>2, <3>3
  <2>3. CASE Delivered(c)
    <3> DEFINE ord == [order[call[c].o] EXCEPT !.passports = Quantity]
    <3>1. call[c].o \in Orders /\ 2 \in Milestones /\ ord \in OrderType
      BY <2>3, FrameOf DEF Delivered, Milestones, OrderType
    <3>2. Complete(c, call[c].o, 2, ord) \/ Return(c)
      BY <2>3 DEF Delivered
    <3> HIDE DEF ord
    <3> QED
      BY <1>3, <1>4, <3>1, <3>2 DEF Return, Idle
  <2>4. CASE FundReturns(c) \/ DisputeResolved(c)
    BY <1>3, <2>4 DEF FundReturns, DisputeResolved, Return, Idle
  <2>5. ASSUME \/ PassportMinted(c) \/ MintNext(c) \/ ReleaseSent(c)
               \/ \E e \in Escrows : EscrowCreated(c, e)
               \/ \E p \in Products : FundTracked(c, p)
        PROVE  call'[d] = call[d]
    <3>1. \A x \in Callers : x # c => call'[x] = call[x]
      BY <1>1, <2>5 DEF PassportMinted, MintNext, ReleaseSent, EscrowCreated, FundTracked
    <3>2. CASE d = c
      <4>1. call'[c].pc # "released"
        BY <1>1, <1>6, <2>5, <3>2
        DEF PassportMinted, MintNext, EscrowCreated, FundTracked, Frame
      <4> QED
        BY <3>2, <4>1
    <3> QED
      BY <3>1, <3>2
  <2> QED
    BY <1>6, <2>1, <2>2, <2>3, <2>4, <2>5 DEF Resume
<1>7. CASE UNCHANGED call
  BY <1>7
<1> QED
  BY <1>5, <1>6, <1>7
  DEF Next, CreateOrder, SubmitOrder, ApproveOrder, CancelOrder, Advance, RaiseDispute, Refund,
      FieldCheckpoint, Register, vars

LEMMA ReleasedStep == IInv /\ ReleasedPaid /\ [Next]_vars => ReleasedPaid'
<1> SUFFICES ASSUME IInv, ReleasedPaid, [Next]_vars, NEW c \in Callers, call'[c].pc = "released"
             PROVE  PaidFor(call[c].e, call[c].o, call[c].n)' 
  BY DEF ReleasedPaid
<1>1. Shape /\ PaymentInv
  BY DEF IInv
<1>2. CASE call'[c] = call[c]
  <2>1. call[c].e \in Escrows /\ call[c].o \in Orders /\ call[c].n \in Milestones
    BY <1>1, <1>2, FrameOf
  <2>2. PaidFor(call[c].e, call[c].o, call[c].n)
    BY <1>2 DEF ReleasedPaid
  <2> DEFINE e == call[c].e
             o == call[c].o
             i == call[c].n
  <2>3. escrow'[e].order = o /\ paid'[e][i] > 0
    <3> HIDE DEF e, o, i
    <3>1. \A x \in Escrows, q \in Orders, j \in Milestones : PaidFor(x, q, j) => PaidFor(x, q, j)'
      BY <1>1, PaidStays
    <3> QED
      BY <2>1, <2>2, <3>1 DEF e, o, i, PaidFor
  <2> QED
    BY <1>2, <2>3 DEF PaidFor
<1>3. CASE ReleaseSent(c)
  <2>1. call[c].o \in Orders /\ call[c].e \in Escrows /\ call[c].n \in Milestones
        /\ call[c].pc = "releasing"
    BY <1>1, <1>3, FrameOf DEF ReleaseSent
  <2>2. escrow[call[c].e].order = call[c].o
    BY <1>1, <2>1 DEF PaymentInv, EscrowsOwned
  <2>3. /\ call'[c].o = call[c].o /\ call'[c].e = call[c].e /\ call'[c].n = call[c].n
    BY <1>1, <1>3 DEF ReleaseSent, Shape, TypeOK, Frame
  <2>4. /\ paid'[call[c].e][call[c].n] = paid[call[c].e][call[c].n] + 1
        /\ paid[call[c].e][call[c].n] \in Nat
        /\ escrow'[call[c].e].order = escrow[call[c].e].order
    BY <1>1, <1>3, <2>1 DEF ReleaseSent, ReleaseMilestone, Shape, TypeOK, EscrowTypeOK
  <2> QED
    BY <2>2, <2>3, <2>4 DEF PaidFor
<1> QED
  BY <1>1, <1>2, <1>3, ReleasedBefore

LEMMA ReleasedInit == Init => ReleasedPaid
  BY DEF Init, Idle, ReleasedPaid

\* What a segment that settles milestone i leaves an order as.
LEMMA SettledStatus ==
  ASSUME NEW c \in Callers, NEW o \in Orders, NEW i \in Milestones, NEW ord \in OrderType,
         OrderTyped, Settled(c, o, i, ord)
  PROVE  /\ \A q \in Orders : q # o => order'[q] = order[q]
         /\ i # 2 => order'[o].status # "complete" \/ order'[o].status = ord.status
<1> DEFINE s == CASE i = 0 -> ord.status [] i = 1 -> "production_complete" [] i = 2 -> "complete"
<1>1. order' = [order EXCEPT ![o] = [ord EXCEPT !.status = s]]
  BY DEF Settled
<1>2. i # 2 => s # "complete" \/ s = ord.status
  BY DEF Milestones
<1> HIDE DEF s
<1> QED
  BY <1>1, <1>2 DEF OrderTyped, OrderType

LEMMA CompletionPaid ==
  ASSUME IInv, ReleasedPaid, [Next]_vars, NEW o \in Orders,
         order[o].status # "complete", order'[o].status = "complete", order[o].escrowId # None
  PROVE  \/ \E e \in Escrows : escrow[e].order = o /\ escrow[e].milestonesCompleted = 3
         \/ \E c \in Callers : call[c].pc = "resolved" /\ call[c].o = o /\ call[c].n = 0
<1> DEFINE Goal == \/ \E e \in Escrows : escrow[e].order = o /\ escrow[e].milestonesCompleted = 3
                   \/ \E c \in Callers : call[c].pc = "resolved" /\ call[c].o = o /\ call[c].n = 0
<1>1. Shape /\ PaymentInv /\ OrderTyped
  BY OrdersTyped DEF IInv
<1>2. \A q \in Orders : order[q] \in OrderType
  BY <1>1 DEF OrderTyped
<1>3. ASSUME NEW q \in Orders, NEW s, s # "complete", SetStatus(q, s)
      PROVE  FALSE
  BY <1>2, <1>3, <1>1 DEF SetStatus, OrderTyped, OrderType
<1>4. CASE UNCHANGED order
  BY <1>4
<1>5. ASSUME NEW c \in Callers, NEW q \in Orders, NEW i \in Milestones, NEW ord \in OrderType,
             Complete(c, q, i, ord), ord.status = order[q].status,
             ord.escrowId = order[q].escrowId
      PROVE  FALSE
  <2>1. Mark(ord, i) \in OrderType /\ Mark(ord, i).status = ord.status
    BY MarkTyped DEF Mark, OrderType
  <2>2. CASE ord.escrowId = None /\ Settled(c, q, i, Mark(ord, i))
    BY <1>1, <1>5, <2>1, <2>2, SettledStatus
  <2>3. CASE order' = [order EXCEPT ![q] = Mark(ord, i)]
    BY <1>1, <1>5, <2>1, <2>3 DEF OrderTyped
  <2> QED
    BY <1>5, <2>2, <2>3 DEF Complete
<1>6. ASSUME NEW c \in Callers, NEW q \in Orders, Invoke(c, q)
      PROVE  FALSE
  <2>1. CASE StartProduction(c, q) \/ ReportProgress(c, q) \/ ReportShipping(c, q)
               \/ ConfirmDelivery(c, q)
    BY <1>3, <2>1
    DEF StartProduction, ReportProgress, ReportShipping, ConfirmDelivery, StatusThenLoop
  <2>2. ASSUME NEW i \in Milestones, CompleteMilestone(c, q, i)
        PROVE  FALSE
    BY <1>2, <1>5, <2>2 DEF CompleteMilestone
  <2>3. ASSUME NEW percent \in Percents, ResolveDispute(c, q, percent)
        PROVE  FALSE
    <3>1. CASE order[q].escrowId = None /\ OrderResolved(q, percent)
      <4>1. q # o
        BY <3>1
      <4> QED
        BY <1>1, <3>1, <4>1 DEF OrderResolved, SetStatus, OrderTyped
    <3>2. CASE UNCHANGED order
      BY <3>2
    <3> QED
      BY <2>3, <3>1, <3>2 DEF ResolveDispute
  <2>4. CASE FundOrder(c, q)
    BY <2>4 DEF FundOrder
  <2> QED
    BY <1>6, <2>1, <2>2, <2>3, <2>4 DEF Invoke
<1>7. ASSUME NEW c \in Callers, Resume(c)
      PROVE  Goal
  <2>1. CASE MilestoneReleased(c)
    <3>1. call[c].o \in Orders /\ call[c].n \in Milestones /\ call[c].e \in Escrows
      BY <1>1, <2>1, FrameOf DEF MilestoneReleased
    <3>2. Settled(c, call[c].o, call[c].n, order[call[c].o])
      BY <2>1 DEF MilestoneReleased
    <3>3. call[c].o = o /\ call[c].n = 2
      BY <1>1, <1>2, <3>1, <3>2, SettledStatus
    <3>4. escrow[call[c].e].order = o /\ paid[call[c].e][2] > 0
      BY <2>1, <3>3 DEF MilestoneReleased, ReleasedPaid, PaidFor
    <3>5. escrow[call[c].e].milestonesCompleted \in 0..3
      BY <1>1, <3>1 DEF Shape, TypeOK, EscrowTypeOK
    <3>6. paid[call[c].e][2] = IF 2 < escrow[call[c].e].milestonesCompleted THEN 1 ELSE 0
      BY <1>1, <3>1 DEF PaymentInv, CounterMatchesPayments, Milestones
    <3>7. escrow[call[c].e].milestonesCompleted = 3
      BY <3>4, <3>5, <3>6
    <3> QED
      BY <3>1, <3>4, <3>7
  <2>2. CASE Delivered(c)
    <3> DEFINE ord == [order[call[c].o] EXCEPT !.passports = Quantity]
    <3>1. call[c].o \in Orders /\ 2 \in Milestones /\ ord \in OrderType
          /\ ord.status = order[call[c].o].status /\ ord.escrowId = order[call[c].o].escrowId
      BY <1>1, <2>2, FrameOf DEF Delivered, Milestones, OrderType
    <3>2. Complete(c, call[c].o, 2, ord) \/ order' = [order EXCEPT ![call[c].o] = ord]
      BY <2>2 DEF Delivered
    <3> HIDE DEF ord
    <3>3. CASE order' = [order EXCEPT ![call[c].o] = ord]
      BY <1>1, <3>1, <3>3 DEF OrderTyped
    <3> QED
      BY <1>5, <3>1, <3>2, <3>3
  <2>3. CASE DisputeResolved(c)
    <3>1. call[c].o \in Orders
      BY <1>1, <2>3, FrameOf DEF DisputeResolved
    <3>2. SetStatus(call[c].o, IF call[c].n = 100 THEN "refunded"
                               ELSE IF call[c].n = 0 THEN "complete"
                               ELSE order[call[c].o].status)
      BY <2>3 DEF DisputeResolved, OrderResolved
    <3>3. call[c].o = o /\ call[c].n = 0
      BY <1>1, <1>2, <3>1, <3>2 DEF SetStatus, OrderTyped, OrderType
    <3> QED
      BY <2>3, <3>3 DEF DisputeResolved
  <2>4. ASSUME NEW p \in Products, FundTracked(c, p)
        PROVE  FALSE
    <3>1. call[c].o \in Orders
      BY <1>1, <2>4, FrameOf DEF FundTracked
    <3>2. order' = [order EXCEPT ![call[c].o] = [order[call[c].o] EXCEPT !.escrowId = call[c].e,
                                                                         !.status = "funded"]]
      BY <2>4 DEF FundTracked
    <3>3. [order[call[c].o] EXCEPT !.escrowId = call[c].e, !.status = "funded"].status = "funded"
      BY <1>2, <3>1 DEF OrderType
    <3> QED
      BY <1>1, <3>1, <3>2, <3>3 DEF OrderTyped
  <2>5. CASE FundReturns(c)
    <3>1. call[c].o \in Orders
      BY <1>1, <2>5, FrameOf DEF FundReturns
    <3>2. \A q \in Orders : order'[q].status = order[q].status
      BY <1>1, <2>5, <3>1 DEF FundReturns, OrderTyped, OrderType
    <3> QED
      BY <3>2
  <2> QED
    BY <1>4, <1>7, <2>1, <2>2, <2>3, <2>4, <2>5
    DEF Resume, ResumeLoop, EscrowCreated, ReleaseSent, PassportMinted, MintNext
<1> QED
  BY <1>3, <1>4, <1>6, <1>7
  DEF Next, CreateOrder, SubmitOrder, ApproveOrder, CancelOrder, Advance, RaiseDispute, Refund,
      FieldCheckpoint, Register, vars

\* The step that completes an order with an escrow follows three releases from
\* one escrow of that order, or the award of an arbitrator, whatever else is
\* suspended meanwhile: releaseMilestone throws unless the milestones in front
\* were released, and completeMilestone then leaves the status alone.
THEOREM CompletedIsPaidAlways == Spec => CompletedIsPaid
<1>1. Init => ReleasedPaid
  BY ReleasedInit
<1>2. IInv /\ ReleasedPaid /\ [Next]_vars =>
        [\A o \in Orders :
           order[o].status # "complete" /\ order'[o].status = "complete" /\ order[o].escrowId # None
           => \/ \E e \in Escrows : escrow[e].order = o /\ escrow[e].milestonesCompleted = 3
              \/ \E c \in Callers : call[c].pc = "resolved" /\ call[c].o = o /\ call[c].n = 0]_vars
  BY CompletionPaid
<1> QED
  BY <1>1, <1>2, ReleasedStep, Invariant, PTL DEF Spec, CompletedIsPaid
=============================================================================
