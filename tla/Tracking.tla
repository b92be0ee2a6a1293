------------------------------ MODULE Tracking ------------------------------
(***************************************************************************)
(* SupplyChainTracking (src/src/manufacturing/tracking.ts): one record per *)
(* product with the stage reached, and the verified-actor table, of which  *)
(* only the entry of the service's own wallet is ever consulted.           *)
(***************************************************************************)
EXTENDS Integers

CONSTANTS Products    \* product identifiers generateProductId may return

VARIABLES record,     \* record[p]: the TrackingRecord of product p
          verified    \* isVerifiedActor of the service's wallet

trackingVars == <<record, verified>>

ProductionStart       == 2
ManufacturingProgress == 3
QualityControl1       == 4
Packaging             == 6
Shipping              == 8
InTransit             == 10
DeliveryConfirmed     == 11
Completed             == 12
DisputeStage          == 99

Stages == 0..12 \cup {DisputeStage}

TrackingTypeOK ==
  /\ record \in [Products -> [known : BOOLEAN, stage : Stages, isComplete : BOOLEAN]]
  /\ verified \in BOOLEAN

TrackingInit ==
  /\ record = [p \in Products |-> [known |-> FALSE, stage |-> 0, isComplete |-> FALSE]]
  /\ verified = FALSE

\* initializeTracking overwrites whatever record the identifier had.
InitializeTracking(p) ==
  /\ record' = [record EXCEPT ![p] = [known |-> TRUE, stage |-> 0, isComplete |-> FALSE]]
  /\ UNCHANGED verified

\* The tests of recordCheckpoint, each of which throws.
CanRecord(p, stage) ==
  /\ record[p].known
  /\ ~record[p].isComplete
  /\ verified
  /\ stage >= record[p].stage \/ stage = DisputeStage

\* The updates of recordCheckpoint; it has no await of its own.
RecordCheckpoint(p, stage) ==
  /\ record' = [record EXCEPT ![p].stage = stage,
                              ![p].isComplete = @ \/ stage = Completed]
  /\ UNCHANGED verified

\* registerActor for the service's wallet, with either value of 'verified'.
RegisterActor(v) ==
  /\ verified' = v
  /\ UNCHANGED record
=============================================================================
