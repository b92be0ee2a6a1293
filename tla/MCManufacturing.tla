-------------------------- MODULE MCManufacturing --------------------------
(***************************************************************************)
(* One order, two concurrent invocations, and as many escrows and product  *)
(* identifiers as two concurrent fundOrder calls can create.               *)
(***************************************************************************)
EXTENDS Manufacturing

CONSTANTS o1, e1, e2, p1, p2, c1, c2

MCOrders   == {o1}
MCEscrows  == {e1, e2}
MCProducts == {p1, p2}
MCCallers  == {c1, c2}
MCPercents == {0, 50, 100}
MCFieldStages == {DisputeStage}
=============================================================================
