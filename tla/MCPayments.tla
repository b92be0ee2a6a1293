------------------------------ MODULE MCPayments ------------------------------
(***************************************************************************)
(* The two users of the Lightning node in the daemon: HODL invoices and    *)
(* the payments for completed tasks.  They share no state and call one     *)
(* another nowhere, so that a behaviour is one of one of them, the one in  *)
(* focus, and the other stays in its initial state.  Invoices share        *)
(* nothing either: there is one, with two calls, so that a settlement and  *)
(* a cancellation meet, and two waits; one task, completed up to three     *)
(* times, and two invocations of the subscriber at a time.                 *)
(***************************************************************************)
EXTENDS HodlInvoice, TaskPayments

CONSTANT Parts   \* the parts of which a behaviour may be one

VARIABLE focus

allVars == <<focus, hodlVars, taskVars>>

PaymentsInit ==
  /\ focus \in Parts /\ HodlInit /\ TaskInit

PaymentsNext ==
  \/ focus = "hodl" /\ HodlNext /\ UNCHANGED <<focus, taskVars>>
  \/ focus = "tasks" /\ TaskNext /\ UNCHANGED <<focus, hodlVars>>

PaymentsSpec == PaymentsInit /\ [][PaymentsNext]_allVars /\ HodlFairness
===============================================================================
