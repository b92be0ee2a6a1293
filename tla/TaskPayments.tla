---------------------------- MODULE TaskPayments ----------------------------
(***************************************************************************)
(* TaskManager (src/src/tasks/manager.ts) and the daemon's subscriber to   *)
(* its "task.completed" events (src/src/daemon/handlers.ts), which pays    *)
(* for each of them in four awaited calls of the Lightning service.        *)
(***************************************************************************)
EXTENDS Integers, FiniteSets

CONSTANTS Tasks,
          Workers,
          Jobs,           \* slots for invocations of the subscriber
          MaxCompletions, \* bound: completions published for one task
          Nobody

ASSUME TaskAssumption == Nobody \notin Tasks /\ Nobody \notin Workers /\ MaxCompletions \in Nat

VARIABLES
  task,       \* task[t]: the map that holds t, its status, its worker
  completions,\* completions[t]: task.completed events published for t
  job,        \* job[j]: the payment that invocation j has come to
  shares      \* shares[t]: invoices of the split of t that were paid

taskVars == <<task, completions, job, shares>>

TaskStatus == {"posted", "open", "assigned", "running", "completed", "verified"}

\* The awaits of the subscriber, in their order.
Stages == {"workerInvoice", "treasuryInvoice", "payWorker", "payTreasury"}

NoJob == [pc |-> "idle", t |-> Nobody, worker |-> FALSE, treasury |-> FALSE]

TaskInit ==
  /\ task = [t \in Tasks |-> [map |-> "none", status |-> "posted", worker |-> Nobody]]
  /\ completions = [t \in Tasks |-> 0]
  /\ job = [j \in Jobs |-> NoJob]
  /\ shares = [t \in Tasks |-> [worker |-> 0, treasury |-> 0]]

payments == <<completions, job, shares>>

-----------------------------------------------------------------------------
\* postTask and createTask, bidding, and the work.

PostTask(t, status) ==
  /\ task[t].map = "none"
  /\ task' = [task EXCEPT ![t] = [map |-> "active", status |-> status, worker |-> Nobody]]
  /\ UNCHANGED payments

\* A fault: a task is also looked for among the completed ones.
AssignAny(t, w) ==
  /\ task[t].map # "none"
  /\ task' = [task EXCEPT ![t].status = "assigned", ![t].worker = w]
  /\ UNCHANGED payments

\* acceptBid and assignTask: whoever was assigned before is replaced.
AssignTask(t, w) ==
  /\ task[t].map = "active"
  /\ task' = [task EXCEPT ![t].status = "assigned", ![t].worker = w]
  /\ UNCHANGED payments

\* The status is not looked at: a task can be started without a worker.
StartTask(t) ==
  /\ task[t].map = "active"
  /\ task' = [task EXCEPT ![t].status = "running"]
  /\ UNCHANGED payments

\* completeTask takes a task of either map, whatever its status, publishes the
\* event, and so runs the subscriber up to its first await.
CompleteTask(t, j) ==
  /\ task[t].map # "none"
  /\ job[j] = NoJob
  /\ completions[t] < MaxCompletions
  /\ task' = [task EXCEPT ![t].map = "completed", ![t].status = "completed"]
  /\ completions' = [completions EXCEPT ![t] = @ + 1]
  /\ job' = [job EXCEPT ![j] = [NoJob EXCEPT !.pc = "workerInvoice", !.t = t]]
  /\ UNCHANGED shares

\* verifyTask ignores the verdict it is given, and the status.
VerifyTask(t) ==
  /\ task[t].map # "none"
  /\ task' = [task EXCEPT ![t].status = "verified"]
  /\ UNCHANGED payments

-----------------------------------------------------------------------------
\* The subscriber.  createInvoice answers null when it fails, and an invoice
\* that is null is paid as the empty string, which the node refuses.

InvoiceCreated(j, ok) ==
  /\ \/ /\ job[j].pc = "workerInvoice"
        /\ job' = [job EXCEPT ![j].pc = "treasuryInvoice", ![j].worker = ok]
     \/ /\ job[j].pc = "treasuryInvoice"
        /\ job' = [job EXCEPT ![j].pc = "payWorker", ![j].treasury = ok]
  /\ UNCHANGED <<task, completions, shares>>

\* A fault: a payment that failed to be confirmed is sent again.
WorkerPaidOrRetried(j, ok) ==
  LET t == job[j].t IN
  /\ job[j].pc = "payWorker"
  /\ ok => job[j].worker
  /\ shares' = [shares EXCEPT ![t].worker = IF ok THEN @ + 1 ELSE @]
  /\ job' = [job EXCEPT ![j].pc = IF ok /\ shares[t].worker > 0 THEN @ ELSE "payTreasury"]
  /\ UNCHANGED <<task, completions>>

\* The node paid the worker's invoice or it did not; the answer is not read.
WorkerPaid(j, ok) ==
  LET t == job[j].t IN
  /\ job[j].pc = "payWorker"
  /\ ok => job[j].worker
  /\ shares' = [shares EXCEPT ![t].worker = IF ok THEN @ + 1 ELSE @]
  /\ job' = [job EXCEPT ![j].pc = "payTreasury"]
  /\ UNCHANGED <<task, completions>>

\* There are no curators: the list of their invoices is empty.
TreasuryPaid(j, ok) ==
  LET t == job[j].t IN
  /\ job[j].pc = "payTreasury"
  /\ ok => job[j].treasury
  /\ shares' = [shares EXCEPT ![t].treasury = IF ok THEN @ + 1 ELSE @]
  /\ job' = [job EXCEPT ![j] = NoJob]
  /\ UNCHANGED <<task, completions>>

-----------------------------------------------------------------------------
TaskNext ==
  \/ \E t \in Tasks, status \in {"posted", "open"} : PostTask(t, status)
  \/ \E t \in Tasks, w \in Workers : AssignTask(t, w)
  \/ \E t \in Tasks : StartTask(t) \/ VerifyTask(t)
  \/ \E t \in Tasks, j \in Jobs : CompleteTask(t, j)
  \/ \E j \in Jobs, ok \in BOOLEAN : \/ InvoiceCreated(j, ok)
                                     \/ WorkerPaid(j, ok)
                                     \/ TreasuryPaid(j, ok)

TaskSpec == TaskInit /\ [][TaskNext]_taskVars

-----------------------------------------------------------------------------
\* A task has a status and a worker only if one of the maps holds it, and the
\* map of the completed ones holds those whose completion was published.
TaskTypeOK ==
  /\ task \in [Tasks -> [map : {"none", "active", "completed"}, status : TaskStatus,
                         worker : Workers \cup {Nobody}]]
  /\ completions \in [Tasks -> 0..MaxCompletions]
  /\ job \in [Jobs -> [pc : Stages \cup {"idle"}, t : Tasks \cup {Nobody},
                       worker : BOOLEAN, treasury : BOOLEAN]]
  /\ \A t \in Tasks : /\ task[t].map = "none" => task[t].status = "posted" /\ task[t].worker = Nobody
                      /\ task[t].map = "completed" <=> completions[t] > 0
  /\ shares \in [Tasks -> [worker : Nat, treasury : Nat]]

\* Every share that was paid, and every one a suspended subscriber is still
\* going to pay, belongs to a completion of its own.
Pending(t, stages) == Cardinality({j \in Jobs : job[j].t = t /\ job[j].pc \in stages})

PaidPerCompletion ==
  \A t \in Tasks :
    /\ shares[t].worker + Pending(t, Stages \ {"payTreasury"}) <= completions[t]
    /\ shares[t].treasury + Pending(t, Stages) <= completions[t]

\* A task whose completion was published, and is being paid for, is nobody
\* else's again: no bid, assignment or start moves it.
CompletedStays ==
  [][\A t \in Tasks : task[t].map = "completed"
       => /\ task'[t].map = "completed"
          /\ task'[t].status \in {"completed", "verified"}
          /\ task'[t].worker = task[t].worker]_taskVars

\* "Lightning HODL invoices to escrow payment until work is verified": no share
\* is paid for a task that was not verified.
PaidAfterVerified ==
  [][\A t \in Tasks : shares'[t] # shares[t] => task[t].status = "verified"]_taskVars
=============================================================================
