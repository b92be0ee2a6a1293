-------------------------- MODULE TaskPaymentsProofs --------------------------
(***************************************************************************)
(* The payments of completed tasks, for any number of tasks, workers,      *)
(* invocations of the subscriber and completions.                          *)
(***************************************************************************)
EXTENDS TaskPayments, FiniteSetTheorems, TLAPS

TaskType == [map : {"none", "active", "completed"}, status : TaskStatus,
             worker : Workers \cup {Nobody}]
JobType == [pc : Stages \cup {"idle"}, t : Tasks \cup {Nobody}, worker : BOOLEAN, treasury : BOOLEAN]
ShareType == [worker : Nat, treasury : Nat]

\* The invocations that are still going to pay a share of task t.
Payers(t, stages) == {j \in Jobs : job[j].t = t /\ job[j].pc \in stages}

\* A suspended invocation is of a task, and of each task there are only
\* finitely many: each of them began with a completion.
JobsSound ==
  /\ \A j \in Jobs : job[j].pc # "idle" => job[j].t \in Tasks
  /\ \A t \in Tasks : IsFiniteSet(Payers(t, Stages))

\* A task in the map of the completed ones has been moved on by nobody else.
CompletedStatus ==
  \A t \in Tasks : task[t].map = "completed" => task[t].status \in {"completed", "verified"}

TaskInv == TaskTypeOK /\ CompletedStatus /\ JobsSound /\ PaidPerCompletion

-----------------------------------------------------------------------------
LEMMA TypeHas ==
  TaskTypeOK => /\ task \in [Tasks -> TaskType] /\ completions \in [Tasks -> 0..MaxCompletions]
                /\ job \in [Jobs -> JobType] /\ shares \in [Tasks -> ShareType]
  BY DEF TaskTypeOK, TaskType, JobType, ShareType

LEMMA PendingPayers ==
  \A t, stages : Pending(t, stages) = Cardinality(Payers(t, stages))
  BY DEF Pending, Payers

\* The invocations of fewer stages are among those of more.
LEMMA PayersFinite ==
  ASSUME NEW t, NEW stages, stages \subseteq Stages, IsFiniteSet(Payers(t, Stages))
  PROVE  IsFiniteSet(Payers(t, stages)) /\ Cardinality(Payers(t, stages)) \in Nat
<1>1. Payers(t, stages) \subseteq Payers(t, Stages)
  BY DEF Payers
<1>2. IsFiniteSet(Payers(t, stages))
  BY <1>1, FS_Subset
<1> QED
  BY <1>2, FS_CardinalityType

\* An invocation in frame q moves to frame r.  It leaves the set of those that
\* will pay for t, enters it, or stays where it is.
Moved(t, stages, q, r) ==
  LET was  == q.t = t /\ q.pc \in stages
      is   == r.t = t /\ r.pc \in stages
      now  == Payers(t, stages)'
      then == Payers(t, stages)
  IN /\ IsFiniteSet(now) /\ Cardinality(now) \in Nat /\ Cardinality(then) \in Nat
     /\ (was <=> is) => Cardinality(now) = Cardinality(then)
     /\ ~was /\ is => Cardinality(now) = Cardinality(then) + 1
     /\ was /\ ~is => Cardinality(now) = Cardinality(then) - 1

LEMMA OneMoves ==
  ASSUME TaskTypeOK, JobsSound, NEW j \in Jobs, NEW r \in JobType, job' = [job EXCEPT ![j] = r],
         NEW t \in Tasks, NEW stages, stages \subseteq Stages
  PROVE  Moved(t, stages, job[j], r)
<1> DEFINE was  == job[j].t = t /\ job[j].pc \in stages
           is   == r.t = t /\ r.pc \in stages
           now  == Payers(t, stages)'
           then == Payers(t, stages)
<1>1. IsFiniteSet(then) /\ Cardinality(then) \in Nat
  BY PayersFinite DEF JobsSound
<1>2. \A i \in Jobs : job'[i] = IF i = j THEN r ELSE job[i]
  BY TypeHas
<1>3. now = {i \in Jobs : job'[i].t = t /\ job'[i].pc \in stages}
  BY DEF Payers
<1>4. CASE is
  <2>1. now = then \cup {j} /\ (j \in then <=> was)
    BY <1>2, <1>3, <1>4 DEF Payers
  <2>2. IsFiniteSet(now) /\ Cardinality(now) = IF was THEN Cardinality(then) ELSE Cardinality(then) + 1
    BY <1>1, <2>1, FS_AddElement
  <2> QED
    BY <1>1, <1>4, <2>2, FS_CardinalityType DEF Moved
<1>5. CASE ~is
  <2>1. now = then \ {j} /\ (j \in then <=> was)
    BY <1>2, <1>3, <1>5 DEF Payers
  <2>2. IsFiniteSet(now) /\ Cardinality(now) = IF was THEN Cardinality(then) - 1 ELSE Cardinality(then)
    BY <1>1, <2>1, FS_RemoveElement
  <2> QED
    BY <1>1, <1>5, <2>2, FS_CardinalityType DEF Moved
<1> QED
  BY <1>4, <1>5 DEF Moved

-----------------------------------------------------------------------------
\* The steps of the task manager: no share is paid, no invocation goes on.
LEMMA TaskMoves ==
  ASSUME TaskInv, NEW t \in Tasks, NEW r \in TaskType, task' = [task EXCEPT ![t] = r],
         UNCHANGED payments,
         r.map = "none" => r.status = "posted" /\ r.worker = Nobody,
         r.map = "completed" => r.status \in {"completed", "verified"},
         r.map = "completed" <=> task[t].map = "completed",
         task[t].map = "completed" => r.worker = task[t].worker
  PROVE  TaskInv'
<1>1. TaskTypeOK /\ task \in [Tasks -> TaskType]
  BY TypeHas DEF TaskInv
<1>2. \A u \in Tasks : task'[u] = IF u = t THEN r ELSE task[u]
  BY <1>1
<1>3. TaskTypeOK'
  <2>1. task' \in [Tasks -> TaskType]
    BY <1>1
  <2>2. \A u \in Tasks : /\ task'[u].map = "none" => task'[u].status = "posted" /\ task'[u].worker = Nobody
                         /\ task'[u].map = "completed" <=> completions[u] > 0
    BY <1>1, <1>2 DEF TaskTypeOK
  <2> QED
    BY <1>1, <2>1, <2>2 DEF payments, TaskTypeOK, TaskType
<1>4. CompletedStatus'
  BY <1>2 DEF CompletedStatus, TaskInv
<1>5. JobsSound' /\ PaidPerCompletion'
  BY DEF TaskInv, payments, JobsSound, PaidPerCompletion, Payers, Pending
<1> QED
  BY <1>3, <1>4, <1>5 DEF TaskInv

LEMMA ManagerInv ==
  ASSUME TaskInv, NEW t \in Tasks,
         \/ \E status \in {"posted", "open"} : PostTask(t, status)
         \/ \E w \in Workers : AssignTask(t, w)
         \/ StartTask(t)
         \/ VerifyTask(t)
  PROVE  TaskInv'
<1>1. TaskTypeOK /\ task \in [Tasks -> TaskType] /\ task[t] \in TaskType
  BY TypeHas DEF TaskInv
<1>2. task[t].map = "completed" => task[t].status \in {"completed", "verified"}
  BY DEF TaskInv, CompletedStatus
<1>3. ASSUME NEW status \in {"posted", "open"}, PostTask(t, status)
      PROVE  TaskInv'
  <2> DEFINE r == [map |-> "active", status |-> status, worker |-> Nobody]
  <2>1. r \in TaskType /\ r.map = "active"
    BY DEF TaskType, TaskStatus
  <2>2. task[t].map = "none" /\ task' = [task EXCEPT ![t] = r] /\ UNCHANGED payments
    BY <1>3 DEF PostTask
  <2> HIDE DEF r
  <2> QED
    BY <2>1, <2>2, TaskMoves
<1>4. ASSUME NEW w \in Workers, AssignTask(t, w)
      PROVE  TaskInv'
  <2> DEFINE r == [task[t] EXCEPT !.status = "assigned", !.worker = w]
  <2>1. r \in TaskType /\ r.map = task[t].map
    BY <1>1 DEF TaskType, TaskStatus
  <2>2. task[t].map = "active" /\ task' = [task EXCEPT ![t] = r] /\ UNCHANGED payments
    BY <1>1, <1>4 DEF AssignTask
  <2> HIDE DEF r
  <2> QED
    BY <2>1, <2>2, TaskMoves
<1>5. CASE StartTask(t)
  <2> DEFINE r == [task[t] EXCEPT !.status = "running"]
  <2>1. r \in TaskType /\ r.map = task[t].map
    BY <1>1 DEF TaskType, TaskStatus
  <2>2. task[t].map = "active" /\ task' = [task EXCEPT ![t] = r] /\ UNCHANGED payments
    BY <1>1, <1>5 DEF StartTask
  <2> HIDE DEF r
  <2> QED
    BY <2>1, <2>2, TaskMoves
<1>6. CASE VerifyTask(t)
  <2> DEFINE r == [task[t] EXCEPT !.status = "verified"]
  <2>1. r \in TaskType /\ r.map = task[t].map /\ r.worker = task[t].worker /\ r.status = "verified"
    BY <1>1 DEF TaskType, TaskStatus
  <2>2. task[t].map # "none" /\ task' = [task EXCEPT ![t] = r] /\ UNCHANGED payments
    BY <1>1, <1>6 DEF VerifyTask
  <2> HIDE DEF r
  <2> QED
    BY <2>1, <2>2, TaskMoves
<1> QED
  BY <1>3, <1>4, <1>5, <1>6

-----------------------------------------------------------------------------
\* The subscriber.  An invocation moves; whatever it paid it no longer will.
WorkerStages == Stages \ {"payTreasury"}

\* What PaidPerCompletion says of one task.
Owed(t) ==
  /\ shares[t].worker + Cardinality(Payers(t, WorkerStages)) <= completions[t]
  /\ shares[t].treasury + Cardinality(Payers(t, Stages)) <= completions[t]

LEMMA PaidIsOwed == PaidPerCompletion <=> \A t \in Tasks : Owed(t)
  BY PendingPayers DEF PaidPerCompletion, Owed, WorkerStages

LEMMA JobMoves ==
  ASSUME TaskInv, NEW j \in Jobs, NEW r \in JobType, job' = [job EXCEPT ![j] = r],
         r.pc # "idle" => r.t \in Tasks,
         TaskTypeOK', CompletedStatus',
         \A t \in Tasks : Owed(t)'
  PROVE  TaskInv'
<1> USE DEF TaskInv
<1>1. \A t \in Tasks : IsFiniteSet(Payers(t, Stages)')
  BY OneMoves DEF Moved
<1>2. \A i \in Jobs : job'[i] = IF i = j THEN r ELSE job[i]
  BY TypeHas
<1>3. JobsSound'
  BY <1>1, <1>2 DEF JobsSound
<1>4. PaidPerCompletion'
  BY DEF PaidPerCompletion, Owed, Pending, Payers, WorkerStages
<1> QED
  BY <1>3, <1>4

\* An invocation of task u that moves from stage to stage and adds to the
\* shares what it had still to pay.
LEMMA PaymentMoves ==
  ASSUME TaskInv, NEW j \in Jobs, NEW r \in JobType, job' = [job EXCEPT ![j] = r],
         UNCHANGED <<task, completions>>,
         job[j].pc \in Stages, r.t = job[j].t \/ r.pc = "idle",
         NEW dw \in {0, 1}, NEW dt \in {0, 1},
         shares' = [shares EXCEPT ![job[j].t] = [worker |-> shares[job[j].t].worker + dw,
                                                 treasury |-> shares[job[j].t].treasury + dt]],
         job[j].pc = "payTreasury" => r.pc = "idle",
         r.pc \in WorkerStages => job[j].pc \in WorkerStages,
         dw = 1 => job[j].pc \in WorkerStages /\ r.pc \notin WorkerStages,
         dt = 1 => r.pc = "idle"
  PROVE  TaskInv'
<1> USE DEF TaskInv
<1> DEFINE u == job[j].t
<1>1. u \in Tasks /\ "idle" \notin Stages /\ WorkerStages \subseteq Stages
      /\ Stages \subseteq Stages
  BY DEF JobsSound, Stages, WorkerStages
<1>2. /\ completions \in [Tasks -> 0..MaxCompletions] /\ shares \in [Tasks -> ShareType]
      /\ \A t \in Tasks : shares[t].worker \in Nat /\ shares[t].treasury \in Nat
      /\ \A t \in Tasks : completions[t] \in Nat
  BY TypeHas, TaskAssumption DEF ShareType
<1> HIDE DEF u
<1>3. /\ shares' \in [Tasks -> ShareType]
      /\ shares'[u].worker = shares[u].worker + dw /\ shares'[u].treasury = shares[u].treasury + dt
      /\ \A t \in Tasks : t # u => shares'[t] = shares[t]
  <2> DEFINE s == [worker |-> shares[u].worker + dw, treasury |-> shares[u].treasury + dt]
  <2>1. shares' = [shares EXCEPT ![u] = s]
    BY DEF u
  <2>2. s \in ShareType /\ s.worker = shares[u].worker + dw /\ s.treasury = shares[u].treasury + dt
    BY <1>1, <1>2 DEF ShareType
  <2> HIDE DEF s
  <2> QED
    BY <1>1, <1>2, <2>1, <2>2
<1>4. TaskTypeOK'
  <2>1. job' \in [Jobs -> JobType]
    BY TypeHas
  <2> QED
    BY <1>3, <2>1 DEF TaskTypeOK, ShareType, JobType
<1>5. CompletedStatus'
  BY DEF CompletedStatus
<1>6. ASSUME NEW t \in Tasks
      PROVE  Owed(t)'
  <2> DEFINE nowW == Cardinality(Payers(t, WorkerStages)')
             wasW == Cardinality(Payers(t, WorkerStages))
             nowT == Cardinality(Payers(t, Stages)')
             wasT == Cardinality(Payers(t, Stages))
  <2>1. shares[t].worker + wasW <= completions[t] /\ shares[t].treasury + wasT <= completions[t]
    BY PaidIsOwed DEF Owed
  <2> DEFINE atW == job[j].t = t /\ job[j].pc \in WorkerStages
           toW == r.t = t /\ r.pc \in WorkerStages
           atT == job[j].t = t /\ job[j].pc \in Stages
           toT == r.t = t /\ r.pc \in Stages
  <2>6. Moved(t, WorkerStages, job[j], r) /\ Moved(t, Stages, job[j], r)
    BY <1>1, OneMoves
  <2>2. /\ nowW \in Nat /\ wasW \in Nat
        /\ (atW <=> toW) => nowW = wasW
        /\ atW /\ ~toW => nowW = wasW - 1
    BY <2>6 DEF Moved
  <2>5. /\ nowT \in Nat /\ wasT \in Nat
        /\ (atT <=> toT) => nowT = wasT
        /\ atT /\ ~toT => nowT = wasT - 1
    BY <2>6 DEF Moved
  <2>3. CASE t # u
    <3> HIDE DEF nowW, nowT, wasW, wasT
    <3>1. nowW = wasW /\ nowT = wasT
      BY <1>1, <2>2, <2>3, <2>5 DEF u
    <3> QED
      BY <1>3, <2>1, <2>3, <3>1 DEF Owed, nowW, nowT, wasW, wasT
  <2>4. CASE t = u
    <3> HIDE DEF nowW, nowT, wasW, wasT
    <3>1. nowW <= wasW /\ (dw = 1 => nowW = wasW - 1)
      BY <1>1, <2>2, <2>4 DEF u
    <3>2. nowT <= wasT /\ (dt = 1 => nowT = wasT - 1)
      BY <1>1, <2>4, <2>5 DEF u
    <3>3. shares'[t].worker = shares[t].worker + dw /\ shares'[t].treasury = shares[t].treasury + dt
      BY <1>3, <2>4
    <3>4. /\ shares'[t].worker + nowW <= completions'[t]
          /\ shares'[t].treasury + nowT <= completions'[t]
      BY <1>2, <2>1, <2>2, <2>5, <3>1, <3>2, <3>3
    <3> QED
      BY <3>4 DEF Owed, nowW, nowT
  <2> QED
    BY <2>3, <2>4
<1>7. r.pc # "idle" => r.t \in Tasks
  BY <1>1 DEF u
<1> QED
  BY <1>4, <1>5, <1>6, <1>7, JobMoves

LEMMA SubscriberInv ==
  ASSUME TaskInv, NEW j \in Jobs, NEW ok \in BOOLEAN,
         InvoiceCreated(j, ok) \/ WorkerPaid(j, ok) \/ TreasuryPaid(j, ok)
  PROVE  TaskInv'
<1> USE DEF TaskInv
<1> DEFINE u == job[j].t
           worker == shares[u].worker
           treasury == shares[u].treasury
<1>1. /\ job[j] \in JobType /\ job[j].pc \in Stages /\ u \in Tasks
      /\ shares \in [Tasks -> ShareType] /\ shares[u] \in ShareType
      /\ UNCHANGED <<task, completions>>
  BY TypeHas DEF InvoiceCreated, WorkerPaid, TreasuryPaid, JobsSound, Stages
<1>2. worker \in Nat /\ treasury \in Nat /\ shares[u] = [worker |-> worker, treasury |-> treasury]
  BY <1>1 DEF ShareType
<1>3. CASE InvoiceCreated(j, ok)
  <2>1. PICK r \in JobType :
          /\ job' = [job EXCEPT ![j] = r] /\ r.t = u
          /\ \/ job[j].pc = "workerInvoice" /\ r.pc = "treasuryInvoice"
             \/ job[j].pc = "treasuryInvoice" /\ r.pc = "payWorker"
    <3>1. CASE job[j].pc = "workerInvoice"
      <4> DEFINE r == [job[j] EXCEPT !.pc = "treasuryInvoice", !.worker = ok]
      <4>1. r \in JobType /\ r.t = u /\ r.pc = "treasuryInvoice"
        BY <1>1 DEF JobType, Stages
      <4>2. job' = [job EXCEPT ![j] = r]
        BY <1>3, <3>1, TypeHas DEF InvoiceCreated
      <4> HIDE DEF r
      <4> QED
        BY <3>1, <4>1, <4>2
    <3>2. CASE job[j].pc = "treasuryInvoice"
      <4> DEFINE r == [job[j] EXCEPT !.pc = "payWorker", !.treasury = ok]
      <4>1. r \in JobType /\ r.t = u /\ r.pc = "payWorker"
        BY <1>1 DEF JobType, Stages
      <4>2. job' = [job EXCEPT ![j] = r]
        BY <1>3, <3>2, TypeHas DEF InvoiceCreated
      <4> HIDE DEF r
      <4> QED
        BY <3>2, <4>1, <4>2
    <3> QED
      BY <1>3, <3>1, <3>2 DEF InvoiceCreated
  <2> DEFINE zero == 0
  <2>2. /\ shares' = [shares EXCEPT ![u] = [worker |-> worker + zero, treasury |-> treasury + zero]]
        /\ zero \in {0, 1} /\ zero # 1
    BY <1>1, <1>2, <1>3 DEF InvoiceCreated
  <2>3. job[j].pc \in WorkerStages /\ job[j].pc # "payTreasury"
    BY <2>1 DEF WorkerStages, Stages
  <2> HIDE DEF zero
  <2> QED
    BY <1>1, <2>1, <2>2, <2>3, PaymentMoves
<1>4. CASE WorkerPaid(j, ok)
  <2> DEFINE r == [job[j] EXCEPT !.pc = "payTreasury"]
             dw == IF ok THEN 1 ELSE 0
             zero == 0
  <2>1. r \in JobType /\ r.t = u /\ r.pc = "payTreasury" /\ dw \in {0, 1}
    BY <1>1 DEF JobType, Stages
  <2>2. job' = [job EXCEPT ![j] = r]
    BY <1>4, TypeHas DEF WorkerPaid
  <2>3. /\ shares' = [shares EXCEPT ![u] = [worker |-> worker + dw, treasury |-> treasury + zero]]
        /\ zero \in {0, 1} /\ zero # 1
    <3>1. shares' = [shares EXCEPT ![u] = [shares[u] EXCEPT !.worker = IF ok THEN worker + 1 ELSE worker]]
      BY <1>4 DEF WorkerPaid
    <3>2. (IF ok THEN worker + 1 ELSE worker) = worker + dw
      BY <1>2
    <3>3. zero \in {0, 1} /\ zero # 1 /\ worker + zero = worker /\ treasury + zero = treasury
      BY <1>2
    <3> HIDE DEF dw, zero, worker, treasury
    <3>4. [shares[u] EXCEPT !.worker = worker + dw]
            = [worker |-> worker + dw, treasury |-> treasury + zero]
      BY <1>2, <3>3
    <3> QED
      BY <3>1, <3>2, <3>3, <3>4
  <2>4. /\ job[j].pc \in WorkerStages /\ job[j].pc # "payTreasury"
        /\ r.pc \notin WorkerStages
    BY <1>4, <2>1 DEF WorkerPaid, WorkerStages, Stages
  <2> HIDE DEF r, dw, zero
  <2> QED
    BY <1>1, <2>1, <2>2, <2>3, <2>4, PaymentMoves
<1>5. CASE TreasuryPaid(j, ok)
  <2> DEFINE dt == IF ok THEN 1 ELSE 0
             zero == 0
  <2>1. NoJob \in JobType /\ NoJob.pc = "idle" /\ dt \in {0, 1} /\ "idle" \notin WorkerStages
    BY DEF NoJob, JobType, WorkerStages, Stages
  <2>2. job' = [job EXCEPT ![j] = NoJob]
    BY <1>5 DEF TreasuryPaid
  <2>3. /\ shares' = [shares EXCEPT ![u] = [worker |-> worker + zero, treasury |-> treasury + dt]]
        /\ zero \in {0, 1} /\ zero # 1
    <3>1. shares' = [shares EXCEPT ![u] = [shares[u] EXCEPT !.treasury = IF ok THEN treasury + 1 ELSE treasury]]
      BY <1>5 DEF TreasuryPaid
    <3>2. (IF ok THEN treasury + 1 ELSE treasury) = treasury + dt
      BY <1>2
    <3>3. zero \in {0, 1} /\ zero # 1 /\ worker + zero = worker /\ treasury + zero = treasury
      BY <1>2
    <3> HIDE DEF dt, zero, worker, treasury
    <3>4. [shares[u] EXCEPT !.treasury = treasury + dt]
            = [worker |-> worker + zero, treasury |-> treasury + dt]
      BY <1>2, <3>3
    <3> QED
      BY <3>1, <3>2, <3>3, <3>4
  <2> HIDE DEF dt, zero
  <2> QED
    BY <1>1, <2>1, <2>2, <2>3, PaymentMoves
<1> QED
  BY <1>3, <1>4, <1>5

\* The completion that is published is one more, and one more is going to be paid.
LEMMA CompleteInv ==
  ASSUME TaskInv, NEW t \in Tasks, NEW j \in Jobs, CompleteTask(t, j)
  PROVE  TaskInv'
<1> USE DEF TaskInv
<1> DEFINE r == [NoJob EXCEPT !.pc = "workerInvoice", !.t = t]
<1>1. /\ job[j].pc = "idle" /\ job' = [job EXCEPT ![j] = r] /\ UNCHANGED shares
      /\ completions' = [completions EXCEPT ![t] = completions[t] + 1]
      /\ task' = [task EXCEPT ![t] = [task[t] EXCEPT !.map = "completed", !.status = "completed"]]
      /\ completions[t] < MaxCompletions
  <2>1. job[j] = NoJob /\ NoJob.pc = "idle"
    BY DEF CompleteTask, NoJob
  <2>2. task' = [task EXCEPT ![t] = [task[t] EXCEPT !.map = "completed", !.status = "completed"]]
    BY TypeHas DEF CompleteTask, TaskType
  <2> QED
    BY <2>1, <2>2 DEF CompleteTask
<1>2. r \in JobType /\ r.pc = "workerInvoice" /\ r.t = t
  BY DEF JobType, NoJob, Stages
<1>3. /\ completions \in [Tasks -> 0..MaxCompletions] /\ task \in [Tasks -> TaskType]
      /\ \A u \in Tasks : /\ completions[u] \in Nat /\ shares[u].worker \in Nat
                          /\ shares[u].treasury \in Nat
  BY TypeHas, TaskAssumption DEF ShareType
<1>4. /\ \A u \in Tasks : completions'[u] = IF u = t THEN completions[u] + 1 ELSE completions[u]
      /\ completions' \in [Tasks -> 0..MaxCompletions]
  BY <1>1, <1>3, TaskAssumption
<1>5. /\ task' \in [Tasks -> TaskType]
      /\ \A u \in Tasks : u # t => task'[u] = task[u]
      /\ task'[t].map = "completed" /\ task'[t].status = "completed"
  BY <1>1, <1>3 DEF TaskType, TaskStatus
<1> HIDE DEF r
<1>6. TaskTypeOK'
  <2>1. job' \in [Jobs -> JobType]
    BY <1>1, <1>2, TypeHas
  <2>2. \A u \in Tasks : /\ task'[u].map = "none" => task'[u].status = "posted" /\ task'[u].worker = Nobody
                         /\ task'[u].map = "completed" <=> completions'[u] > 0
    BY <1>3, <1>4, <1>5 DEF TaskTypeOK
  <2> QED
    BY <1>1, <1>4, <1>5, <2>1, <2>2 DEF TaskTypeOK, TaskType, JobType
<1>7. CompletedStatus'
  BY <1>5 DEF CompletedStatus
<1>8. Stages \subseteq Stages /\ WorkerStages \subseteq Stages /\ "idle" \notin Stages
      /\ "workerInvoice" \in WorkerStages
  BY DEF Stages, WorkerStages
<1>9. ASSUME NEW u \in Tasks
      PROVE  Owed(u)'
  <2> DEFINE nowW == Cardinality(Payers(u, WorkerStages)')
             wasW == Cardinality(Payers(u, WorkerStages))
             nowT == Cardinality(Payers(u, Stages)')
             wasT == Cardinality(Payers(u, Stages))
  <2>1. shares[u].worker + wasW <= completions[u] /\ shares[u].treasury + wasT <= completions[u]
    BY PaidIsOwed DEF Owed
  <2>5. Moved(u, WorkerStages, job[j], r) /\ Moved(u, Stages, job[j], r)
    BY <1>1, <1>2, <1>8, OneMoves
  <2>2. /\ nowW \in Nat /\ wasW \in Nat
        /\ nowW = IF u = t THEN wasW + 1 ELSE wasW
    BY <1>1, <1>2, <1>8, <2>5 DEF Moved
  <2>3. /\ nowT \in Nat /\ wasT \in Nat
        /\ nowT = IF u = t THEN wasT + 1 ELSE wasT
    BY <1>1, <1>2, <1>8, <2>5 DEF Moved
  <2> HIDE DEF nowW, nowT, wasW, wasT
  <2>4. shares[u].worker + nowW <= completions'[u] /\ shares[u].treasury + nowT <= completions'[u]
    BY <1>3, <1>4, <2>1, <2>2, <2>3
  <2> QED
    BY <1>1, <2>4 DEF Owed, nowW, nowT
<1> QED
  BY <1>1, <1>2, <1>6, <1>7, <1>9, JobMoves

-----------------------------------------------------------------------------
LEMMA InitInv == TaskInit => TaskInv
<1> SUFFICES ASSUME TaskInit PROVE TaskInv
  OBVIOUS
<1>1. TaskTypeOK
  BY TaskAssumption DEF TaskInit, TaskTypeOK, TaskStatus, NoJob, Stages
<1>2. CompletedStatus
  BY DEF TaskInit, CompletedStatus
<1>3. \A t, stages : stages \subseteq Stages => Payers(t, stages) = {}
  BY DEF TaskInit, Payers, NoJob, Stages
<1>4. JobsSound
  BY <1>3, FS_EmptySet DEF TaskInit, JobsSound, NoJob
<1>5. PaidPerCompletion
  <2>1. \A t \in Tasks : Owed(t)
    <3>1. Stages \subseteq Stages /\ WorkerStages \subseteq Stages /\ Cardinality({}) = 0
      BY FS_EmptySet DEF WorkerStages
    <3>2. \A t \in Tasks : Payers(t, WorkerStages) = {} /\ Payers(t, Stages) = {}
      BY <1>3, <3>1
    <3>3. \A t \in Tasks : shares[t].worker = 0 /\ shares[t].treasury = 0 /\ completions[t] = 0
      BY DEF TaskInit
    <3> QED
      BY <3>1, <3>2, <3>3 DEF Owed
  <2> QED
    BY <2>1, PaidIsOwed
<1> QED
  BY <1>1, <1>2, <1>4, <1>5 DEF TaskInv

LEMMA StepInv == TaskInv /\ [TaskNext]_taskVars => TaskInv'
<1> SUFFICES ASSUME TaskInv, [TaskNext]_taskVars PROVE TaskInv'
  OBVIOUS
<1>1. CASE UNCHANGED taskVars
  <2>1. TaskTypeOK' /\ CompletedStatus'
    BY <1>1 DEF taskVars, TaskInv, TaskTypeOK, CompletedStatus
  <2>2. JobsSound' /\ PaidPerCompletion'
    BY <1>1 DEF taskVars, TaskInv, JobsSound, Payers, PaidPerCompletion, Pending
  <2> QED
    BY <2>1, <2>2 DEF TaskInv
<1> QED
  BY <1>1, ManagerInv, SubscriberInv, CompleteInv DEF TaskNext

LEMMA Invariant == TaskSpec => []TaskInv
  BY InitInv, StepInv, PTL DEF TaskSpec

\* A task in neither map has no worker, and the map of the completed tasks
\* holds exactly those whose completion was published.
THEOREM TypeCorrect == TaskSpec => []TaskTypeOK
<1>1. TaskInv => TaskTypeOK
  BY DEF TaskInv
<1> QED
  BY <1>1, Invariant, PTL

\* However the invocations of the subscriber overlap, and however often a task
\* is completed, each share of it is paid at most once for each completion.
THEOREM PaidPerCompletionAlways == TaskSpec => []PaidPerCompletion
<1>1. TaskInv => PaidPerCompletion
  BY DEF TaskInv
<1> QED
  BY <1>1, Invariant, PTL

\* No bid, assignment or start moves a task that was completed.
THEOREM CompletedStaysAlways == TaskSpec => CompletedStays
<1>1. TaskInv /\ [TaskNext]_taskVars =>
        [\A t \in Tasks : task[t].map = "completed"
           => /\ task'[t].map = "completed"
              /\ task'[t].status \in {"completed", "verified"}
              /\ task'[t].worker = task[t].worker]_taskVars
  <2> SUFFICES ASSUME TaskInv, TaskNext, NEW t \in Tasks, task[t].map = "completed"
               PROVE  /\ task'[t].map = "completed"
                      /\ task'[t].status \in {"completed", "verified"}
                      /\ task'[t].worker = task[t].worker
    OBVIOUS
  <2>1. task \in [Tasks -> TaskType] /\ task[t].status \in {"completed", "verified"}
    BY TypeHas DEF TaskInv, CompletedStatus
  <2>2. ASSUME NEW u \in Tasks,
               \/ \E status \in {"posted", "open"} : PostTask(u, status)
               \/ \E w \in Workers : AssignTask(u, w)
               \/ StartTask(u)
        PROVE  task'[t] = task[t]
    <3>1. u # t
      BY <2>2 DEF PostTask, AssignTask, StartTask
    <3> QED
      BY <2>1, <2>2, <3>1 DEF PostTask, AssignTask, StartTask
  <2>3. ASSUME NEW u \in Tasks, NEW s \in {"completed", "verified"}, NEW m,
               task' = [task EXCEPT ![u] = [task[u] EXCEPT !.map = m, !.status = s]],
               m = task[u].map \/ m = "completed"
        PROVE  /\ task'[t].map = "completed"
               /\ task'[t].status \in {"completed", "verified"}
               /\ task'[t].worker = task[t].worker
    BY <2>1, <2>3 DEF TaskType
  <2>4. ASSUME NEW u \in Tasks, VerifyTask(u)
        PROVE  task' = [task EXCEPT ![u] = [task[u] EXCEPT !.map = task[u].map, !.status = "verified"]]
    BY <2>1, <2>4 DEF VerifyTask, TaskType
  <2>5. ASSUME NEW u \in Tasks, NEW j \in Jobs, CompleteTask(u, j)
        PROVE  task' = [task EXCEPT ![u] = [task[u] EXCEPT !.map = "completed", !.status = "completed"]]
    BY <2>1, <2>5 DEF CompleteTask, TaskType
  <2>6. CASE UNCHANGED task
    BY <2>1, <2>6
  <2> QED
    BY <2>1, <2>2, <2>3, <2>4, <2>5, <2>6 DEF TaskNext, InvoiceCreated, WorkerPaid, TreasuryPaid
<1> QED
  BY <1>1, Invariant, PTL DEF TaskSpec, CompletedStays
=============================================================================
