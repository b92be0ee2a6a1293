------------------------------- MODULE Training -------------------------------
(***************************************************************************)
(* One job of the training coordinator (training/coordinator.ts): the      *)
(* documented loop that distributes the model once and then collects and   *)
(* aggregates gradients, the checkpoint interval of the job, and an        *)
(* operator who takes checkpoints and recovers from them meanwhile.  Of    *)
(* the workers only their number matters here: no statement that runs ever *)
(* makes one "failed", the only status of a worker that is read.  The      *)
(* simplified synchronous jobs are kept beside it.                         *)
(***************************************************************************)
EXTENDS Naturals, Sequences, FiniteSets

CONSTANTS
  MinWorkers, MaxWorkers,  \* config.minWorkers, config.maxWorkers
  Discovered,              \* numbers of nodes discoverMeshNodes may return
  SimpleWorkers,           \* worker ids of the simplified job
  MaxEpochs,               \* bound on the aggregations
  MaxSaved                 \* bound on the checkpoints

ASSUME TrainingAssumption ==
  /\ {MinWorkers, MaxWorkers, MaxEpochs, MaxSaved} \subseteq Nat
  /\ Discovered \subseteq Nat

VARIABLES
  jobStatus,   \* job.status, "none" before the job exists
  workers,     \* number of workers of the job
  epoch,       \* job.currentEpoch
  hasModel,    \* job.globalModel has been allocated
  saved,       \* epochs of job.checkpoints
  interval,    \* the checkpoint interval is running
  driver,      \* what the training loop is doing
  gradients,   \* gradients the last collection returned
  recovering,  \* a recovery is redistributing the model
  simple       \* the simplified job

trainingVars == <<jobStatus, workers, epoch, hasModel, saved, interval, driver, gradients,
                  recovering, simple>>

JobStatus == {"none", "initializing", "distributing", "training", "aggregating", "checkpointing"}
Driver == {"idle", "started", "distributing", "ready", "collecting", "collected", "thrown"}
NoSimpleJob == [status |-> "none", members |-> {}]

TrainingInit ==
  /\ jobStatus = "none" /\ workers = 0 /\ epoch = 0 /\ hasModel = FALSE /\ saved = <<>>
  /\ interval = FALSE /\ driver = "idle" /\ gradients = 0
  /\ recovering = FALSE
  /\ simple = NoSimpleJob

StartTrainingJob(found) ==
  /\ driver = "idle"
  /\ IF found < MinWorkers
     THEN driver' = "thrown" /\ UNCHANGED <<jobStatus, workers, interval>>
     ELSE /\ workers' = IF found < MaxWorkers THEN found ELSE MaxWorkers
          /\ jobStatus' = "initializing" /\ interval' = TRUE /\ driver' = "started"
  /\ UNCHANGED <<epoch, hasModel, saved, gradients, recovering, simple>>

\* distributeModel up to its first await. The allocation of the model (28 GB at least) may
\* fail; the status stays "distributing" then.
Allocated(ok) ==
  /\ jobStatus' = "distributing"
  /\ ok \in IF hasModel THEN {TRUE} ELSE BOOLEAN
  /\ hasModel' = ok

DriverDistributes(ok) ==
  /\ driver = "started" /\ Allocated(ok)
  /\ driver' = IF ok THEN "distributing" ELSE "thrown"
  /\ UNCHANGED <<workers, epoch, saved, interval, gradients, recovering, simple>>

Distributed ==
  /\ jobStatus' = "training"
  /\ UNCHANGED <<workers, epoch, hasModel, saved, interval, gradients, simple>>

DriverDistributed ==
  /\ driver = "distributing" /\ driver' = "ready" /\ Distributed /\ UNCHANGED recovering

\* collectGradients awaits every worker in turn and leaves job.status alone; any number of
\* the gradients passes the validation and the test for outliers.
CollectBegins ==
  /\ driver = "ready" /\ driver' = "collecting"
  /\ UNCHANGED <<jobStatus, workers, epoch, hasModel, saved, interval, gradients, recovering, simple>>
CollectEnds(k) ==
  /\ driver = "collecting" /\ driver' = "collected" /\ k <= workers /\ gradients' = k
  /\ UNCHANGED <<jobStatus, workers, epoch, hasModel, saved, interval, recovering, simple>>

\* Neither branch ever leaves "aggregating".
AggregateGradients ==
  /\ driver = "collected" /\ epoch < MaxEpochs
  /\ jobStatus' = "aggregating"
  /\ IF gradients < MinWorkers THEN driver' = "thrown" /\ UNCHANGED epoch
     ELSE epoch' = epoch + 1 /\ driver' = "ready"
  /\ UNCHANGED <<workers, hasModel, saved, interval, gradients, recovering, simple>>

\* checkpoint runs to its end without an await; without a model it throws half-way.
Checkpoint ==
  /\ Len(saved) < MaxSaved
  /\ IF hasModel THEN jobStatus' = "training" /\ saved' = Append(saved, epoch)
     ELSE jobStatus' = "checkpointing" /\ UNCHANGED saved
  /\ UNCHANGED <<workers, epoch, hasModel, interval, driver, gradients, recovering, simple>>

\* The interval's callback; the interval ends with a job that is completed or failed, which
\* no job ever is.
IntervalCheckpoint ==
  /\ interval /\ jobStatus = "training" /\ Checkpoint
OperatorCheckpoint ==
  /\ jobStatus # "none" /\ Checkpoint

\* recoverFromCheckpoint: an index out of range throws; otherwise epoch and workers are reset
\* and the model is distributed again, the loop going on meanwhile.
RecoverFromCheckpoint(i, ok) ==
  /\ jobStatus # "none" /\ ~recovering
  /\ i \in DOMAIN saved
  /\ epoch' = saved[i]
  /\ Allocated(ok) /\ recovering' = ok
  /\ UNCHANGED <<workers, saved, interval, driver, gradients, simple>>
RecoveryDistributed ==
  /\ recovering /\ recovering' = FALSE /\ Distributed /\ UNCHANGED driver

\* The simplified job: startTrainingJob(opts), addWorker and the handleWorkerFailure that
\* takes the place of the asynchronous one of the same name.
SimpleStart ==
  /\ simple = NoSimpleJob /\ simple' = [status |-> "initializing", members |-> {}]
AddWorker(w) ==
  /\ simple # NoSimpleJob /\ simple' = [simple EXCEPT !.members = @ \cup {w}]
HandleWorkerFailure(w) ==
  /\ simple # NoSimpleJob
  /\ simple' = [status |-> "running", members |-> simple.members \ {w}]

TrainingNext ==
  \/ \E found \in Discovered : StartTrainingJob(found)
  \/ \E ok \in BOOLEAN : DriverDistributes(ok)
  \/ DriverDistributed
  \/ CollectBegins
  \/ \E k \in 0..MaxWorkers : CollectEnds(k)
  \/ AggregateGradients
  \/ IntervalCheckpoint
  \/ OperatorCheckpoint
  \/ \E i \in 1..MaxSaved, ok \in BOOLEAN : RecoverFromCheckpoint(i, ok)
  \/ RecoveryDistributed
  \/ /\ SimpleStart \/ \E w \in SimpleWorkers : AddWorker(w) \/ HandleWorkerFailure(w)
     /\ UNCHANGED <<jobStatus, workers, epoch, hasModel, saved, interval, driver, gradients,
                    recovering>>

TrainingSpec == TrainingInit /\ [][TrainingNext]_trainingVars

TrainingTypeOK ==
  /\ jobStatus \in JobStatus /\ driver \in Driver
  /\ workers \in 0..MaxWorkers /\ gradients \in 0..MaxWorkers
  /\ epoch \in 0..MaxEpochs
  /\ saved \in Seq(0..MaxEpochs) /\ Len(saved) <= MaxSaved
  /\ {hasModel, interval, recovering} \subseteq BOOLEAN
  /\ simple.status \in {"none", "initializing", "running"} /\ simple.members \subseteq SimpleWorkers
=============================================================================
