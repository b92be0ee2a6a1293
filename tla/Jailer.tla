-------------------------------- MODULE Jailer --------------------------------
(***************************************************************************)
(* The hardware jailer (vm/jailer.ts): microVMs, their processes and the   *)
(* GPUs bound to vfio-pci for them.  A creation binds the GPU, awaits, and *)
(* goes on in a later step; in simulation mode there is neither a process  *)
(* nor a command on the host.                                              *)
(***************************************************************************)
EXTENDS Naturals, FiniteSets

CONSTANTS
  Jails,      \* ids of the VMs; each is drawn once
  Gpus,       \* PCI addresses of isolated GPUs
  NoGpu       \* a VM without a GPU

ASSUME JailerAssumption == NoGpu \notin Gpus

VARIABLES
  simulationMode,
  jails,      \* vms: status, GPU and process of each VM
  bound,      \* boundDevices
  onHost,     \* the devices vfio-pci has on the host
  cleaning,   \* a cleanup is in progress
  direct      \* devices bindVFIO was called for without a VM (history)

jailerVars == <<simulationMode, jails, bound, onHost, cleaning, direct>>

NoJail == [status |-> "none", gpu |-> NoGpu, process |-> "none", handled |-> FALSE, stopped |-> FALSE]
JailType == [status : {"none", "creating", "failed", "running", "stopped", "error"},
             gpu : Gpus \cup {NoGpu},
             process : {"none", "alive", "signalled", "dead"},
             handled : BOOLEAN,   \* processes holds it
             stopped : BOOLEAN]   \* stopVM was called (history)

JailerInit ==
  /\ simulationMode \in BOOLEAN
  /\ jails = [j \in Jails |-> NoJail]
  /\ bound = {} /\ onHost = {} /\ cleaning = FALSE /\ direct = {}

\* bindVFIO: a GPU that is bound already, for whatever VM, is a success at once; the commands on
\* the host may fail, before or after the device is taken from its driver, and the creation
\* with them.
BindVFIO(g, ok) ==
  IF simulationMode \/ g \in bound
  THEN ok /\ bound' = bound \cup {g} /\ UNCHANGED onHost
  ELSE IF ok THEN bound' = bound \cup {g} /\ onHost' = onHost \cup {g}
  ELSE onHost' \in {onHost, onHost \ {g}} /\ UNCHANGED bound

\* bindVFIO is public.
BindDirectly(g, ok) ==
  /\ BindVFIO(g, ok) /\ direct' = direct \cup {g}
  /\ UNCHANGED <<simulationMode, jails, cleaning>>

\* In simulation nothing is spawned.
Running(jail) ==
  [jail EXCEPT !.status = "running", !.process = IF simulationMode THEN "none" ELSE "alive",
               !.handled = ~simulationMode]

\* A GPU that is not isolated is refused before anything is done; without one nothing is awaited.
CreateMicroVM(j, g, ok) ==
  /\ jails[j] = NoJail
  /\ IF g = NoGpu THEN (ok \/ ~simulationMode) /\ UNCHANGED <<bound, onHost>> ELSE BindVFIO(g, ok)
  /\ LET jail == [NoJail EXCEPT !.gpu = g, !.status = IF ok THEN "creating" ELSE "failed"]
     IN jails' = [jails EXCEPT ![j] = IF ok /\ g = NoGpu THEN Running(jail) ELSE jail]
  /\ UNCHANGED <<simulationMode, cleaning, direct>>

\* The rest of createVM; what it writes or spawns may throw, and leaves the GPU bound.
VMCreated(j) ==
  /\ jails[j].status = "creating"
  /\ jails' = [jails EXCEPT ![j] = Running(@)]
  /\ UNCHANGED <<simulationMode, bound, onHost, cleaning, direct>>
CreateThrows(j) ==
  /\ jails[j].status = "creating" /\ ~simulationMode
  /\ jails' = [jails EXCEPT ![j].status = "failed"]
  /\ UNCHANGED <<simulationMode, bound, onHost, cleaning, direct>>

\* A VM that was signalled has no exit code: its exit is an error.
JailProcessEnds(j, code) ==
  /\ jails[j].process \in {"alive", "signalled"}
  /\ code = 0 => jails[j].process = "alive"
  /\ jails' = [jails EXCEPT ![j].process = "dead",
                 ![j].status = IF code = 0 THEN @ ELSE "error"]
  /\ UNCHANGED <<simulationMode, bound, onHost, cleaning, direct>>

JailKnown(j) == jails[j].status \in {"running", "stopped", "error"}
JailStopped(j) ==
  [jails EXCEPT ![j].status = "stopped", ![j].stopped = TRUE, ![j].handled = FALSE,
                ![j].process = IF jails[j].handled /\ @ = "alive" THEN "signalled" ELSE @]

\* A fault: the GPU is released only from a VM that is running.
StopVMRunning(j) ==
  /\ JailKnown(j) /\ jails' = JailStopped(j)
  /\ bound' = IF jails[j].status = "running" THEN bound \ {jails[j].gpu} ELSE bound
  /\ UNCHANGED <<simulationMode, onHost, cleaning, direct>>

\* The GPU is forgotten, whoever else has it, and stays with vfio-pci; the SIGKILL of the timer is
\* never sent, because the signal sent before already makes process.killed true.
StopVM(j) ==
  /\ JailKnown(j) /\ jails' = JailStopped(j)
  /\ bound' = bound \ {jails[j].gpu}
  /\ UNCHANGED <<simulationMode, onHost, cleaning, direct>>

\* cleanup awaits stopVM for one VM after the other, the running ones.
CleanupBegins ==
  /\ ~cleaning /\ cleaning' = TRUE /\ UNCHANGED <<simulationMode, jails, bound, onHost, direct>>
CleanupStops(j) ==
  /\ cleaning /\ jails[j].status = "running" /\ StopVM(j)
CleanupEnds ==
  /\ cleaning /\ (\A j \in Jails : jails[j].status # "running")
  /\ cleaning' = FALSE /\ UNCHANGED <<simulationMode, jails, bound, onHost, direct>>

JailerNext ==
  \/ CleanupBegins \/ CleanupEnds
  \/ \E g \in Gpus, ok \in BOOLEAN : BindDirectly(g, ok)
  \/ \E j \in Jails :
       \/ \E g \in Gpus \cup {NoGpu}, ok \in BOOLEAN : CreateMicroVM(j, g, ok)
       \/ VMCreated(j) \/ CreateThrows(j) \/ StopVM(j) \/ CleanupStops(j)
       \/ \E code \in {0, 1} : JailProcessEnds(j, code)

JailerSpec == JailerInit /\ [][JailerNext]_jailerVars

VerifyPassthrough(j) == jails[j].gpu \in Gpus /\ (simulationMode \/ jails[j].gpu \in onHost)

JailerTypeOK ==
  /\ simulationMode \in BOOLEAN /\ cleaning \in BOOLEAN
  /\ jails \in [Jails -> JailType]
  /\ bound \cup onHost \cup direct \subseteq Gpus

\* A running VM has its GPU unless another VM that was given the same GPU has been stopped, and a
\* GPU stays bound only because somebody bound it directly or for a VM that named it and that was
\* not stopped: one that runs, that has failed, whose creation was cut off, or that died before
\* anybody stopped it.
\* On hardware a GPU that is counted as bound is one vfio-pci has.
BoundAsNamed ==
  /\ \A j \in Jails : jails[j].status \in {"creating", "running"} /\ jails[j].gpu \in Gpus \ bound =>
       \E k \in Jails \ {j} : jails[k].gpu = jails[j].gpu /\ jails[k].stopped
  /\ \A g \in bound \ direct : \E j \in Jails : jails[j].gpu = g /\ ~jails[j].stopped
  /\ simulationMode \/ \A j \in Jails : jails[j].gpu \in bound => VerifyPassthrough(j)
=============================================================================
