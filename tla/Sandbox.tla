-------------------------------- MODULE Sandbox --------------------------------
(***************************************************************************)
(* The sandbox manager (sandbox/): virtual machines created for tasks,     *)
(* their processes, the timers that destroy them and the commands that run *)
(* in them.  The manager is one Node process, but a creation awaits its    *)
(* launch, a destruction its clean-up and a command its answer, and calls  *)
(* overlap there.  With useMock the machine is a Node child process that   *)
(* cleanup() kills; otherwise it is Firecracker, which nothing kills.      *)
(***************************************************************************)
EXTENDS Naturals, FiniteSets

CONSTANTS
  Tasks,      \* task ids
  VmIds,      \* vm ids generateVMId may draw; each is drawn once
  NoVm,       \* no vm registered
  MaxVMs,     \* config.maxVMs
  MaxRuns,    \* bound on the commands of a vm
  MaxDestroys \* bound on the calls for a task's destruction in progress, timers apart

ASSUME SandboxAssumption ==
  /\ IsFiniteSet(Tasks) /\ IsFiniteSet(VmIds)
  /\ MaxVMs \in Nat /\ MaxRuns \in Nat /\ MaxDestroys \in Nat

VARIABLES
  useMock,    \* Firecracker was not found
  vms,        \* vms: for each task the registered vm, or NoVm
  machine,    \* what is known of each vm and its process
  destroying, \* for each task the calls of destroyVM that await a clean-up
  commands,   \* commands running, as the vm they were sent to
  overlap     \* the most launches that were in flight at once (history)

sandboxVars == <<useMock, vms, machine, destroying, commands, overlap>>

\* stage: what createVM has done; process: of the child; timer: set, pending, fired.
Undrawn == [task |-> NoVm, stage |-> "none", state |-> "none", process |-> "none",
            timer |-> "none", ran |-> 0]
HasVm(t) == vms[t] # NoVm
RegisteredTasks == {t \in Tasks : HasVm(t)}
Launching == {v \in VmIds : machine[v].stage = "launching"}

SandboxInit ==
  /\ useMock \in BOOLEAN
  /\ vms = [t \in Tasks |-> NoVm]
  /\ machine = [v \in VmIds |-> Undrawn]
  /\ destroying = [t \in Tasks |-> 0] /\ commands = {} /\ overlap = 0

\* A fault: the limit is passed before it is tested.
CreateVMPastLimit(t, v) ==
  /\ Cardinality(RegisteredTasks) <= MaxVMs /\ ~HasVm(t)
  /\ machine[v] = Undrawn
  /\ machine' = [machine EXCEPT ![v] = [Undrawn EXCEPT !.task = t, !.stage = "launching", !.process = "alive"]]
  /\ overlap' = IF Cardinality(Launching) + 1 > overlap THEN Cardinality(Launching) + 1 ELSE overlap
  /\ UNCHANGED <<useMock, vms, destroying, commands>>

\* createVM up to the await of launch, which has spawned the process.
CreateVM(t, v) ==
  /\ Cardinality(RegisteredTasks) < MaxVMs /\ ~HasVm(t)
  /\ machine[v] = Undrawn
  /\ machine' = [machine EXCEPT ![v] = [Undrawn EXCEPT !.task = t, !.stage = "launching", !.process = "alive"]]
  /\ overlap' = IF Cardinality(Launching) + 1 > overlap THEN Cardinality(Launching) + 1 ELSE overlap
  /\ UNCHANGED <<useMock, vms, destroying, commands>>

\* The mock says it is ready, or the socket is there and the machine configured.  The vm is
\* registered whether or not another one has been meanwhile.  A process that has ended by now
\* has no listener that would say so.
Launched(v) ==
  /\ machine[v].stage = "launching"
  /\ machine' = [machine EXCEPT ![v].stage = "created", ![v].state = "running", ![v].timer = "pending"]
  /\ vms' = [vms EXCEPT ![machine[v].task] = v]
  /\ UNCHANGED <<useMock, destroying, commands, overlap>>

\* The start-up times out, the configuration is refused or the process ends first: the call
\* throws and leaves the process as it is.
LaunchFails(v) ==
  /\ machine[v].stage = "launching"
  /\ machine' = [machine EXCEPT ![v].stage = "failed"]
  /\ UNCHANGED <<useMock, vms, destroying, commands, overlap>>

\* The listener of monitorProcess writes to whatever vm has the task's entry by then.
ProcessExits(v, code) ==
  /\ machine[v].process = "alive"
  /\ LET t == machine[v].task
         m == [machine EXCEPT ![v].process = "dead"]
     IN machine' = IF machine[v].stage = "created" /\ HasVm(t)
                   THEN [m EXCEPT ![vms[t]].state = IF code = 0 THEN "stopped" ELSE "error"] ELSE m
  /\ UNCHANGED <<useMock, vms, destroying, commands, overlap>>

\* destroyVM up to the await: only a mock's process is sent a signal.  Without a mock there is
\* nothing to await and the entry goes at once.
Destroyed(t) ==
  /\ HasVm(t)
  /\ IF useMock
     THEN destroying' = [destroying EXCEPT ![t] = @ + 1] /\ UNCHANGED vms
     ELSE vms' = [vms EXCEPT ![t] = NoVm] /\ UNCHANGED destroying

DestroyVM(t) ==
  /\ destroying[t] < MaxDestroys /\ Destroyed(t)
  /\ machine' = [machine EXCEPT ![vms[t]].state = "stopped"]
  /\ UNCHANGED <<useMock, commands, overlap>>

\* The clean-up ends: the entry of the task is deleted, whatever it holds.
DestroyEnds(t) ==
  /\ destroying[t] > 0 /\ destroying' = [destroying EXCEPT ![t] = @ - 1]
  /\ vms' = [vms EXCEPT ![t] = NoVm]
  /\ UNCHANGED <<useMock, machine, commands, overlap>>

\* A fault: the timer leaves a vm alone that is not running any more.
TimeoutRunning(v) ==
  /\ machine[v].timer = "pending"
  /\ LET t == machine[v].task
     IN IF HasVm(t) /\ machine[vms[t]].state = "running"
        THEN /\ Destroyed(t)
             /\ machine' = [machine EXCEPT ![v].timer = "fired", ![vms[t]].state = "stopped"]
        ELSE machine' = [machine EXCEPT ![v].timer = "fired"] /\ UNCHANGED <<vms, destroying>>
  /\ UNCHANGED <<useMock, commands, overlap>>

\* setupTimeout: nobody clears the timer, and it destroys the vm that has the entry then.
Timeout(v) ==
  /\ machine[v].timer = "pending"
  /\ LET t == machine[v].task
     IN IF HasVm(t)
        THEN /\ Destroyed(t)
             /\ machine' = [machine EXCEPT ![v].timer = "fired", ![vms[t]].state = "stopped"]
        ELSE machine' = [machine EXCEPT ![v].timer = "fired"] /\ UNCHANGED <<vms, destroying>>
  /\ UNCHANGED <<useMock, commands, overlap>>

\* executeInVM sends the command and awaits the guest's answer, or the end of its time.
ExecuteInVM(t) ==
  /\ HasVm(t) /\ machine[vms[t]].state = "running" /\ machine[vms[t]].ran < MaxRuns
  /\ vms[t] \notin commands
  /\ machine' = [machine EXCEPT ![vms[t]].ran = @ + 1]
  /\ commands' = commands \cup {vms[t]}
  /\ UNCHANGED <<useMock, vms, destroying, overlap>>
CommandEnds(v) ==
  /\ v \in commands /\ commands' = commands \ {v}
  /\ UNCHANGED <<useMock, vms, machine, destroying, overlap>>

SandboxNext ==
  \/ \E t \in Tasks : DestroyVM(t) \/ DestroyEnds(t) \/ ExecuteInVM(t) \/ \E v \in VmIds : CreateVM(t, v)
  \/ \E v \in VmIds :
       \/ Launched(v) \/ LaunchFails(v) \/ Timeout(v) \/ CommandEnds(v)
       \/ \E code \in {0, 1} : ProcessExits(v, code)

SandboxSpec == SandboxInit /\ [][SandboxNext]_sandboxVars

\* Timers fire and clean-ups, which end on a timer of their own, do end.
SandboxFairness ==
  /\ \A v \in VmIds : WF_sandboxVars(Timeout(v))
  /\ \A t \in Tasks : WF_sandboxVars(DestroyEnds(t))

SandboxTypeOK ==
  /\ useMock \in BOOLEAN /\ overlap \in 0..Cardinality(VmIds)
  /\ vms \in [Tasks -> VmIds \cup {NoVm}]
  /\ machine \in [VmIds -> [task : Tasks \cup {NoVm}, stage : {"none", "launching", "created", "failed"},
                            state : {"none", "running", "stopped", "error"},
                            process : {"none", "alive", "dead"},
                            timer : {"none", "pending", "fired"}, ran : 0..MaxRuns]]
  /\ destroying \in [Tasks -> 0..MaxDestroys + Cardinality(VmIds)]
  /\ commands \subseteq VmIds

\* The limit is tested before the launch is awaited: launches in flight at once take the manager
\* past it, by as many as there were besides the first, and nothing else does.
LimitPassedByOverlap ==
  /\ Cardinality(RegisteredTasks) <= MaxVMs \/ overlap > 1
  /\ overlap > 0 => Cardinality(RegisteredTasks) + Cardinality(Launching) <= MaxVMs + overlap - 1

\* Every registered vm leaves the manager in the end, also one whose process has died or that was
\* registered over another one of its task: its timer is set after it is registered, and destroys
\* what has the entry then.
EveryVmLeaves ==
  \A t \in Tasks, v \in VmIds : vms[t] = v ~> vms[t] # v
=============================================================================
